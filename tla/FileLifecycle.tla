---------------------------- MODULE FileLifecycle ----------------------------
(***************************************************************************)
(* What the storage of attachments promises of a file, though its bytes    *)
(* and its row live in two systems that share no transaction: it is        *)
(* accepted once and only with its bytes, it is cleared for download at    *)
(* most once, its bytes are erased only after it was withdrawn, and what   *)
(* was withdrawn never comes back.                                         *)
(***************************************************************************)
CONSTANT File

VARIABLES
  phase,   \* "NEW", "WAITING" for a verdict, "READY" to download, or "GONE"
  bytes    \* whether the object store holds the file's bytes

vars == <<phase, bytes>>

Init ==
  /\ phase = [f \in File |-> "NEW"]
  /\ bytes = [f \in File |-> FALSE]

\* A store that answered with an error may still keep the bytes, late.
Put(f) ==
  /\ phase[f] \in {"NEW", "GONE"}
  /\ ~bytes[f]
  /\ bytes' = [bytes EXCEPT ![f] = TRUE]
  /\ UNCHANGED phase

Become(f, from, to) ==
  /\ phase[f] \in from
  /\ phase' = [phase EXCEPT ![f] = to]
  /\ UNCHANGED bytes

Accept(f) ==
  bytes[f] /\ \E to \in {"WAITING", "READY"} : Become(f, {"NEW"}, to)

Clear(f) == Become(f, {"WAITING"}, "READY")

Withdraw(f) == Become(f, {"NEW", "WAITING", "READY"}, "GONE")

Erase(f) ==
  /\ phase[f] = "GONE"
  /\ bytes' = [bytes EXCEPT ![f] = FALSE]
  /\ UNCHANGED phase

Next ==
  \E f \in File : Put(f) \/ Accept(f) \/ Clear(f) \/ Withdraw(f) \/ Erase(f)

Spec == Init /\ [][Next]_vars
=============================================================================

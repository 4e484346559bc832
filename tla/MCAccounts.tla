----------------------------- MODULE MCAccounts -----------------------------
(***************************************************************************)
(* An instance of Accounts for TLC, from two states: the administrator has *)
(* been created and is signed in, and a student comes; or a student has    *)
(* registered and let two links expire, and the administrator comes.       *)
(***************************************************************************)
EXTENDS Accounts, TLC

CONSTANTS student, admin, c1, c2

\* Calls are only compared with each other.
Symmetry == Permutations(Calls)

MCSessions == [u \in {student, admin} |-> IF u = admin THEN 1 ELSE 2]

Settled ==
  [status |-> "ACTIVE", email |-> TRUE, emailVerified |-> TRUE,
   phone |-> "NOT_REQUIRED", password |-> MaxPasswords]

Unverified ==
  [status |-> "PENDING_VERIFICATION", email |-> TRUE, emailVerified |-> FALSE,
   phone |-> "NOT_REQUIRED", password |-> 1]

\* One session of the administrator, two of the student.
\* There is room for no other password of an administrator who is there.
MCInit ==
  /\ reset = <<>> /\ recovery = <<>>
  /\ call = [c \in Calls |-> Idle]
  /\ \/ /\ user = [u \in Users |-> IF u = admin THEN Settled ELSE Unregistered]
        /\ roles = [u \in Users |-> IF u = admin THEN {"ADMIN"} ELSE {}]
        /\ session = <<[user |-> admin, status |-> "LIVE",
                        password |-> MaxPasswords, roles |-> {"ADMIN"}]>>
        /\ verify = <<>>
     \/ /\ user = [u \in Users |-> IF u = admin THEN Unregistered ELSE Unverified]
        /\ roles = [u \in Users |-> IF u = admin THEN {} ELSE {"STUDENT"}]
        /\ session = <<>>
        /\ verify = <<[user |-> student, status |-> "REVOKED"],
                      [user |-> student, status |-> "EXPIRED"]>>

MCSpec == MCInit /\ [][Next]_vars
=============================================================================

---------------------------- MODULE DueLifecycle ----------------------------
(***************************************************************************)
(* What the finance ledger promises of a due, whoever works on it and      *)
(* however many statements their operations take: it is issued once, a     *)
(* payment is collected only while it is owed, only a payment that was     *)
(* collected is given back, and a voided due is closed.                    *)
(***************************************************************************)
EXTENDS Naturals

CONSTANT Due

VARIABLES
  status,      \* of each due; "NONE" before it is issued
  collected    \* payments of each due that have not been reversed

vars == <<status, collected>>

Init ==
  /\ status = [d \in Due |-> "NONE"]
  /\ collected = [d \in Due |-> 0]

Step(d, from, to) == status[d] = from /\ status' = [status EXCEPT ![d] = to]

Issue(d) == Step(d, "NONE", "UNPAID") /\ UNCHANGED collected

RecordPayment(d) ==
  /\ Step(d, "UNPAID", "PAID")
  /\ collected' = [collected EXCEPT ![d] = @ + 1]

ReversePayment(d) ==
  /\ Step(d, "PAID", "UNPAID")
  /\ collected' = [collected EXCEPT ![d] = @ - 1]

Void(d) == Step(d, "UNPAID", "VOIDED") /\ UNCHANGED collected

Next ==
  \E d \in Due : Issue(d) \/ RecordPayment(d) \/ ReversePayment(d) \/ Void(d)

Spec == Init /\ [][Next]_vars
=============================================================================

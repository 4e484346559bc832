------------------------- MODULE MCServiceRequests -------------------------
(***************************************************************************)
(* Instances of ServiceRequests for TLC: one student, so that every        *)
(* request is that student's.                                              *)
(***************************************************************************)
EXTENDS ServiceRequests, TLC

CONSTANTS r1, q1, q2, stu, adm, adm2, b1, b2

OneStudent == [r \in Requests |-> stu]

\* Quotes and briefs are only compared with each other.
Symmetry == Permutations({q1, q2}) \cup Permutations({b1, b2})
=============================================================================

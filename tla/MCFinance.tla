----------------------------- MODULE MCFinance -----------------------------
(* Instances of Finance for TLC. *)
EXTENDS Finance, TLC

CONSTANTS stu, a1, a2

\* Administrators are only compared with each other.
Symmetry == Permutations({a1, a2})
=============================================================================

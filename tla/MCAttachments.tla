---------------------------- MODULE MCAttachments ----------------------------
(* Instances of Attachments for TLC. *)
EXTENDS Attachments, TLC

CONSTANTS f1, f2, w1, w2

\* Files are only compared with each other, and so are workers.
Symmetry == Permutations(Files) \cup Permutations(Workers)
=============================================================================

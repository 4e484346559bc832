----------------------------- MODULE MCAuthMail -----------------------------
(***************************************************************************)
(* An instance of AuthMail for TLC.  With room for two mails, a person who *)
(* registers is followed up to the second link for the address; a person   *)
(* whom createAdmin lets in verified, through a second reset link or a new *)
(* password.                                                               *)
(***************************************************************************)
EXTENDS AuthMail

CONSTANTS u1, c1, w1, w2

MCSessions == [u \in Users |-> 0]
=============================================================================

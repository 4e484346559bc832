-------------------------- MODULE MCConversations --------------------------
(* Instances of Conversations for TLC. *)
EXTENDS Conversations

CONSTANT m1
=============================================================================

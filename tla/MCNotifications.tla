--------------------------- MODULE MCNotifications ---------------------------
(* An instance of Notifications for TLC. *)
EXTENDS Notifications

CONSTANTS w1, w2
=============================================================================

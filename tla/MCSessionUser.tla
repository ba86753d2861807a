---------------------------- MODULE MCSessionUser ----------------------------
(* The instance of SessionUser for TLC: all its constants are in the .cfg. *)
EXTENDS SessionUser, TLC
=============================================================================

---------------------------- MODULE MCTicketCommand ----------------------------
(* Instances of TicketCommand for TLC. *)
EXTENDS TicketCommand, TLC
=============================================================================

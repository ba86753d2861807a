----------------------------- MODULE MCTicketForm -----------------------------
(* Instances of TicketForm for TLC: two services of 1C. *)
EXTENDS TicketForm, TLC

CONSTANTS repair, install

MCRouteOf == (repair :> Soap) @@ (install :> Soap)
=============================================================================

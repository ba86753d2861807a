----------------------------- MODULE MCGroupSync -----------------------------
(* Instances of GroupSync for TLC: two groups, each in a domain of its own.   *)
EXTENDS GroupSync, TLC

CONSTANTS admins, staff, d1, d2

MCDomainOf == (admins :> d1) @@ (staff :> d2)
=============================================================================

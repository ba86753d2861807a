---------------------------- MODULE MCSteadyAccess ----------------------------
(* Instances of SteadyAccess for TLC: a chief and a subordinate, each in a   *)
(* domain of their own.                                                       *)
EXTENDS SteadyAccess, TLC

CONSTANTS boss, clerk, d1, d2

MCManager  == (boss :> NoManager) @@ (clerk :> boss)
MCDomainOf == (boss :> d1) @@ (clerk :> d2)

(* The cache starts empty.                                                    *)
NothingCached == [a \in Account |-> {{}}]
=============================================================================

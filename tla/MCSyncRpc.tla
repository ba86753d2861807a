------------------------------- MODULE MCSyncRpc -------------------------------
(* Instances of SyncRpc for TLC: a chief and a subordinate, each in a domain  *)
(* of their own.                                                              *)
EXTENDS SyncRpc, TLC

CONSTANTS boss, clerk, d1, d2

MCManager  == (boss :> NoManager) @@ (clerk :> boss)
MCDomainOf == (boss :> d1) @@ (clerk :> d2)

(* The cache starts empty.                                                    *)
NothingCached == [a \in Account |-> {{}}]
=============================================================================

------------------------------- MODULE MCNewUser -------------------------------
(* Instances of NewUser for TLC. *)
EXTENDS NewUser, TLC

CONSTANTS boss, clerk

(* Two people who are each other's manager: the descent meets a cycle.      *)
CycleManager == (boss :> clerk) @@ (clerk :> boss)

(* The cache starts empty, or still holds that the clerk is enabled.          *)
ClerkCached == [a \in Account |-> IF a = clerk THEN {{}, {"enabled"}} ELSE {{}}]
=============================================================================

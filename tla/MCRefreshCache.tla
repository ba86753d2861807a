--------------------------- MODULE MCRefreshCache ---------------------------
(* Instances of RefreshCache for TLC. *)
EXTENDS RefreshCache, TLC

(* A query with every flag left to its default, as the pages send it.       *)
PlainOptions == {[cache |-> "unset", setCache |-> "unset", websocket |-> "unset"]}

(* Users, requests, systems and contents are interchangeable; used with     *)
(* safety and action properties only.                                       *)
ListSymmetry ==
  Permutations(User) \cup Permutations(Request) \cup Permutations(Source)
    \cup Permutations(Content)
=============================================================================

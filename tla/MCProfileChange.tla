--------------------------- MODULE MCProfileChange ---------------------------
(* Instances of ProfileChange for TLC. *)
EXTENDS ProfileChange, TLC

CONSTANTS ann, bob

CONSTANTS t1, t2, t3

(* One person signed in once or twice; two people.                          *)
AllAnn    == [e \in Editor |-> ann]
AnnTwice  == (t1 :> ann) @@ (t2 :> ann) @@ (t3 :> bob)
=============================================================================

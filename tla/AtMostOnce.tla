------------------------------ MODULE AtMostOnce ------------------------------
(***************************************************************************)
(* What whoever gives an order to another system through the portal may    *)
(* rely on.  An order is executed at most once.  "Done" means that it was  *)
(* executed.  "Refused" means that it was not and never will be, so that   *)
(* giving the order again is safe.  "Unsure" promises nothing: the order   *)
(* may have been executed, or be executed later.                           *)
(***************************************************************************)
CONSTANT Order

VARIABLES told, executed

Init ==
  /\ told = [o \in Order |-> "unasked"]
  /\ executed = {}

Answer(o, word) == told' = [told EXCEPT ![o] = word]

Ask(o) ==
  /\ told[o] = "unasked" /\ Answer(o, "nothing")
  /\ UNCHANGED executed

Execute(o) ==
  /\ told[o] \in {"nothing", "unsure"} /\ o \notin executed
  /\ executed' = executed \cup {o}
  /\ UNCHANGED told

Confirm(o) ==
  /\ told[o] = "nothing" /\ o \in executed /\ Answer(o, "done")
  /\ UNCHANGED executed

Refuse(o) ==
  /\ told[o] = "nothing" /\ o \notin executed /\ Answer(o, "refused")
  /\ UNCHANGED executed

GiveUp(o) ==
  /\ told[o] = "nothing" /\ Answer(o, "unsure")
  /\ UNCHANGED executed

Next == \E o \in Order :
          Ask(o) \/ Execute(o) \/ Confirm(o) \/ Refuse(o) \/ GiveUp(o)

Spec == Init /\ [][Next]_<<told, executed>>
=============================================================================

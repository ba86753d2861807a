-------------------------------- MODULE Access --------------------------------
(***************************************************************************)
(* Who has access to the portal, as far as whoever administers the         *)
(* directory may rely on it: access is only given to an account that was   *)
(* shown as enabled, and only taken from one for which there is an excuse. *)
(***************************************************************************)
CONSTANT Account

VARIABLES
  access,   \* the accounts that have access
  shown,    \* the accounts that were ever shown as enabled
  excused   \* the accounts that may lose access

accessVars == <<access, shown, excused>>

Init ==
  /\ access \subseteq shown
  /\ shown \subseteq Account /\ excused \subseteq Account

(* What was shown stays shown, and what excuses once excuses for ever.      *)
Learn ==
  /\ shown \subseteq shown' /\ shown' \subseteq Account
  /\ excused \subseteq excused' /\ excused' \subseteq Account
  /\ UNCHANGED access

Give(a) ==
  /\ a \in shown
  /\ access' = access \cup {a}
  /\ UNCHANGED <<shown, excused>>

Take(a) ==
  /\ a \in excused
  /\ access' = access \ {a}
  /\ UNCHANGED <<shown, excused>>

Next == Learn \/ \E a \in Account : Give(a) \/ Take(a)

Spec == Init /\ [][Next]_accessVars
=============================================================================

-------------------------------- MODULE Pages --------------------------------
(***************************************************************************)
(* The pages side by side: the phonebook (Phonebook) and the card of a     *)
(* person over it (ProfileCard), the pages of tasks (TaskPages) and their  *)
(* files (TaskFiles), the form of a profile (ProfileForm), and what all of *)
(* them stand on, the visit of a browser (Visit).  They share no variable: *)
(* what a page shows is asked for anew for whoever is signed in, and the   *)
(* answers of one page are cached under names no other page uses.  One     *)
(* behaviour is one of them, and the others do not begin.                  *)
(***************************************************************************)
EXTENDS Phonebook, ProfileCard, TaskPages, TaskFiles, ProfileForm, Visit

VARIABLE part

pagesVars == <<part, phonebookVars, profileCardVars, taskPageVars, taskFilesVars,
               profileFormVars, visitVars>>

Part == {"phonebook", "card", "tasks", "files", "form", "visit"}

PageTypes ==
  \/ part = "phonebook" /\ PhonebookTypeOK
  \/ part = "card" /\ ProfileCardTypeOK
  \/ part = "tasks" /\ TaskPagesTypeOK
  \/ part = "files" /\ TaskFilesTypeOK
  \/ part = "form" /\ ProfileFormTypeOK
  \/ part = "visit" /\ VisitTypeOK

PagesInit ==
  /\ part \in Part
  /\ PhonebookInit /\ ProfileCardInit /\ TaskPagesInit /\ TaskFilesInit
  /\ ProfileFormInit /\ VisitInit
  /\ part # "phonebook" => domain = NoDomain
  /\ part # "tasks" => view = "tickets"
  /\ part # "files" => area = "tickets"
  /\ part # "form" => page = "new"

PagesNext ==
  /\ UNCHANGED part
  /\ \/ /\ part = "phonebook" /\ PhonebookNext
        /\ UNCHANGED <<profileCardVars, taskPageVars, taskFilesVars, profileFormVars, visitVars>>
     \/ /\ part = "card" /\ ProfileCardNext
        /\ UNCHANGED <<phonebookVars, taskPageVars, taskFilesVars, profileFormVars, visitVars>>
     \/ /\ part = "tasks" /\ TaskPagesNext
        /\ UNCHANGED <<phonebookVars, profileCardVars, taskFilesVars, profileFormVars, visitVars>>
     \/ /\ part = "files" /\ TaskFilesNext
        /\ UNCHANGED <<phonebookVars, profileCardVars, taskPageVars, profileFormVars, visitVars>>
     \/ /\ part = "form" /\ ProfileFormNext
        /\ UNCHANGED <<phonebookVars, profileCardVars, taskPageVars, taskFilesVars, visitVars>>
     \/ /\ part = "visit" /\ VisitNext
        /\ UNCHANGED <<phonebookVars, profileCardVars, taskPageVars, taskFilesVars, profileFormVars>>

Spec == PagesInit /\ [][PagesNext]_pagesVars
=============================================================================

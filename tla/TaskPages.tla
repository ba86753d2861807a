------------------------------ MODULE TaskPages ------------------------------
(***************************************************************************)
(* What the pages of tickets and documents show of what the systems hold:  *)
(* the lists (pages/tasks/tasks.tsx, pages/docflow/tasks.tsx) and the page *)
(* of one task (tasks/task.tsx, docflow/task.tsx), above ticketsTasks,     *)
(* ticketsTask, docFlowTasks and docFlowTask and the conversions of their  *)
(* records.                                                                *)
(*                                                                         *)
(* A list of tickets asks 1C and every osTicket at once and puts together  *)
(* what comes; a document is asked for first and then its targets, one     *)
(* call each.  A record is reduced to what a conversion tells apart: it is *)
(* empty, it cannot be read, or it lacks what its GraphQL type requires.   *)
(*                                                                         *)
(* Answers from the cache are the subject of RefreshCache; what it         *)
(* publishes changes no list, as the pages look for it under a name it     *)
(* does not have.                                                          *)
(***************************************************************************)
EXTENDS Naturals, FiniteSets

CONSTANTS
  Soap, Docflow,
  OSTicket,     \* OSTICKET_URL: every key of it is one that whereService knows
  Item,         \* tasks, and the documents they are about
  Target,       \* those documents
  Holder,       \* the system of each
  Blank,        \* {}: nothing in it
  Unfit,        \* converted, but lacking what its type requires
  Unreadable    \* its conversion throws: a date as text in 1C, no author in a document

System == {Soap, Docflow} \cup OSTicket

ASSUME TaskPagesAssumption ==
  /\ Soap # Docflow /\ {Soap, Docflow} \cap OSTicket = {} /\ Item \cap System = {}
  /\ Holder \in [Item -> System] /\ Item \cap {"tickets", "documents"} = {}
  /\ Target \subseteq {i \in Item : Holder[i] = Docflow}
  /\ Blank \cup Unfit \cup Unreadable \subseteq Item

VARIABLES
  view,   \* the page: a list, or the page of one task or document
  held,   \* what the systems hold
  due,    \* the request of the page that is on its way
  known,  \* a refetch was answered: the cache has its variables
  reply,  \* what each system said to it
  seen,   \* history: what the systems held when they replied
  mute,   \* history: the systems whose error a list took for an answer
  shown,  \* the tasks on the page
  data,   \* the answer they are from, with its errors
  told,   \* an error was told
  stale   \* the last answer was an error, and older tasks are shown

taskPageVars == <<view, held, due, known, reply, seen, mute, shown, data, told, stale>>

About == IF view = "tickets" THEN {i \in Item : Holder[i] # Docflow}
         ELSE IF view = "documents" THEN {i \in Item \ Target : Holder[i] = Docflow}
         ELSE {view}

OfDocuments == view = "documents" \/ (view \in Item /\ Holder[view] = Docflow)

Waiting == [kind |-> "waiting"]
Reply   == [kind : {"refused", "fault", "late", "empty", "disguised"}]
             \cup [kind : {"items"}, items : SUBSET Item]
NoData  == [items |-> {}, errors |-> FALSE]

TaskPagesTypeOK ==
  /\ view \in Item \cup {"tickets", "documents"}
  /\ held \subseteq About /\ seen \subseteq About /\ shown \subseteq About
  /\ mute \subseteq System /\ (view # "tickets" => mute = {})
  /\ reply \in [System \cup Target -> Reply \cup {Waiting}]
  /\ data \in [items : SUBSET About, errors : BOOLEAN]
  /\ due \in {"no", "query", "refetch"} /\ known \in BOOLEAN /\ told \in BOOLEAN /\ stale \in BOOLEAN

TaskPagesInit ==
  /\ view \in Item \cup {"tickets", "documents"}
  /\ held = {}
  /\ due = "query" /\ known = FALSE /\ reply = [s \in System \cup Target |-> Waiting]
  /\ seen = {} /\ mute = {}
  /\ shown = {} /\ data = NoData /\ told = FALSE /\ stale = FALSE

-----------------------------------------------------------------------------
(* The conversions.                                                         *)

Items(s) == IF reply[s].kind = "items" THEN reply[s].items ELSE {}

SoapTask(i) == IF i \in Blank THEN "nothing" ELSE IF i \in Unreadable THEN "throws"
               ELSE IF i \in Unfit THEN "unfit" ELSE "fine"

(* Any date is read; what is none, the type refuses.                        *)
OstTask(i) == IF i \in Blank THEN "nothing"
              ELSE IF i \in Unreadable \cup Unfit THEN "unfit" ELSE "fine"

OstDescription(i) == IF i \in Blank \cup Unreadable \cup Unfit THEN "unfit" ELSE "fine"

DocflowDocument(i) == IF i \in Blank \cup Unreadable THEN "throws"
                      ELSE IF i \in Unfit THEN "unfit" ELSE "fine"

(* With a document among its targets that throws, so does a task.           *)
DocflowTask(i) == DocflowDocument(i)

Converted(i) ==
  IF Holder[i] = Soap THEN SoapTask(i)
  ELSE IF Holder[i] \in OSTicket THEN (IF view = i THEN OstDescription(i) ELSE OstTask(i))
  ELSE IF i \in Target THEN DocflowDocument(i) ELSE DocflowTask(i)

(* One record that throws leaves nothing of the list.                       *)
Throws(s) == \E i \in Items(s) : Converted(i) = "throws"

(* GraphQL answers with an error, and without data, when what its type      *)
(* requires is missing, and when a list holds nothing at a place.           *)
Refused(items) == \E i \in items : Converted(i) \in {"nothing", "unfit"}

-----------------------------------------------------------------------------
(* The answers.                                                             *)

(* Only what is known of the others so far is asked: the targets of a       *)
(* document that was found.                                                 *)
Asked ==
  IF view = "tickets" THEN {Soap} \cup OSTicket
  ELSE IF view = "documents" THEN {Docflow}
  ELSE {Holder[view]} \cup
       (IF OfDocuments /\ view \notin Target /\ Items(Docflow) # {} /\ ~Throws(Docflow)
        THEN Target ELSE {})

(* A bug: promises that were rejected are left out.                         *)
Complains_OfAnswers(s) ==
  \/ s = Soap /\ (reply[s].kind \in {"refused", "fault", "empty"} \/ Throws(s))
  \/ s \in OSTicket /\ reply[s].kind = "empty"

(* allSettled and reduce: a system that has no tasks to give adds an error. *)
(* But one that says so in a normal answer, an object with `error`, or a    *)
(* page of HTML, has just no tasks: nobody looks for an error in it.        *)
Complains(s) == reply[s].kind \in {"refused", "fault", "empty"} \/ Throws(s)

Gives(s) == IF Throws(s) THEN {} ELSE Items(s)

(* A call of 1C that times out adds an error that is not a text, which      *)
(* cannot be answered.                                                      *)
TicketListFails ==
  \/ reply[Soap].kind = "late"
  \/ \E s \in Asked : Refused(Gives(s))

(* Nothing found in 1C is an answer without a task.  An error in a normal   *)
(* answer of 1C has no task to convert; in one of osTicket it is looked for.*)
TicketFails ==
  LET s == Holder[view]
  IN  \/ reply[s].kind \in {"refused", "fault", "late", "disguised"} \/ Throws(s)
      \/ s # Soap /\ reply[s].kind = "empty"
      \/ \E i \in Items(s) : Converted(i) = "unfit"

(* No items are no list either.                                             *)
DocumentListFails ==
  reply[Docflow].kind # "items" \/ Throws(Docflow) \/ Refused(Items(Docflow))

(* Any call that fails ends it: Promise.all.                                *)
DocumentTaskFails ==
  \/ \E s \in Asked : reply[s].kind # "items"
  \/ Items(Docflow) = {} \/ Throws(Docflow) \/ Refused(Items(Docflow))

(* A document on its own page is answered as a list of one, which has no id.*)
TargetFails == TRUE

AnswerFails ==
  \/ view = "tickets" /\ TicketListFails
  \/ view = "documents" /\ DocumentListFails
  \/ view \in Target /\ TargetFails
  \/ view \in Item \ Target /\ IF OfDocuments THEN DocumentTaskFails ELSE TicketFails

Answer == [items  |-> {i \in UNION {Gives(s) : s \in Asked \cap System} : Converted(i) = "fine"},
           errors |-> view = "tickets" /\ \E s \in Asked : Complains(s)]

-----------------------------------------------------------------------------
(* The systems.                                                             *)

Hold(items) ==
  /\ items # held /\ held' = items
  /\ UNCHANGED <<view, due, known, reply, seen, mute, shown, data, told, stale>>

(* A system that fails holds its tasks all the same.  1C and osTicket may   *)
(* say nothing at all, above all when there is nothing, or put their error  *)
(* into a normal answer; the document system does too, where it is found.   *)
SystemReplies(s) ==
  LET own == {i \in held : Holder[i] = s}
  IN  /\ due # "no" /\ s \in Asked /\ reply[s] = Waiting
      /\ \E r \in {[kind |-> k] : k \in {"refused", "fault", "late", "empty", "disguised"}}
                    \cup {[kind |-> "items", items |-> own]} :
           /\ r.kind = "late" => s \notin OSTicket   \* axios rejects: a fault
           /\ reply' = [reply EXCEPT ![s] = r]
           /\ mute' = IF r.kind = "disguised" /\ view = "tickets" THEN mute \cup {s} ELSE mute
      /\ seen' = seen \cup own
      /\ UNCHANGED <<view, held, due, known, shown, data, told, stale>>

-----------------------------------------------------------------------------
(* The pages.                                                               *)

(* What the page has takes the place of the sign that it is loading.        *)
Over ==
  /\ due' = "no" /\ reply' = [s \in System \cup Target |-> Waiting]
  /\ UNCHANGED <<view, held, seen, mute>>

(* What a page tells of an answer.  A list of tickets tells the errors in   *)
(* it when it differs from the last one; the page of a ticket says that     *)
(* there is none; the pages of documents have errors in the place of tasks. *)
TicketListTells(answer) == IF answer = data THEN told ELSE answer.errors

TicketTells(items)       == items = {}
DocumentListTells(items) == items = {}
DocumentTaskTells(items) == items = {}

(* The page of a document says that it is loading until there is one, error *)
(* or not.                                                                  *)
TargetTells(items) == items # {}

(* What has been fetched under the same variables stays; those of a refetch *)
(* say cache: false.  The pages of tickets tell every error.                *)
ShowError ==
  /\ shown' = IF known THEN shown ELSE {}
  /\ data' = IF known THEN data ELSE NoData
  /\ told' = IF view = "documents" THEN DocumentListTells(shown')
             ELSE IF view \in Target THEN TargetTells(shown')
             ELSE OfDocuments => DocumentTaskTells(shown')
  /\ stale' = (shown' # {})
  /\ UNCHANGED known

ShowData(answer) ==
  /\ shown' = answer.items /\ data' = answer
  /\ told' = IF view = "tickets" THEN TicketListTells(answer)
             ELSE IF view = "documents" THEN DocumentListTells(shown')
             ELSE IF OfDocuments THEN DocumentTaskTells(shown') ELSE TicketTells(shown')
  /\ stale' = FALSE /\ known' = (known \/ due = "refetch")

Receive ==
  /\ due # "no" /\ \A s \in Asked : reply[s] # Waiting
  /\ IF AnswerFails THEN ShowError ELSE ShowData(Answer)
  /\ Over

(* The portal cannot be reached, or has lost the request.                   *)
RequestFails == due # "no" /\ ShowError /\ Over

(* Not from the cache.  A list of documents may be refreshed while it is    *)
(* being fetched: one request answers both.                                 *)
RefetchTasks ==
  /\ due = "no" /\ due' = "refetch" /\ seen' = {} /\ mute' = {}
  /\ UNCHANGED <<view, held, known, reply, shown, data, told, stale>>

-----------------------------------------------------------------------------
TaskPagesNext ==
  \/ \E items \in SUBSET About : Hold(items)
  \/ \E s \in System \cup Target : SystemReplies(s)
  \/ Receive \/ RequestFails \/ RefetchTasks

(* No task vanishes unsaid: once the request is over, the page shows what   *)
(* the systems held when they were asked, or has told an error; but a list  *)
(* of tickets is silent about a system whose error came as a normal answer, *)
(* about that system and no other; a page of documents that has tasks from  *)
(* before goes on showing them in silence, and the page of a document on    *)
(* its own never says that there is none.                                   *)
Visible == {i \in seen : Holder[i] \notin mute}

NothingVanishes ==
  due = "no" => (shown = Visible \/ told \/ (OfDocuments /\ stale) \/ view \in Target)

(* The inductive invariant behind NothingVanishes: while a request is on    *)
(* its way, what was there when the systems replied is what they gave,      *)
(* unless they failed, and the mute are those whose failure nobody sees; and*)
(* the errors of the answer a list of tickets shows have been told.         *)
SeenInv ==
  /\ \A s \in System \cup Target : Items(s) \subseteq {i \in seen : Holder[i] = s}
  /\ due # "no" => \A i \in seen :
       /\ reply[Holder[i]] # Waiting
       /\ reply[Holder[i]].kind = "items" => i \in Items(Holder[i])
  /\ due # "no" => \A s \in mute : reply[s].kind = "disguised"
  /\ view = "tickets" => \A s \in System : reply[s].kind = "disguised" => s \in mute
  /\ due = "no" => \A s \in System \cup Target : reply[s] = Waiting

TasksInv ==
  /\ TaskPagesTypeOK /\ NothingVanishes /\ SeenInv
  /\ \A s \in OSTicket : reply[s].kind # "late"
  /\ view = "tickets" /\ data.errors => told
=============================================================================

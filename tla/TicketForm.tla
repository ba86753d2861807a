------------------------------ MODULE TicketForm ------------------------------
(***************************************************************************)
(* The page that creates tickets (pages/tickets.tsx), above the commands   *)
(* of TicketCommand.  A person follows a link to a route or a service,     *)
(* fills in the form and sends it; the routes are refreshed meanwhile, and *)
(* the person may return to the list, and send another ticket, while the   *)
(* answer to the last one is on its way.  Apollo's useMutation keeps the   *)
(* state of the latest call only.                                          *)
(*                                                                         *)
(* One route stands for the routes of one ticket system: they come and go  *)
(* together, because a refresh leaves out the systems that failed.         *)
(***************************************************************************)
EXTENDS TicketCommand

CONSTANTS
  Service,         \* the services a ticket can be addressed to
  RouteOf,         \* the route, and system, of each service
  NoRoute, NoService, NoOrder

ASSUME FormAssumption ==
  /\ NoOrder \notin Order
  /\ "new" \in Kind
  /\ RouteOf \in [Service -> System]
  /\ NoRoute \notin System /\ NoService \notin Service

VARIABLES
  form,       \* what is filled in
  link,       \* the route and service the address stands for, if any
  routes,     \* the routes the page has been given
  submitted,  \* the form was sent and not left since
  latest,     \* useMutation: the last order sent
  created,    \* the ticket the page has been told of
  failed      \* useMutation: the last order ended with an error

pageVars == <<form, link, routes, submitted, latest, created, failed>>
vars     == <<commandVars, pageVars>>

ServicesOf(r) == {s \in Service : RouteOf[s] = r}
Routes        == {RouteOf[s] : s \in Service}

Choice == {c \in [route : System \cup {NoRoute}, service : Service \cup {NoService}] :
             c.service = NoService \/ RouteOf[c.service] = c.route}
Nothing == [route |-> NoRoute, service |-> NoService]

(* written: subject and body have their minimal lengths.                    *)
Form == [choice : Choice, written : BOOLEAN, files : SUBSET File]

TypeOK ==
  /\ CommandTypeOK
  /\ form \in Form /\ link \in Choice /\ routes \subseteq Routes
  /\ submitted \in BOOLEAN /\ failed \in BOOLEAN
  /\ latest \in Order \cup {NoOrder} /\ created \in Order \cup {NoOrder}

(* A favourite or a bookmark opens the page with an address of its own; one *)
(* without a service stands for the service named "other", if there is one. *)
Init ==
  /\ CommandInit
  /\ form = [choice |-> Nothing, written |-> FALSE, files |-> {}]
  /\ link \in Choice /\ routes = {}
  /\ submitted = FALSE /\ failed = FALSE
  /\ latest = NoOrder /\ created = NoOrder

-----------------------------------------------------------------------------
(* Filling in.  The list of routes and the form are two tabs; the form is   *)
(* the one with a route.  What it holds can be changed until it is sent.    *)

Editing == form.choice.route # NoRoute /\ ~submitted

Untouched == UNCHANGED <<commandVars, routes, latest, created, failed>>

(* A link of the list: the page's effect takes the choice from the address. *)
Follow(c) ==
  /\ form.choice = Nothing /\ c \in Choice /\ c.route \in routes
  /\ link' = c
  /\ form' = [form EXCEPT !.choice = c]
  /\ UNCHANGED submitted /\ Untouched

PickService(s) ==
  /\ Editing /\ s \in ServicesOf(form.choice.route)
  /\ form' = [form EXCEPT !.choice.service = s]
  /\ UNCHANGED <<link, submitted>> /\ Untouched

(* The text fields are disabled without a service, the files are not.       *)
Write(written) ==
  /\ Editing /\ form.choice.service # NoService
  /\ form' = [form EXCEPT !.written = written]
  /\ UNCHANGED <<link, submitted>> /\ Untouched

Attach(files) ==
  /\ Editing
  /\ form' = [form EXCEPT !.files = files]
  /\ UNCHANGED <<link, submitted>> /\ Untouched

(* A bug: the reset forgets the route only.                                 *)
Reset_RouteOnly ==
  /\ form' = [form EXCEPT !.choice.route = NoRoute, !.written = FALSE, !.files = {}]
  /\ link' = Nothing
  /\ submitted' = FALSE

(* handleResetTicket; without a body the text is too short.                 *)
Reset ==
  /\ form' = [form EXCEPT !.choice = Nothing, !.written = FALSE, !.files = {}]
  /\ link' = Nothing
  /\ submitted' = FALSE

(* Cancel, close, and the tab of the list.                                  *)
Leave == form.choice # Nothing /\ Reset /\ Untouched

(* The routes are read or published.  The effect chooses what the address   *)
(* says once more, or resets the form when the route is missing.            *)
RoutesArrive(r) ==
  /\ routes' = r
  /\ \/ /\ r = {} \/ link = Nothing
        /\ UNCHANGED <<form, link, submitted>>
     \/ /\ link.route \in r
        /\ form' = [form EXCEPT !.choice = link]
        /\ UNCHANGED <<link, submitted>>
     \/ /\ r # {} /\ link # Nothing /\ link.route \notin r
        /\ Reset
  /\ UNCHANGED <<commandVars, latest, created, failed>>

-----------------------------------------------------------------------------
(* Sending.                                                                 *)

MaySend == Editing /\ form.choice.service # NoService /\ form.written

NewTicket == [kind |-> "new", system |-> RouteOf[form.choice.service],
              files |-> form.files]

Submit(o) ==
  /\ MaySend /\ Issue(o, NewTicket)
  /\ latest' = o /\ created' = NoOrder /\ failed' = FALSE
  /\ submitted' = TRUE
  /\ UNCHANGED <<form, link, routes>>

(* The mutation is over, and the effects on its data and error have run.    *)
Learn(o) ==
  IF o = latest
  THEN /\ created' = IF told'[o] = "done" THEN o ELSE NoOrder
       /\ failed' = (told'[o] # "done")
  ELSE UNCHANGED <<created, failed>>

Hears(o) ==
  /\ Hear(o) \/ Cut(o)
  /\ Learn(o)
  /\ UNCHANGED <<form, link, routes, submitted, latest>>

-----------------------------------------------------------------------------
Choosing == \E c \in Choice : Follow(c)
Filling ==
  \/ \E s \in Service : PickService(s)
  \/ \E written \in BOOLEAN : Write(written)
  \/ \E files \in SUBSET File : Attach(files)

Portal ==
  /\ (\E o \in Order : HandlerStep(o)) \/ Restart
  /\ UNCHANGED pageVars

Next ==
  \/ Choosing \/ Filling \/ Leave
  \/ \E r \in SUBSET Routes : RoutesArrive(r)
  \/ \E o \in Order : Submit(o) \/ Hears(o)
  \/ Portal

Spec == Init /\ [][Next]_vars

-----------------------------------------------------------------------------
(* The page shows the card of a created ticket only when the ticket of the  *)
(* last submission exists, with all its files; no earlier answer, no lost   *)
(* or empty one, and no change of tabs or routes meanwhile makes it appear. *)
ShowsSuccess ==
  submitted /\ latest # NoOrder /\ told[latest] # "nothing" /\ ~failed

SuccessIsTrue ==
  ShowsSuccess => /\ created = latest /\ latest \in executed
                  /\ order[latest].read = order[latest].files
=============================================================================

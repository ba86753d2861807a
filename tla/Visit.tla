-------------------------------- MODULE Visit --------------------------------
(***************************************************************************)
(* Who a tab of the browser takes its visitor for.  The tabs of a browser  *)
(* share one session at the server; each has an Apollo cache of its own,   *)
(* whose `me` decides what the application bar shows and what the pages    *)
(* offer (ProfileProvider of pages/_app.tsx).  A full page load brings     *)
(* `me` along; after that only a login, a logout and the refetch after it  *)
(* change it, and an answer "Unauthorized" leads to the login page         *)
(* without clearing it (lib/init-apollo.ts).                               *)
(*                                                                         *)
(* Left out: the connection for subscriptions, which keeps the user it was *)
(* opened for, and the content of the pages.                               *)
(***************************************************************************)
EXTENDS Naturals, FiniteSets

CONSTANTS
  Visitor, Tab,
  Request,   \* bound: requests of the browser in progress
  Place,     \* the pages, without the login page
  FirstPage, \* FIRST_PAGE
  Allowed,   \* ALLOW_REDIRECT_PAGES
  Lost,      \* a page there is not
  Auth,      \* AUTH_PAGE
  None

ASSUME PageAssumption == /\ FirstPage \in Allowed /\ Allowed \subseteq Place
                         /\ {Lost, Auth, None} \cap Place = {} /\ Lost # Auth
ASSUME NobodyAssumption == None \notin Visitor \cup Tab

VARIABLES
  session,  \* who is signed in
  at,       \* the page of a tab
  back,     \* ?redirect= of its login page
  me,       \* the current user in its cache
  request,
  disturbed  \* history: tabs under which another one changed the session

visitVars == <<session, at, back, me, request, disturbed>>

Address == Place \cup {Lost, Auth}
Nobody == Visitor \cup {None}

Idle == [kind |-> "idle"]
Busy == [kind : {"page", "me", "login", "logout"}, tab : Tab \cup {None}, pc : {"sent", "served"},
         who : Nobody]   \* who is to be signed in, then who was answered

VisitTypeOK ==
  /\ session \in Nobody
  /\ at \in [Tab -> Address] /\ back \in [Tab -> Place \cup {None}]
  /\ me \in [Tab -> Nobody]
  /\ request \in [Request -> Busy \cup {Idle}]
  /\ disturbed \subseteq Tab

VisitInit ==
  /\ session = None
  /\ at = [t \in Tab |-> Auth] /\ back = [t \in Tab |-> FirstPage]
  /\ me = [t \in Tab |-> None]
  /\ request = [r \in Request |-> Idle] /\ disturbed = {}

Asks(r, t, kinds) == request[r].kind \in kinds /\ request[r].tab = t

GetRedirect(p) == IF p \in Allowed THEN p ELSE FirstPage

(* The answers to these come too late for tab t; what has not been served   *)
(* yet may still change the session.                                        *)
Without(t, kinds) ==
  [r \in Request |->
     IF ~Asks(r, t, kinds) THEN request[r]
     ELSE IF request[r].kind \in {"page", "me"} \/ request[r].pc = "served" THEN Idle
     ELSE [request[r] EXCEPT !.tab = None]]

-----------------------------------------------------------------------------
(* Pages.                                                                   *)

(* Only who is not blocked is found.                                        *)
FoundById(p) == {p, None}

(* The server asks itself for `me`, with the cookie of the browser; an error *)
(* is logged, and the page goes without it.                                 *)
Brought == IF session = None THEN {None} ELSE FoundById(session)

(* Where the server leads who asks for a page.  Who is signed in and opens  *)
(* the login page without ?redirect= is sent to a page named "undefined".   *)
Rendered(who, p, redirect) ==
  IF who = None THEN Auth
  ELSE IF p # Auth THEN p
  ELSE IF redirect = None THEN Lost ELSE redirect

(* The address is typed, or the page reloaded.                              *)
Load(t, p, redirect) ==
  /\ \E who \in Brought :
       /\ at' = [at EXCEPT ![t] = Rendered(who, p, redirect)]
       /\ me' = [me EXCEPT ![t] = who]
  /\ back' = [back EXCEPT ![t] = IF p = Auth THEN redirect ELSE GetRedirect(p)]
  /\ request' = Without(t, {"page", "me", "login", "logout"})
  /\ disturbed' = disturbed \ {t}
  /\ UNCHANGED session

(* A link, or the buttons of the browser: nothing is asked for it, and      *)
(* nothing is checked.  A login page that is left hears no answer.          *)
Go(t, p) ==
  /\ p # at[t] /\ at' = [at EXCEPT ![t] = p]
  /\ request' = Without(t, {"login"})
  /\ disturbed' = IF \E r \in Request : Asks(r, t, {"login"}) THEN disturbed \cup {t} ELSE disturbed
  /\ UNCHANGED <<session, back, me>>

ThrownOut(t) ==
  /\ at' = [at EXCEPT ![t] = Auth]
  /\ back' = [back EXCEPT ![t] = GetRedirect(at[t])]

-----------------------------------------------------------------------------
(* Requests.                                                                *)

(* Which of the free ones it is says nothing.                               *)
Send(t, kind, who) ==
  LET free == {r \in Request : request[r] = Idle}
  IN  /\ free # {}
      /\ request' = [request EXCEPT ![CHOOSE r \in free : TRUE] =
                       [kind |-> kind, tab |-> t, pc |-> "sent", who |-> who]]

(* A page asks for what it shows.                                           *)
Question(t) ==
  /\ at[t] # Auth /\ Send(t, "page", None)
  /\ UNCHANGED <<session, at, back, me, disturbed>>

(* The form is disabled while it is loading.                                *)
FormIsOpen(t) == at[t] = Auth /\ ~\E r \in Request : Asks(r, t, {"login"})

Login(t, p) ==
  /\ FormIsOpen(t)
  /\ Send(t, "login", p)
  /\ UNCHANGED <<session, at, back, me, disturbed>>

(* The bar, with its button, is only there for somebody.                    *)
BarIsShown(t) == at[t] # Auth /\ me[t] # None

Logout(t) ==
  /\ BarIsShown(t)
  /\ Send(t, "logout", None)
  /\ UNCHANGED <<session, at, back, me, disturbed>>

Answered(r, who) ==
  request' = [request EXCEPT ![r] =
                IF @.tab = None THEN Idle ELSE [@ EXCEPT !.pc = "served", !.who = who]]

(* Another tab, or a page that is gone, has changed the session.            *)
Change(r, who) ==
  /\ session' = who
  /\ disturbed' = IF session = who THEN disturbed ELSE disturbed \cup (Tab \ {request[r].tab})

(* The guards ask that somebody is signed in, whoever it is.                *)
Serve(r) ==
  /\ request[r].kind # "idle" /\ request[r].pc = "sent"
  /\ \/ /\ request[r].kind \in {"page", "me"}
        /\ Answered(r, session) /\ UNCHANGED <<session, disturbed>>
     \/ /\ request[r].kind = "login"
        /\ Answered(r, request[r].who) /\ Change(r, request[r].who)
     \/ /\ request[r].kind = "login"     \* a wrong password
        /\ Answered(r, None) /\ UNCHANGED <<session, disturbed>>
     \/ /\ request[r].kind = "logout"
        /\ Answered(r, session) /\ Change(r, None)
  /\ UNCHANGED <<at, back, me>>

Fails(r) ==
  /\ request[r].kind # "idle" /\ request[r].pc = "sent"
  /\ request' = [request EXCEPT ![r] = Idle]
  /\ UNCHANGED <<session, at, back, me, disturbed>>

Expire ==
  /\ session # None /\ session' = None
  /\ UNCHANGED <<at, back, me, request, disturbed>>

-----------------------------------------------------------------------------
(* Answers.                                                                 *)

Hears(r, kinds) ==
  request[r].kind \in kinds /\ request[r].pc = "served"

Heard(r) == request' = [request EXCEPT ![r] = Idle]

(* errorMiddleware: the login page, wherever the tab is by now.  A wrong    *)
(* password comes as the same error, and forgets the page to return to.     *)
HearUnauthorized(r) ==
  /\ Hears(r, {"page", "me", "login", "logout"}) /\ request[r].who = None
  /\ Heard(r) /\ ThrownOut(request[r].tab)
  /\ UNCHANGED <<session, me, disturbed>>

HearPage(r) ==
  /\ Hears(r, {"page"}) /\ request[r].who # None /\ Heard(r)
  /\ UNCHANGED <<session, at, back, me, disturbed>>

HearMe(r) ==
  /\ Hears(r, {"me"}) /\ request[r].who # None /\ Heard(r)
  /\ me' = [me EXCEPT ![request[r].tab] = request[r].who]
  /\ UNCHANGED <<session, at, back, disturbed>>

(* A login ends what others did to the tab; but an answer to `me` from      *)
(* before, after a logout, may still come, and is believed.                 *)
SettledBy(r) ==
  LET t == request[r].tab
  IN  disturbed' = IF \E q \in Request : Asks(q, t, {"me"}) THEN disturbed \cup {t}
                 ELSE IF session = request[r].who THEN disturbed \ {t} ELSE disturbed

(* A bug: the user in the cache is not replaced.                            *)
HearLogin_CacheKept(r) ==
  LET t == request[r].tab IN
  /\ Hears(r, {"login"}) /\ request[r].who # None /\ Heard(r)
  /\ me' = [me EXCEPT ![t] = IF @ = None THEN request[r].who ELSE @]
  /\ at' = [at EXCEPT ![t] = IF back[t] = None THEN FirstPage ELSE back[t]]
  /\ SettledBy(r)
  /\ UNCHANGED <<session, back>>

HearLogin(r) ==
  LET t == request[r].tab IN
  /\ Hears(r, {"login"}) /\ request[r].who # None /\ Heard(r)
  /\ me' = [me EXCEPT ![t] = request[r].who]
  /\ at' = [at EXCEPT ![t] = IF back[t] = None THEN FirstPage ELSE back[t]]
  /\ SettledBy(r)
  /\ UNCHANGED <<session, back>>

(* The cookie of the session is removed, which an answer on its way may set *)
(* again; the cache is emptied, and `me`, which the page still shows, asked *)
(* for anew: an older question for it counts no more.                       *)
HearLogout(r) ==
  LET t == request[r].tab IN
  /\ Hears(r, {"logout"}) /\ request[r].who # None
  /\ session' \in {session, None}
  /\ me' = [me EXCEPT ![t] = None]
  /\ ThrownOut(t)
  /\ request' = [q \in Request |->
                   IF q = r THEN [kind |-> "me", tab |-> t, pc |-> "sent", who |-> None]
                   ELSE IF Asks(q, t, {"me"}) THEN [request[q] EXCEPT !.kind = "page"]
                   ELSE request[q]]
  /\ UNCHANGED disturbed

-----------------------------------------------------------------------------
Visiting ==
  \E t \in Tab :
    \/ \E p \in Place : Load(t, p, None)
    \/ \E redirect \in Allowed \cup {None} : Load(t, Auth, redirect)
    \/ \E p \in Place \cup {Auth} : Go(t, p)
    \/ Question(t) \/ Logout(t) \/ \E p \in Visitor : Login(t, p)

Hearing ==
  \E r \in Request :
    \/ HearUnauthorized(r) \/ HearPage(r) \/ HearMe(r)
    \/ HearLogin(r) \/ HearLogout(r)

VisitNext ==
  \/ Visiting \/ Hearing \/ Expire
  \/ \E r \in Request : Serve(r) \/ Fails(r)

-----------------------------------------------------------------------------
(* A page does not show one person's name and menu while its requests are   *)
(* answered for another one.  Three things bring that about, until the next *)
(* full load: another tab, or a page that is gone, changed the session; a   *)
(* login page was left before its answer; and a login was answered while an *)
(* older question for `me` was open.                                        *)
WhoIsShown ==
  \A t \in Tab :
    (/\ t \notin disturbed /\ at[t] # Auth
     /\ ~\E r \in Request : Asks(r, t, {"login", "logout"}))
    => (me[t] = None \/ session = None \/ me[t] = session)

-----------------------------------------------------------------------------
(* The inductive invariant behind WhoIsShown.                               *)

(* A login or a logout that has changed the session, and whose answer the   *)
(* tab has not heard yet.                                                   *)
Unheard(t) ==
  \E r \in Request : Asks(r, t, {"login", "logout"}) /\ Hears(r, {"login", "logout"})
                     /\ request[r].who # None

Matches(who) == who = None \/ session = None \/ who = session

(* Who is shown, and who is about to be, is who is signed in, unless the    *)
(* tab is about to hear of a change it has made itself.                     *)
Fits(t) ==
  /\ ~Unheard(t) => Matches(me[t])
  /\ \A r \in Request : Asks(r, t, {"me"}) /\ Hears(r, {"me"}) /\ ~Unheard(t) =>
       Matches(request[r].who)
  /\ \A r \in Request : Asks(r, t, {"login"}) /\ Hears(r, {"login"}) =>
       Matches(request[r].who)

TabInv == \A t \in Tab \ disturbed : Fits(t)

RequestInv ==
  /\ \A r \in Request :
       /\ Hears(r, {"page", "me", "login", "logout"}) => request[r].tab \in Tab
       /\ request[r].kind = "login" /\ request[r].pc = "sent" => request[r].who # None
  /\ \A t \in Tab, r, q \in Request :
       Asks(r, t, {"login"}) /\ Asks(q, t, {"login"}) => r = q

VisitInv == VisitTypeOK /\ TabInv /\ RequestInv
=============================================================================

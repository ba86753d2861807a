---------------------------- MODULE RefreshCache ----------------------------
(***************************************************************************)
(* The "answer from the cache, refresh behind the user's back" functions   *)
(* of TicketsService and DocFlowService.                                   *)
(*                                                                         *)
(* A query that finds an answer in Redis returns it at once and starts a   *)
(* fetch nobody awaits; when the fetched answer differs from the one that  *)
(* was returned, it is published to the subscriptions and put in the       *)
(* cache.  A query that finds nothing fetches, fills the cache and         *)
(* returns.  Between a fetch's start and its end the sources change, the   *)
(* entry expires, and other requests finish: nothing orders two refreshes  *)
(* of one entry.                                                           *)
(*                                                                         *)
(* One module serves the six functions, which differ in four ways:         *)
(*   OwnKey    the entry belongs to one user (ticketsTasksCache,           *)
(*             docFlowTasksCache) or to everyone who may ask for the       *)
(*             object (the other four);                                    *)
(*   Collects  an answer is put together from several systems and says     *)
(*             which of them failed (ticketsRoutes, ticketsTasks); in the  *)
(*             others a failure of any part is thrown;                     *)
(*   Polls     a refresh that found no difference asks again in a minute   *)
(*             (ticketsTasksCache, ticketsTaskCache);                      *)
(*   Options   the flags of the query; the tickets functions know only     *)
(*             "cache".                                                    *)
(***************************************************************************)
EXTENDS Naturals, Sequences

CONSTANTS
  User,
  Request,    \* bound: requests and polling timers alive at one time
  Source,     \* the systems, or the parts of a document, an answer is made of
  Content,    \* what a source may contain
  OwnKey, Collects, Polls,
  Options,    \* the flags queries are sent with
  Failures,   \* TRUE: reading a source may fail
  MaxInbox,   \* bound: messages on their way to one user
  Everyone, NoAnswer, Failed, Unread

Flag  == {"yes", "no", "unset"}
Flags == [cache : Flag, setCache : Flag, websocket : Flag]

(* Whose data a query is about, and the entry it is cached under.           *)
Owner  == IF OwnKey THEN User ELSE {Everyone}
About(u) == IF OwnKey THEN u ELSE Everyone
Key(u)   == IF OwnKey THEN u ELSE Everyone

(* What an answer says of each source: its content, or that it failed.      *)
Parts  == [Source -> Content \cup {Failed}]
Answer == [of : Owner, part : Parts]

ASSUME OptionAssumption == Options \subseteq Flags
ASSUME SwitchAssumption == {OwnKey, Collects, Polls, Failures} \subseteq BOOLEAN
ASSUME MarkAssumption ==
  /\ Failed \notin Content /\ Unread \notin Content /\ Failed # Unread
  /\ NoAnswer \notin Answer
ASSUME InboxAssumption == MaxInbox \in Nat

VARIABLES
  source,   \* what the sources contain, for each owner of data
  cache,    \* the entries in Redis
  request,  \* queries in progress, refreshes and timers
  inbox,    \* publications on their way to a user's subscription
  shown,    \* what the user's page shows
  since     \* history: the contents of each source since a request's question

vars == <<source, cache, request, inbox, shown, since>>

Busy == [pc : {"refresh", "fetch", "timer"}, user : User, options : Options,
         client : BOOLEAN, cached : Answer \cup {NoAnswer},
         got : [Source -> Content \cup {Failed, Unread}]]
Idle == [pc |-> "idle"]

NothingRead == [s \in Source |-> Unread]
NoHistory   == [s \in Source |-> {}]

TypeOK ==
  /\ source \in [Owner -> [Source -> Content]]
  /\ cache \in [Owner -> Answer \cup {NoAnswer}]
  /\ request \in [Request -> Busy \cup {Idle}]
  /\ inbox \in [User -> Seq(Answer)]
  /\ shown \in [User -> Answer \cup {NoAnswer}]
  /\ since \in [Request -> [Source -> SUBSET Content]]

Init ==
  /\ source \in [Owner -> [Source -> Content]]
  /\ cache = [o \in Owner |-> NoAnswer]
  /\ request = [r \in Request |-> Idle]
  /\ inbox = [u \in User |-> <<>>]
  /\ shown = [u \in User |-> NoAnswer]
  /\ since = [r \in Request |-> NoHistory]

-----------------------------------------------------------------------------
(* The beginning of a call: look in the cache, unless told not to.          *)

(* The calls that do not collect errors look for none, and have none.       *)
HasErrors(a) == \E s \in Source : a.part[s] = Failed
Usable(a)    == a # NoAnswer /\ ~HasErrors(a)

(* A call for user u by a client, or by a timer with no client behind it.   *)
Started(r, u, o, client, pc, cached) ==
  /\ request' = [request EXCEPT ![r] =
       [pc |-> pc, user |-> u, options |-> o, client |-> client,
        cached |-> cached, got |-> NothingRead]]
  /\ since' = [since EXCEPT ![r] = [s \in Source |-> {source[About(u)][s]}]]

Hit(r, u, o, client) ==
  /\ o.cache # "no" /\ Usable(cache[Key(u)])
  /\ Started(r, u, o, client, "refresh", cache[Key(u)])
  /\ shown' = IF client THEN [shown EXCEPT ![u] = cache[Key(u)]] ELSE shown

Miss(r, u, o, client) ==
  /\ o.cache # "no" => ~Usable(cache[Key(u)])
  /\ Started(r, u, o, client, "fetch", NoAnswer)
  /\ UNCHANGED shown

Call(r, u, o, client) ==
  /\ Hit(r, u, o, client) \/ Miss(r, u, o, client)
  /\ UNCHANGED <<source, cache, inbox>>

Ask(u, r) ==
  /\ request[r].pc = "idle"
  /\ \E o \in Options : Call(r, u, o, TRUE)

Poll(r) ==
  /\ request[r].pc = "timer"
  /\ Call(r, request[r].user, request[r].options, FALSE)

-----------------------------------------------------------------------------
(* The fetch: every source is read at a time of its own.  The systems answer *)
(* in any order; the parts of a document are read one after the other, which *)
(* is one of the orders.                                                     *)

Fetching(r) == request[r].pc \in {"refresh", "fetch"}

MayRead(r, s) == Fetching(r) /\ request[r].got[s] = Unread

Read(r, s) ==
  /\ MayRead(r, s)
  /\ request' = [request EXCEPT ![r].got[s] = source[About(request[r].user)][s]]
  /\ UNCHANGED <<source, cache, inbox, shown, since>>

Stopped(r) == since' = [since EXCEPT ![r] = NoHistory]

(* A failing source is an entry of "errors", or ends the call: the client   *)
(* of a fetch gets the error, the error of a refresh is only logged.        *)
ReadFails(r, s) ==
  /\ Failures /\ MayRead(r, s)
  /\ \/ /\ Collects
        /\ request' = [request EXCEPT ![r].got[s] = Failed]
        /\ UNCHANGED since
     \/ /\ ~Collects
        /\ request' = [request EXCEPT ![r] = Idle]
        /\ Stopped(r)
  /\ UNCHANGED <<source, cache, inbox, shown>>

-----------------------------------------------------------------------------
(* The end of a fetch.                                                      *)

Fetched(r) ==
  /\ Fetching(r)
  /\ \A s \in Source : request[r].got[s] # Unread

Result(r) == [of |-> About(request[r].user), part |-> request[r].got]

(* A bug: the subscription to lists has lost its filter.                    *)
Receivers_Everybody(u) == User

(* Subscriptions to a user's lists get that user's payloads only; those to  *)
(* a document get every payload about it.                                   *)
Receivers(u) == IF OwnKey THEN {u} ELSE User

Publish(u, a) ==
  /\ \A v \in Receivers(u) : Len(inbox[v]) < MaxInbox
  /\ inbox' = [v \in User |-> IF v \in Receivers(u) THEN Append(inbox[v], a)
                                                    ELSE inbox[v]]

(* Bugs: the old answer stands in for a system that failed; a refresh       *)
(* stores the old answer.                                                   *)
Store_FillingIn(r) ==
  LET old  == request[r].cached
      gaps == [s \in Source |-> IF Result(r).part[s] = Failed /\ old # NoAnswer
                                THEN old.part[s] ELSE Result(r).part[s]]
      all  == [Result(r) EXCEPT !.part = gaps]
  IN cache' = IF request[r].options.setCache # "no" /\ ~HasErrors(all)
              THEN [cache EXCEPT ![Key(request[r].user)] = all]
              ELSE cache

Store_Old(r) ==
  cache' = IF request[r].options.setCache # "no"
           THEN [cache EXCEPT ![Key(request[r].user)] =
                   IF request[r].pc = "refresh" THEN request[r].cached ELSE Result(r)]
           ELSE cache

Store(r) ==
  cache' = IF request[r].options.setCache # "no" /\ ~HasErrors(Result(r))
           THEN [cache EXCEPT ![Key(request[r].user)] = Result(r)]
           ELSE cache

Ends(r, next) ==
  /\ request' = [request EXCEPT ![r] = next]
  /\ Stopped(r)

(* A bug: websocket is off unless asked for, as it is on a miss.            *)
RefreshFindsChange_OnlyAskedFor(r) ==
  /\ request[r].pc = "refresh" /\ Fetched(r)
  /\ Result(r) # request[r].cached
  /\ IF request[r].options.websocket = "yes"
     THEN Publish(request[r].user, Result(r)) ELSE UNCHANGED inbox
  /\ Store(r)
  /\ Ends(r, Idle)
  /\ UNCHANGED <<source, shown>>

RefreshFindsChange(r) ==
  /\ request[r].pc = "refresh" /\ Fetched(r)
  /\ Result(r) # request[r].cached
  /\ IF request[r].options.websocket # "no"
     THEN Publish(request[r].user, Result(r)) ELSE UNCHANGED inbox
  /\ Store(r)
  /\ Ends(r, Idle)
  /\ UNCHANGED <<source, shown>>

(* The timer remembers who asked and how.                                   *)
Timer(r) == [request[r] EXCEPT !.pc = "timer", !.client = FALSE,
                               !.cached = NoAnswer, !.got = NothingRead]

(* A bug: an unchanged answer is stored again, with a new TTL.              *)
RefreshFindsSame_Renews(r) ==
  /\ request[r].pc = "refresh" /\ Fetched(r)
  /\ Result(r) = request[r].cached
  /\ Store(r)
  /\ Ends(r, IF Polls THEN Timer(r) ELSE Idle)
  /\ UNCHANGED <<source, inbox, shown>>

RefreshFindsSame(r) ==
  /\ request[r].pc = "refresh" /\ Fetched(r)
  /\ Result(r) = request[r].cached
  /\ Ends(r, IF Polls THEN Timer(r) ELSE Idle)
  /\ UNCHANGED <<source, cache, inbox, shown>>

FetchEnds(r) ==
  /\ request[r].pc = "fetch" /\ Fetched(r)
  /\ IF request[r].options.websocket = "yes"
     THEN Publish(request[r].user, Result(r)) ELSE UNCHANGED inbox
  /\ Store(r)
  /\ shown' = IF request[r].client
              THEN [shown EXCEPT ![request[r].user] = Result(r)] ELSE shown
  /\ Ends(r, Idle)
  /\ UNCHANGED source

-----------------------------------------------------------------------------
(* What happens around the calls.                                           *)

Deliver(u) ==
  /\ inbox[u] # <<>>
  /\ shown' = [shown EXCEPT ![u] = Head(inbox[u])]
  /\ inbox' = [inbox EXCEPT ![u] = Tail(inbox[u])]
  /\ UNCHANGED <<source, cache, request, since>>

Expire(o) ==
  /\ cache[o] # NoAnswer
  /\ cache' = [cache EXCEPT ![o] = NoAnswer]
  /\ UNCHANGED <<source, request, inbox, shown, since>>

Change(o, s) ==
  \E c \in Content \ {source[o][s]} :
    /\ source' = [source EXCEPT ![o][s] = c]
    /\ since' = [r \in Request |->
         IF Fetching(r) /\ About(request[r].user) = o
         THEN [since[r] EXCEPT ![s] = @ \cup {c}] ELSE since[r]]
    /\ UNCHANGED <<cache, request, inbox, shown>>

Finish(r) == RefreshFindsChange(r) \/ RefreshFindsSame(r) \/ FetchEnds(r)

Next ==
  \/ \E u \in User, r \in Request : Ask(u, r)
  \/ \E r \in Request : Poll(r) \/ Finish(r)
  \/ \E r \in Request, s \in Source : Read(r, s) \/ ReadFails(r, s)
  \/ \E u \in User : Deliver(u)
  \/ \E o \in Owner : Expire(o)
  \/ \E o \in Owner, s \in Source : Change(o, s)

(* Calls to the sources are cut off by a timeout, timers fire, messages     *)
(* arrive, and an entry that is not renewed expires after its TTL.  Nobody  *)
(* has to ask and no source has to change.                                  *)
Fairness ==
  /\ \A r \in Request : WF_vars(Poll(r)) /\ WF_vars(Finish(r))
  /\ \A r \in Request, s \in Source : WF_vars(Read(r, s) \/ ReadFails(r, s))
  /\ \A u \in User : WF_vars(Deliver(u))
  /\ \A o \in Owner : WF_vars(Expire(o))

Spec == Init /\ [][Next]_vars /\ Fairness

-----------------------------------------------------------------------------
(* What is put in the cache was read by one call from beginning to end: for *)
(* every system something that system contained since the call's question,  *)
(* although each is read at a time of its own, fails on its own, and other  *)
(* calls fill and renew the same entry meanwhile.  In particular a system   *)
(* that fails while the others answer is never papered over, neither by its *)
(* error nor by what it said to an earlier call.                            *)
StoredIsFresh ==
  [][\A o \in Owner : cache'[o] \notin {cache[o], NoAnswer} =>
       \E r \in Request :
         /\ Fetched(r) /\ About(request[r].user) = o
         /\ \A s \in Source : cache'[o].part[s] \in since[r][s]]_vars

(* However requests of several users overlap, a page shows, and a           *)
(* subscription receives, only answers about the data its user asked for.   *)
OwnAnswers ==
  \A u \in User :
    /\ shown[u] # NoAnswer => shown[u].of = About(u)
    /\ \A i \in DOMAIN inbox[u] : inbox[u][i].of = About(u)

(* A client whose call ran to its end has been sent, as the last answer of  *)
(* that call, something each source really contained after the question:    *)
(* the stale answer given first is either still right or followed by a      *)
(* publication.  A call that asked for no publication is exempt.            *)
LastSent(r) ==
  IF request[r].pc = "fetch" THEN shown'[request[r].user].part
  ELSE IF inbox'[request[r].user] = inbox[request[r].user]
       THEN request[r].cached.part
       ELSE inbox'[request[r].user][Len(inbox'[request[r].user])].part

RefreshTells ==
  [][\A r \in Request :
       /\ Fetched(r) /\ request[r].client /\ request'[r] # request[r]
       /\ request[r].options.websocket # "no"
       => \A s \in Source : LastSent(r)[s] \in since[r][s] \cup {Failed}]_vars

(* Refreshes that finish in the wrong order can leave an old answer in the  *)
(* cache and on a page.  It does not stay: once the sources no longer       *)
(* change, a user who keeps asking ends up with what they contain.          *)
SourcesRest == <>[][UNCHANGED source]_vars
KeepsAsking(u) == []<><<\E r \in Request : Ask(u, r)>>_vars
Current(u) == shown[u] = [of |-> About(u), part |-> source[About(u)]]

PageConverges ==
  SourcesRest => \A u \in User : KeepsAsking(u) => <>[]Current(u)

(* Polling does not go on for ever by itself: when the clients stop asking, *)
(* the timers of ticketsTasksCache die out, because a refresh that finds    *)
(* no difference does not renew the entry.                                  *)
NobodyAsks == <>[][~\E u \in User, r \in Request : Ask(u, r)]_vars

PollingEnds ==
  NobodyAsks => <>[](\A r \in Request : request[r].pc = "idle")

=============================================================================

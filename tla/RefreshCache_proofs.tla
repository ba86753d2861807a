------------------------ MODULE RefreshCache_proofs ------------------------
(***************************************************************************)
(* What RefreshCache promises for every set of users, sources and flags,   *)
(* however many requests overlap.                                          *)
(*                                                                         *)
(* The properties are about the cache, the pages and the publications; a   *)
(* finishing refresh stores and publishes what it has kept since it began, *)
(* so the invariant also speaks of the requests: the answer a refresh was  *)
(* started from is one of its user's data and has no errors (RequestInv),  *)
(* and everything a fetch has read so far was in the source after the      *)
(* question (SinceInv).                                                    *)
(***************************************************************************)
EXTENDS RefreshCache, TLAPS

CacheInv ==
  \A o \in Owner : cache[o] # NoAnswer => cache[o].of = o /\ ~HasErrors(cache[o])

RequestInv ==
  \A r \in Request : request[r].pc = "refresh" =>
    /\ request[r].cached \in Answer
    /\ request[r].cached.of = About(request[r].user)
    /\ ~HasErrors(request[r].cached)

SinceInv ==
  \A r \in Request, s \in Source : Fetching(r) =>
    /\ source[About(request[r].user)][s] \in since[r][s]
    /\ request[r].got[s] \in Content => request[r].got[s] \in since[r][s]

CacheIInv == TypeOK /\ CacheInv /\ OwnAnswers /\ RequestInv /\ SinceInv

(* The entry of a user's data is the one it is cached under.                *)
LEMMA OwnerOfUser ==
  ASSUME NEW u \in User
  PROVE  About(u) \in Owner /\ Key(u) = About(u)
BY DEF About, Key, Owner

(* A request that is not idle has all the fields of a busy one.             *)
LEMMA BusyRequest ==
  ASSUME TypeOK, NEW r \in Request, request[r].pc # "idle"
  PROVE  /\ request[r] \in Busy
         /\ request[r].user \in User
         /\ About(request[r].user) \in Owner
         /\ request[r].got \in [Source -> Content \cup {Failed, Unread}]
<1>1. request[r] \in Busy
  BY DEF TypeOK, Idle
<1>2. request[r].user \in User
  BY <1>1 DEF Busy
<1> QED BY <1>1, <1>2, OwnerOfUser DEF Busy

(* What a completed fetch has read makes an answer about its user's data.   *)
LEMMA ResultIsAnswer ==
  ASSUME TypeOK, NEW r \in Request, Fetched(r)
  PROVE  /\ Result(r) \in Answer
         /\ Result(r).of = About(request[r].user)
         /\ Result(r).part = request[r].got
<1>1. request[r].pc # "idle"
  BY DEF Fetched, Fetching
<1>2. request[r].got \in [Source -> Content \cup {Failed}]
  BY <1>1, BusyRequest DEF Fetched
<1> QED BY <1>1, <1>2, BusyRequest DEF Result, Answer, Parts

(* Publishing adds one answer at the end of the queues of its receivers.    *)
LEMMA PublishAppends ==
  ASSUME TypeOK, OwnAnswers, NEW u \in User, NEW a \in Answer, a.of = About(u),
         Publish(u, a)
  PROVE  /\ inbox' \in [User -> Seq(Answer)]
         /\ \A v \in User : \A i \in DOMAIN inbox'[v] : inbox'[v][i].of = About(v)
         /\ inbox'[u] # inbox[u]
         /\ inbox'[u][Len(inbox'[u])] = a
<1>1. inbox \in [User -> Seq(Answer)]
  BY DEF TypeOK
<1>2. inbox' \in [User -> Seq(Answer)]
  BY <1>1 DEF Publish
<1>3. ASSUME NEW v \in User, NEW i \in DOMAIN inbox'[v]
      PROVE  inbox'[v][i].of = About(v)
  <2>0. inbox[v] \in Seq(Answer) /\ \A j \in DOMAIN inbox[v] : inbox[v][j].of = About(v)
    BY <1>1 DEF OwnAnswers
  <2>1. CASE v \in Receivers(u)
    <3>1. About(v) = About(u)
      BY <2>1 DEF Receivers, About
    <3>2. inbox'[v] = Append(inbox[v], a)
      BY <2>1 DEF Publish
    <3>3. i \in 1..(Len(inbox[v]) + 1)
      BY <3>2, <2>0
    <3>4. CASE i = Len(inbox[v]) + 1
      BY <3>4, <3>1, <3>2, <2>0
    <3>5. CASE i \in 1..Len(inbox[v])
      BY <3>5, <3>2, <2>0
    <3> QED BY <3>3, <3>4, <3>5, <2>0
  <2>2. CASE v \notin Receivers(u)
    BY <2>2, <2>0 DEF Publish
  <2> QED BY <2>1, <2>2
<1>4. inbox'[u] = Append(inbox[u], a)
  BY DEF Publish, Receivers
<1>5. inbox[u] \in Seq(Answer)
  BY <1>1
<1>6. Len(inbox'[u]) = Len(inbox[u]) + 1 /\ inbox'[u][Len(inbox'[u])] = a
  BY <1>4, <1>5
<1>7. inbox'[u] # inbox[u]
  BY <1>6, <1>5
<1> QED BY <1>2, <1>3, <1>6, <1>7

(* Storing an answer keeps the cache sound.                                 *)
LEMMA StoreIsSound ==
  ASSUME TypeOK, CacheInv, NEW r \in Request, Fetched(r), Store(r)
  PROVE  cache' \in [Owner -> Answer \cup {NoAnswer}] /\ CacheInv'
<1>1. /\ cache \in [Owner -> Answer \cup {NoAnswer}]
      /\ Result(r) \in Answer /\ Result(r).of = About(request[r].user)
  BY ResultIsAnswer DEF TypeOK
<1>2. /\ request[r].user \in User
      /\ Key(request[r].user) \in Owner
      /\ Key(request[r].user) = About(request[r].user)
  BY BusyRequest, OwnerOfUser DEF Fetched, Fetching
<1>3. cache' \in [Owner -> Answer \cup {NoAnswer}]
  BY <1>1, <1>2 DEF Store
<1>4. ASSUME NEW o \in Owner, cache'[o] # NoAnswer
      PROVE  cache'[o].of = o /\ ~HasErrors(cache'[o])
  <2>1. CASE cache'[o] = cache[o]
    BY <2>1, <1>4 DEF CacheInv
  <2>2. CASE cache'[o] # cache[o]
    <3>1. o = Key(request[r].user) /\ cache'[o] = Result(r) /\ ~HasErrors(Result(r))
      BY <2>2, <1>1, <1>2 DEF Store
    <3> QED BY <3>1, <1>1, <1>2
  <2> QED BY <2>1, <2>2
<1> QED BY <1>3, <1>4 DEF CacheInv, HasErrors

-----------------------------------------------------------------------------
(* A call starts a request whose history begins with its question.          *)
LEMMA CallKeeps ==
  ASSUME CacheIInv, NEW r \in Request, NEW u \in User, NEW o \in Options,
         NEW client \in BOOLEAN, Call(r, u, o, client)
  PROVE  CacheIInv'
<1>1. /\ TypeOK /\ CacheInv /\ OwnAnswers /\ RequestInv /\ SinceInv
      /\ About(u) \in Owner /\ Key(u) = About(u)
      /\ UNCHANGED <<source, cache, inbox>>
  BY OwnerOfUser DEF CacheIInv, Call
<1>2. PICK pc \in {"refresh", "fetch"}, cached \in Answer \cup {NoAnswer} :
        /\ Started(r, u, o, client, pc, cached)
        /\ pc = "refresh" => cached \in Answer /\ cached.of = About(u)
                               /\ ~HasErrors(cached)
        /\ shown' = shown \/ (shown' = [shown EXCEPT ![u] = cached]
                               /\ cached \in Answer /\ cached.of = About(u))
  <2>1. CASE Hit(r, u, o, client)
    <3>1. /\ cache[Key(u)] \in Answer \cup {NoAnswer} /\ cache[Key(u)] # NoAnswer
          /\ cache[Key(u)].of = About(u) /\ ~HasErrors(cache[Key(u)])
      BY <1>1, <2>1 DEF Hit, Usable, CacheInv, TypeOK
    <3> QED BY <3>1, <2>1 DEF Hit
  <2>2. CASE Miss(r, u, o, client)
    BY <2>2 DEF Miss
  <2> QED BY <2>1, <2>2 DEF Call
<1> DEFINE new == [pc |-> pc, user |-> u, options |-> o, client |-> client,
                   cached |-> cached, got |-> NothingRead]
<1>3. new \in Busy
  BY DEF Busy, NothingRead
<1>4. /\ new.pc = pc /\ new.user = u /\ new.cached = cached
      /\ \A s \in Source : new.got[s] = Unread
  BY DEF NothingRead
<1> HIDE DEF new
<1>5. /\ request' = [request EXCEPT ![r] = new]
      /\ since' = [since EXCEPT ![r] = [s \in Source |-> {source[About(u)][s]}]]
  <2>1. Started(r, u, o, client, pc, cached)
    BY <1>2
  <2> QED BY <2>1 DEF Started, new
<1>6. TypeOK'
  <2>1. request' \in [Request -> Busy \cup {Idle}]
    BY <1>1, <1>3, <1>5 DEF TypeOK
  <2>2. [s \in Source |-> {source[About(u)][s]}] \in [Source -> SUBSET Content]
    BY <1>1 DEF TypeOK
  <2>3. since' \in [Request -> [Source -> SUBSET Content]]
    BY <1>1, <1>5, <2>2 DEF TypeOK
  <2>4. shown' \in [User -> Answer \cup {NoAnswer}]
    BY <1>1, <1>2 DEF TypeOK
  <2> QED BY <1>1, <2>1, <2>3, <2>4 DEF TypeOK
<1>7. CacheInv'
  BY <1>1 DEF CacheInv, HasErrors
<1>8. OwnAnswers'
  BY <1>1, <1>2 DEF OwnAnswers, TypeOK
<1>9. RequestInv'
  BY <1>1, <1>2, <1>4, <1>5 DEF RequestInv, TypeOK, HasErrors
<1>10. SinceInv'
  BY <1>1, <1>4, <1>5, MarkAssumption DEF SinceInv, TypeOK, Fetching
<1> QED BY <1>6, <1>7, <1>8, <1>9, <1>10 DEF CacheIInv

(* A source is read while the history covers what it contains.              *)
LEMMA ReadKeeps ==
  ASSUME CacheIInv, NEW r \in Request, NEW s \in Source, Read(r, s) \/ ReadFails(r, s)
  PROVE  CacheIInv'
<1>1. /\ TypeOK /\ CacheInv /\ OwnAnswers /\ RequestInv /\ SinceInv
      /\ UNCHANGED <<source, cache, inbox, shown>> /\ Fetching(r)
  BY DEF CacheIInv, Read, ReadFails, MayRead
<1>2. /\ request[r] \in Busy /\ About(request[r].user) \in Owner
      /\ request[r].got \in [Source -> Content \cup {Failed, Unread}]
  BY <1>1, BusyRequest DEF Fetching
<1>3. CacheInv' /\ OwnAnswers'
  BY <1>1 DEF CacheInv, OwnAnswers, HasErrors
<1>4. CASE request' = [request EXCEPT ![r] = Idle] /\ Stopped(r)
  <2>1. TypeOK'
    BY <1>1, <1>4 DEF TypeOK, Stopped, NoHistory
  <2>2. RequestInv' /\ SinceInv'
    BY <1>1, <1>4 DEF RequestInv, SinceInv, TypeOK, Stopped, NoHistory, Idle,
                      Fetching, HasErrors
  <2> QED BY <1>3, <2>1, <2>2 DEF CacheIInv
<1>5. ASSUME NEW c, request' = [request EXCEPT ![r].got[s] = c], since' = since,
             c = Failed \/ c = source[About(request[r].user)][s]
      PROVE  CacheIInv'
  <2>1. c \in Content \cup {Failed}
    BY <1>1, <1>2, <1>5 DEF TypeOK
  <2> DEFINE new == [request[r] EXCEPT !.got[s] = c]
  <2>2. /\ new \in Busy /\ new.pc = request[r].pc /\ new.user = request[r].user
        /\ new.cached = request[r].cached
        /\ new.got = [request[r].got EXCEPT ![s] = c]
    BY <1>2, <2>1 DEF Busy
  <2>3. request' = [request EXCEPT ![r] = new]
    BY <1>5
  <2> HIDE DEF new
  <2>4. TypeOK'
    BY <1>1, <1>5, <2>2, <2>3 DEF TypeOK
  <2>5. RequestInv'
    BY <1>1, <2>2, <2>3 DEF RequestInv, TypeOK, HasErrors
  <2>6. SinceInv'
    <3> SUFFICES ASSUME NEW q \in Request, NEW x \in Source, Fetching(q)'
                 PROVE  /\ source[About(request'[q].user)][x] \in since[q][x]
                        /\ request'[q].got[x] \in Content
                             => request'[q].got[x] \in since[q][x]
      BY <1>1, <1>5 DEF SinceInv
    <3>1. CASE q # r
      BY <3>1, <1>1, <2>3 DEF SinceInv, Fetching, TypeOK
    <3>2. CASE q = r
      <4>1. request'[q] = new
        BY <3>2, <2>3, <1>1 DEF TypeOK
      <4>2. source[About(request[r].user)][x] \in since[r][x]
        BY <1>1 DEF SinceInv
      <4>3. CASE x = s
        BY <4>1, <4>2, <4>3, <3>2, <2>2, <1>2, <1>5, MarkAssumption
      <4>4. CASE x # s
        BY <4>1, <4>2, <4>4, <3>2, <2>2, <1>1, <1>2 DEF SinceInv
      <4> QED BY <4>3, <4>4
    <3> QED BY <3>1, <3>2
  <2> QED BY <1>3, <2>4, <2>5, <2>6 DEF CacheIInv
<1>6. CASE Read(r, s)
  BY <1>5, <1>6 DEF Read
<1>7. CASE ReadFails(r, s)
  BY <1>4, <1>5, <1>7 DEF ReadFails
<1> QED BY <1>6, <1>7

(* The end of a fetch stores, publishes and shows its user's answer.        *)
LEMMA FinishKeeps ==
  ASSUME CacheIInv, NEW r \in Request, Finish(r)
  PROVE  CacheIInv'
<1>1. /\ TypeOK /\ CacheInv /\ OwnAnswers /\ RequestInv /\ SinceInv
      /\ Fetched(r) /\ UNCHANGED source
  BY DEF CacheIInv, Finish, RefreshFindsChange, RefreshFindsSame, FetchEnds
<1>2. /\ Result(r) \in Answer /\ Result(r).of = About(request[r].user)
      /\ request[r] \in Busy /\ request[r].user \in User
  BY <1>1, ResultIsAnswer, BusyRequest DEF Fetched, Fetching
<1>3. PICK next \in Busy \cup {Idle} :
        next.pc \in {"idle", "timer"} /\ Ends(r, next)
  <2>1. /\ Timer(r) \in Busy /\ Timer(r).pc = "timer"
    BY <1>2 DEF Timer, Busy, NothingRead
  <2> QED BY <2>1 DEF Idle, Finish, RefreshFindsChange, RefreshFindsSame, FetchEnds
<1>4. cache' = cache \/ Store(r)
  BY DEF Finish, RefreshFindsChange, RefreshFindsSame, FetchEnds
<1>5. cache' \in [Owner -> Answer \cup {NoAnswer}] /\ CacheInv'
  BY <1>1, <1>4, StoreIsSound DEF TypeOK, CacheInv, HasErrors
<1>6. inbox' = inbox \/ Publish(request[r].user, Result(r))
  BY DEF Finish, RefreshFindsChange, RefreshFindsSame, FetchEnds
<1>7. /\ inbox' \in [User -> Seq(Answer)]
      /\ \A v \in User : \A i \in DOMAIN inbox'[v] : inbox'[v][i].of = About(v)
  BY <1>1, <1>2, <1>6, PublishAppends DEF TypeOK, OwnAnswers
<1>8. shown' = shown \/ shown' = [shown EXCEPT ![request[r].user] = Result(r)]
  BY DEF Finish, RefreshFindsChange, RefreshFindsSame, FetchEnds
<1>9. /\ shown' \in [User -> Answer \cup {NoAnswer}]
      /\ \A v \in User : shown'[v] # NoAnswer => shown'[v].of = About(v)
  BY <1>1, <1>2, <1>8 DEF TypeOK, OwnAnswers
<1>10. TypeOK'
  BY <1>1, <1>3, <1>5, <1>7, <1>9 DEF TypeOK, Ends, Stopped, NoHistory
<1>11. OwnAnswers'
  BY <1>7, <1>9 DEF OwnAnswers
<1>12. RequestInv'
  BY <1>1, <1>3 DEF RequestInv, TypeOK, Ends, HasErrors
<1>13. SinceInv'
  BY <1>1, <1>3 DEF SinceInv, TypeOK, Ends, Stopped, Fetching
<1> QED BY <1>5, <1>10, <1>11, <1>12, <1>13 DEF CacheIInv

(* The surroundings: delivery, expiry, and a change that enters the history *)
(* of every fetch under way.                                                *)
LEMMA SurroundingsKeep ==
  ASSUME CacheIInv,
         \/ \E u \in User : Deliver(u)
         \/ \E o \in Owner : Expire(o)
         \/ \E o \in Owner, s \in Source : Change(o, s)
  PROVE  CacheIInv'
<1>1. TypeOK /\ CacheInv /\ OwnAnswers /\ RequestInv /\ SinceInv
  BY DEF CacheIInv
<1>2. ASSUME NEW u \in User, Deliver(u) PROVE CacheIInv'
  <2>1. /\ inbox[u] \in Seq(Answer) /\ inbox[u] # <<>>
        /\ \A i \in DOMAIN inbox[u] : inbox[u][i].of = About(u)
    BY <1>1, <1>2 DEF TypeOK, OwnAnswers, Deliver
  <2>2. /\ Head(inbox[u]) \in Answer /\ Head(inbox[u]).of = About(u)
        /\ Tail(inbox[u]) \in Seq(Answer)
        /\ \A i \in DOMAIN Tail(inbox[u]) : Tail(inbox[u])[i].of = About(u)
    BY <2>1
  <2>3. TypeOK'
    BY <1>1, <1>2, <2>2 DEF TypeOK, Deliver
  <2>4. OwnAnswers'
    BY <1>1, <1>2, <2>2 DEF OwnAnswers, TypeOK, Deliver
  <2>5. CacheInv' /\ RequestInv' /\ SinceInv'
    BY <1>1, <1>2 DEF CacheInv, RequestInv, SinceInv, Deliver, HasErrors, Fetching
  <2> QED BY <2>3, <2>4, <2>5 DEF CacheIInv
<1>3. ASSUME NEW o \in Owner, Expire(o) PROVE CacheIInv'
  <2>1. TypeOK' /\ CacheInv'
    BY <1>1, <1>3 DEF TypeOK, CacheInv, Expire, HasErrors
  <2>2. OwnAnswers' /\ RequestInv' /\ SinceInv'
    BY <1>1, <1>3 DEF OwnAnswers, RequestInv, SinceInv, Expire, HasErrors, Fetching
  <2> QED BY <2>1, <2>2 DEF CacheIInv
<1>4. ASSUME NEW o \in Owner, NEW s \in Source, Change(o, s) PROVE CacheIInv'
  <2>1. PICK c \in Content :
          /\ source' = [source EXCEPT ![o][s] = c]
          /\ since' = [r \in Request |->
               IF Fetching(r) /\ About(request[r].user) = o
               THEN [since[r] EXCEPT ![s] = @ \cup {c}] ELSE since[r]]
          /\ UNCHANGED <<cache, request, inbox, shown>>
    BY <1>4 DEF Change
  <2>2. TypeOK'
    BY <1>1, <2>1 DEF TypeOK
  <2>3. CacheInv' /\ OwnAnswers' /\ RequestInv'
    BY <1>1, <2>1 DEF CacheInv, OwnAnswers, RequestInv, HasErrors
  <2>4. SinceInv'
    <3> SUFFICES ASSUME NEW r \in Request, NEW x \in Source, Fetching(r)
                 PROVE  /\ source'[About(request[r].user)][x] \in since'[r][x]
                        /\ request[r].got[x] \in Content
                             => request[r].got[x] \in since'[r][x]
      BY <2>1 DEF SinceInv, Fetching
    <3>1. /\ since[r][x] \subseteq since'[r][x]
          /\ (About(request[r].user) = o /\ x = s) => c \in since'[r][x]
      BY <1>1, <2>1 DEF TypeOK
    <3>2. \/ source'[About(request[r].user)][x] = source[About(request[r].user)][x]
          \/ /\ About(request[r].user) = o /\ x = s
             /\ source'[About(request[r].user)][x] = c
      <4>1. About(request[r].user) \in Owner
        BY <1>1, BusyRequest DEF Fetching
      <4> QED BY <4>1, <1>1, <2>1 DEF TypeOK
    <3> QED BY <3>1, <3>2, <1>1 DEF SinceInv
  <2> QED BY <2>2, <2>3, <2>4 DEF CacheIInv
<1> QED BY <1>2, <1>3, <1>4

-----------------------------------------------------------------------------
LEMMA InitCacheIInv == Init => CacheIInv
BY DEF Init, CacheIInv, TypeOK, CacheInv, OwnAnswers, RequestInv, SinceInv,
       Idle, NoHistory, Fetching

LEMMA NextKeepsCacheIInv == CacheIInv /\ [Next]_vars => CacheIInv'
<1> SUFFICES ASSUME CacheIInv, [Next]_vars PROVE CacheIInv'
  OBVIOUS
<1>1. ASSUME NEW u \in User, NEW r \in Request, Ask(u, r) PROVE CacheIInv'
  BY <1>1, CallKeeps DEF Ask
<1>2. ASSUME NEW r \in Request, Poll(r) PROVE CacheIInv'
  <2>1. request[r].user \in User /\ request[r].options \in Options
    BY <1>2, BusyRequest DEF CacheIInv, Poll, Busy
  <2> QED BY <1>2, <2>1, CallKeeps DEF Poll
<1>3. ASSUME NEW r \in Request, Finish(r) PROVE CacheIInv'
  BY <1>3, FinishKeeps
<1>4. ASSUME NEW r \in Request, NEW s \in Source, Read(r, s) \/ ReadFails(r, s)
      PROVE  CacheIInv'
  BY <1>4, ReadKeeps
<1>5. CASE UNCHANGED vars
  BY <1>5 DEF vars, CacheIInv, TypeOK, CacheInv, OwnAnswers, RequestInv, SinceInv,
              HasErrors, Fetching
<1> QED BY <1>1, <1>2, <1>3, <1>4, <1>5, SurroundingsKeep DEF Next

LEMMA CacheInvariant == Spec => []CacheIInv
BY InitCacheIInv, NextKeepsCacheIInv, PTL DEF Spec

(* The variables keep their types.                                          *)
THEOREM CacheTypes == Spec => []TypeOK
<1>1. CacheIInv => TypeOK
  BY DEF CacheIInv
<1> QED BY <1>1, CacheInvariant, PTL

(* Only the end of a fetch puts something new in the cache: its result.     *)
LEMMA StoreAtTheEnd ==
  ASSUME CacheIInv, Next, NEW o \in Owner, cache'[o] \notin {cache[o], NoAnswer}
  PROVE  \E r \in Request : Fetched(r) /\ Store(r)
<1>1. cache \in [Owner -> Answer \cup {NoAnswer}]
  BY DEF CacheIInv, TypeOK
<1>2. ~\E u \in User, r \in Request : Ask(u, r)
  BY DEF Ask, Call
<1>3. ~\E r \in Request : Poll(r)
  BY DEF Poll, Call
<1>4. ~\E r \in Request, s \in Source : Read(r, s) \/ ReadFails(r, s)
  BY DEF Read, ReadFails
<1>5. ~\E x \in Owner : Expire(x)
  BY <1>1 DEF Expire
<1>6. /\ ~\E u \in User : Deliver(u)
      /\ ~\E x \in Owner, s \in Source : Change(x, s)
  BY DEF Deliver, Change
<1>7. PICK r \in Request : Finish(r)
  BY <1>2, <1>3, <1>4, <1>5, <1>6 DEF Next
<1> QED BY <1>7 DEF Finish, RefreshFindsChange, RefreshFindsSame, FetchEnds

(* For any number of systems that fail one by one and any overlapping       *)
(* calls, what is put in the cache was read since the question of the call  *)
(* that puts it there.                                                      *)
THEOREM CacheStoresFresh == Spec => StoredIsFresh
<1>1. ASSUME CacheIInv, Next, NEW o \in Owner, cache'[o] \notin {cache[o], NoAnswer}
      PROVE  \E r \in Request :
               /\ Fetched(r) /\ About(request[r].user) = o
               /\ \A s \in Source : cache'[o].part[s] \in since[r][s]
  <2>1. PICK r \in Request : Fetched(r) /\ Store(r)
    BY <1>1, StoreAtTheEnd
  <2>2. TypeOK /\ SinceInv /\ cache \in [Owner -> Answer \cup {NoAnswer}]
    BY <1>1 DEF CacheIInv, TypeOK
  <2>3. /\ Result(r).part = request[r].got
        /\ request[r].got \in [Source -> Content \cup {Failed, Unread}]
        /\ Key(request[r].user) = About(request[r].user)
    BY <2>1, <2>2, ResultIsAnswer, BusyRequest, OwnerOfUser DEF Fetched, Fetching
  <2>4. /\ o = About(request[r].user) /\ cache'[o] = Result(r)
        /\ ~HasErrors(Result(r))
    BY <1>1, <2>1, <2>2, <2>3 DEF Store
  <2>5. ASSUME NEW s \in Source PROVE cache'[o].part[s] \in since[r][s]
    <3>1. request[r].got[s] \in Content
      BY <2>1, <2>3, <2>4 DEF Fetched, HasErrors
    <3> QED BY <3>1, <2>1, <2>2, <2>3, <2>4 DEF SinceInv, Fetched
  <2> QED BY <2>1, <2>4, <2>5
<1>2. CacheIInv /\ [Next]_vars =>
        [\A o \in Owner : cache'[o] \notin {cache[o], NoAnswer} =>
           \E r \in Request :
             /\ Fetched(r) /\ About(request[r].user) = o
             /\ \A s \in Source : cache'[o].part[s] \in since[r][s]]_vars
  BY <1>1 DEF vars
<1> QED BY <1>2, CacheInvariant, PTL DEF Spec, StoredIsFresh

(* For any number of users and overlapping calls, a user is shown and sent  *)
(* only answers about the data that user asked for.                         *)
THEOREM CacheOwnAnswers == Spec => []OwnAnswers
<1>1. CacheIInv => OwnAnswers
  BY DEF CacheIInv
<1> QED BY <1>1, CacheInvariant, PTL

(* The action of RefreshTells, for one request.                             *)
LEMMA FinishTells ==
  ASSUME CacheIInv, Next, NEW r \in Request, NEW s \in Source,
         Fetched(r), request[r].client, request'[r] # request[r],
         request[r].options.websocket # "no"
  PROVE  LastSent(r)[s] \in since[r][s] \cup {Failed}
<1>1. TypeOK /\ OwnAnswers /\ SinceInv
  BY DEF CacheIInv
<1>2. /\ Result(r) \in Answer /\ Result(r).of = About(request[r].user)
      /\ Result(r).part = request[r].got /\ request[r].user \in User
      /\ request[r].pc \in {"refresh", "fetch"}
      /\ request[r].got \in [Source -> Content \cup {Failed, Unread}]
  BY <1>1, ResultIsAnswer, BusyRequest DEF Fetched, Fetching
<1>3. request[r].got[s] \in since[r][s] \cup {Failed}
  BY <1>1, <1>2 DEF SinceInv, Fetched
<1>4. Finish(r)
  <2>1. \A q \in Request : q # r => ~Finish(q) /\ ~Poll(q)
    BY <1>1 DEF TypeOK, Finish, RefreshFindsChange, RefreshFindsSame, FetchEnds,
                Ends, Poll, Call, Hit, Miss, Started
  <2>2. ~Poll(r) /\ \A u \in User, q \in Request : ~Ask(u, q)
    BY <1>1, <1>2 DEF TypeOK, Poll, Ask, Call, Hit, Miss, Started
  <2>3. \A q \in Request, x \in Source : ~Read(q, x) /\ ~ReadFails(q, x)
    BY <1>1 DEF TypeOK, Read, ReadFails, MayRead, Fetched
  <2>4. /\ \A u \in User : ~Deliver(u)
        /\ \A o \in Owner : ~Expire(o)
        /\ \A o \in Owner, x \in Source : ~Change(o, x)
    BY DEF Deliver, Expire, Change
  <2> QED BY <2>1, <2>2, <2>3, <2>4 DEF Next
<1>5. CASE RefreshFindsChange(r)
  <2>1. Publish(request[r].user, Result(r)) /\ request[r].pc = "refresh"
    BY <1>5 DEF RefreshFindsChange
  <2>2. LastSent(r) = request[r].got
    BY <1>1, <1>2, <2>1, PublishAppends DEF LastSent
  <2> QED BY <1>3, <2>2
<1>6. CASE RefreshFindsSame(r)
  <2>1. LastSent(r) = Result(r).part
    BY <1>6 DEF RefreshFindsSame, LastSent
  <2> QED BY <1>2, <1>3, <2>1
<1>7. CASE FetchEnds(r)
  <2>1. shown'[request[r].user] = Result(r) /\ request[r].pc = "fetch"
    BY <1>1, <1>2, <1>7 DEF FetchEnds, TypeOK
  <2>2. LastSent(r) = request[r].got
    BY <1>2, <2>1 DEF LastSent
  <2> QED BY <1>3, <2>2
<1> QED BY <1>4, <1>5, <1>6, <1>7 DEF Finish

(* For every set of sources, flags and overlapping calls, the last answer a *)
(* client is sent by a completed call is one the sources really gave after  *)
(* the question.                                                            *)
THEOREM CacheTells == Spec => RefreshTells
<1>1. CacheIInv /\ [Next]_vars =>
        [\A r \in Request :
           /\ Fetched(r) /\ request[r].client /\ request'[r] # request[r]
           /\ request[r].options.websocket # "no"
           => \A s \in Source : LastSent(r)[s] \in since[r][s] \cup {Failed}]_vars
  BY FinishTells DEF vars
<1> QED BY <1>1, CacheInvariant, PTL DEF Spec, RefreshTells
=============================================================================

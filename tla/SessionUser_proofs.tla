------------------------- MODULE SessionUser_proofs -------------------------
(***************************************************************************)
(* Proofs about SessionUser: the types, and that a person who does one     *)
(* thing at a time keeps the language that was chosen (LanguageKept), for  *)
(* any people, sessions, requests, failures and changes in the directory.  *)
(***************************************************************************)
EXTENDS SessionUser, SequenceTheorems, TLAPS

-----------------------------------------------------------------------------
(* Lists of favourites.                                                     *)

LEMMA ListShape ==
  ASSUME NEW list \in List
  PROVE  /\ Len(list) \in 0..MaxFavorites
         /\ list \in [1..Len(list) -> Favorite]
<1>1. PICK n \in 0..MaxFavorites : list \in [1..n -> Favorite]
  BY DEF List
<1>2. list \in Seq(Favorite) /\ Len(list) = n
  BY <1>1, BoundAssumption
<1> QED
  BY <1>1, <1>2

LEMMA ListOf ==
  ASSUME NEW n \in 0..MaxFavorites, NEW f \in [1..n -> Favorite]
  PROVE  f \in List
BY DEF List

(* What the page sends is a list, and what the merge makes of it is one.    *)
LEMMA AddedList ==
  ASSUME NEW list \in List, NEW new \in Added(list)
  PROVE  new \in List
<1>1. PICK f \in Favorite : new = Append(list, f) /\ Len(list) < MaxFavorites
  BY DEF Added
<1>2. Len(list) \in 0..MaxFavorites /\ list \in [1..Len(list) -> Favorite]
  BY ListShape
<1>3. new \in [1..(Len(list) + 1) -> Favorite]
  <2>1. list \in Seq(Favorite)
    BY <1>2
  <2>2. new \in Seq(Favorite) /\ Len(new) = Len(list) + 1
    BY <1>1, <2>1, AppendProperties
  <2> QED
    BY <2>2, LenProperties
<1>4. Len(list) + 1 \in 0..MaxFavorites
  BY <1>1, <1>2, BoundAssumption
<1> QED
  BY <1>3, <1>4, ListOf

LEMMA RemovedList ==
  ASSUME NEW list \in List, NEW new \in Removed(list)
  PROVE  new \in List
<1>1. PICK i \in 1..Len(list) :
        new = [j \in 1..(Len(list) - 1) |-> IF j < i THEN list[j] ELSE list[j + 1]]
  BY DEF Removed
<1>2. Len(list) \in 0..MaxFavorites /\ list \in [1..Len(list) -> Favorite]
  BY ListShape
<1>3. new \in [1..(Len(list) - 1) -> Favorite]
  BY <1>1, <1>2, BoundAssumption
<1>4. Len(list) - 1 \in 0..MaxFavorites
  BY <1>1, <1>2, BoundAssumption
<1> QED
  BY <1>3, <1>4, ListOf

LEMMA MovedList ==
  ASSUME NEW list \in List, NEW new \in Moved(list)
  PROVE  new \in List
<1>1. PICK i \in 1..(Len(list) - 1) :
        new = [list EXCEPT ![i] = list[i + 1], ![i + 1] = list[i]]
  BY DEF Moved
<1>2. Len(list) \in 0..MaxFavorites /\ list \in [1..Len(list) -> Favorite]
  BY ListShape
<1>3. new \in [1..Len(list) -> Favorite]
  BY <1>1, <1>2, BoundAssumption
<1> QED
  BY <1>2, <1>3, ListOf

LEMMA FilledList ==
  ASSUME NEW list \in List, NEW old \in List
  PROVE  Filled(list, old) \in List
<1>1. Len(list) \in 0..MaxFavorites /\ list \in [1..Len(list) -> Favorite]
  BY ListShape
<1>2. Len(old) \in 0..MaxFavorites /\ old \in [1..Len(old) -> Favorite]
  BY ListShape
<1> DEFINE n == IF Len(list) > Len(old) THEN Len(list) ELSE Len(old)
<1>3. n \in 0..MaxFavorites
  BY <1>1, <1>2
<1>4. Filled(list, old) \in [1..n -> Favorite]
  BY <1>1, <1>2, BoundAssumption DEF Filled
<1> QED
  BY <1>3, <1>4, ListOf

LEMMA DefaultSettings == defaultUserSettings \in Settings
<1>1. <<>> \in [1..0 -> Favorite]
  OBVIOUS
<1>2. 0 \in 0..MaxFavorites
  BY BoundAssumption
<1>3. <<>> \in List
  BY <1>1, <1>2 DEF List
<1> QED
  BY <1>3, LanguageAssumption DEF defaultUserSettings, Settings

-----------------------------------------------------------------------------
(* Types.                                                                   *)

LEMMA ImportedBusy ==
  ASSUME TypeOK, NEW u \in Person, NEW s \in Session \cup {None}
  PROVE  Imported(u, s) \in Busy
BY DefaultSettings DEF Imported, Busy, TypeOK

LEMMA CrossTypes ==
  ASSUME TypeOK, NEW u \in Person, Cross(u)
  PROVE  crossed' \in SUBSET Person /\ chosen' \in [Person -> Settings]
BY DefaultSettings DEF Cross, TypeOK

LEMMA BeginTypes ==
  ASSUME TypeOK, NEW t \in Task, NEW u \in Person, NEW s, NEW busy \in Busy,
         Begin(t, u, s, busy)
  PROVE  TypeOK'
<1>1. crossed' \in SUBSET Person /\ chosen' \in [Person -> Settings]
  BY CrossTypes DEF Begin, history, TypeOK
<1>2. task' \in [Task -> Busy \cup Judging \cup {Idle}]
  BY DEF Begin, Goto, TypeOK
<1> QED
  BY <1>1, <1>2 DEF Begin, stored, TypeOK

LEMMA TaskTypes ==
  ASSUME TypeOK, NEW t \in Task, task[t].pc \in {"find", "import", "settings", "answer"}
  PROVE  task[t] \in Busy
BY DEF TypeOK, Idle, Judging

(* A synchronization goes on without a copy of the row, about nobody.       *)
LEMMA JudgeTypes ==
  ASSUME NEW disabled \in BOOLEAN
  PROVE  /\ Judge(disabled) \in Judging
         /\ Judge(disabled).about = None /\ Judge(disabled).pc = "block"
BY DEF Judge, Judging

LEMMA JudgingTypes ==
  ASSUME NEW x \in Judging
  PROVE  /\ [x EXCEPT !.pc = "update"] \in Judging
         /\ x.about = None /\ x \notin Busy /\ x.pc \in {"block", "update"}
         /\ x.disabled \in BOOLEAN
BY DEF Judging, Busy

(* A person's copy with other settings is that person's copy.               *)
LEMMA CopyTypes ==
  ASSUME NEW c \in User, NEW settings \in Settings, NEW flag \in BOOLEAN
  PROVE  /\ [c EXCEPT !.settings = settings] \in User
         /\ [c EXCEPT !.settings = settings].of = c.of
         /\ [c EXCEPT !.settings = settings].settings = settings
         /\ [c EXCEPT !.disabled = flag] \in User
         /\ [c EXCEPT !.disabled = flag].of = c.of
         /\ [c EXCEPT !.disabled = flag].settings = c.settings
         /\ [c EXCEPT !.disabled = flag].disabled = flag
BY DEF User

LEMMA AskedTypes ==
  ASSUME NEW u, NEW settings \in Settings
  PROVE  Asked(u, settings) \in Settings
BY DefaultSettings DEF Asked

(* The task that Change begins.                                             *)
Changing(s, settings, asked) ==
  [pc |-> "settings", about |-> session[s].of, session |-> s,
   disabled |-> FALSE, mine |-> [session[s] EXCEPT !.settings = settings],
   asked |-> Asked(session[s].of, asked)]

LEMMA ChangeBusy ==
  ASSUME TypeOK, NEW s \in Session, session[s] # None,
         NEW settings \in Settings, NEW asked \in Settings
  PROVE  Changing(s, settings, asked) \in Busy
<1>1. session[s] \in User /\ session[s].of \in Person
  BY DEF TypeOK, User
<1>2. [session[s] EXCEPT !.settings = settings] \in User
  BY <1>1, CopyTypes
<1> QED
  BY <1>1, <1>2, AskedTypes DEF Changing, Busy

(* The changes a page asks for are changes to settings.                     *)
LEMMA ChosenLanguage ==
  ASSUME NEW old \in Settings, NEW l \in Language
  PROVE  /\ [old EXCEPT !.lng = l] \in Settings
         /\ [old EXCEPT !.lng = l].lng = l
BY DEF Settings

LEMMA ChosenFavorites ==
  ASSUME NEW old \in Settings, NEW list \in List
  PROVE  /\ [old EXCEPT !.favorites = list] \in Settings
         /\ [old EXCEPT !.favorites = list].lng = old.lng
BY DEF Settings

(* Whatever is chosen: a change begins with settings to save and settings   *)
(* asked for, which agree on the language if the copy agreed with the last  *)
(* choice.                                                                  *)
LEMMA Choices ==
  ASSUME TypeOK, NEW q \in Request, NEW s \in Session,
         ChooseLanguage(q, s) \/ ChooseFavorites(q, s)
  PROVE  /\ session[s] # None
         /\ \E settings, asked \in Settings :
              /\ Begin(q, session[s].of, s, Changing(s, settings, asked))
              /\ session[s].settings.lng = chosen[session[s].of].lng
                   => settings.lng = asked.lng
<1>1. session[s] # None
  BY DEF ChooseLanguage, ChooseFavorites
<1>2. /\ session[s].of \in Person /\ session[s].settings \in Settings
      /\ session[s].settings.favorites \in List
      /\ chosen[session[s].of] \in Settings
  BY <1>1 DEF TypeOK, User, Settings
<1>3. CASE ChooseLanguage(q, s)
  <2>1. PICK l \in Language :
          Change(q, s, [session[s].settings EXCEPT !.lng = l],
                       [chosen[session[s].of] EXCEPT !.lng = l])
    BY <1>3 DEF ChooseLanguage
  <2> DEFINE settings == [session[s].settings EXCEPT !.lng = l]
             asked == [chosen[session[s].of] EXCEPT !.lng = l]
  <2>2. settings \in Settings /\ asked \in Settings /\ settings.lng = asked.lng
    BY <1>2, ChosenLanguage
  <2>3. Begin(q, session[s].of, s, Changing(s, settings, asked))
    BY <2>1 DEF Change, Changing
  <2> QED
    BY <1>1, <2>2, <2>3
<1>4. CASE ChooseFavorites(q, s)
  <2> DEFINE shown == session[s].settings.favorites
  <2>1. PICK list \in Added(shown) \cup Removed(shown) \cup Moved(shown) :
          Change(q, s, [session[s].settings EXCEPT !.favorites = Filled(list, shown)],
                       [chosen[session[s].of] EXCEPT !.favorites = list])
    BY <1>4 DEF ChooseFavorites
  <2>2. list \in List
    BY <1>2, AddedList, RemovedList, MovedList
  <2> DEFINE settings == [session[s].settings EXCEPT !.favorites = Filled(list, shown)]
             asked == [chosen[session[s].of] EXCEPT !.favorites = list]
  <2>3. Filled(list, shown) \in List
    BY <1>2, <2>2, FilledList
  <2>4. /\ settings \in Settings /\ settings.lng = session[s].settings.lng
        /\ asked \in Settings /\ asked.lng = chosen[session[s].of].lng
    BY <1>2, <2>2, <2>3, ChosenFavorites
  <2>5. Begin(q, session[s].of, s, Changing(s, settings, asked))
    BY <2>1 DEF Change, Changing
  <2> QED
    BY <1>1, <2>4, <2>5
<1> QED
  BY <1>3, <1>4

-----------------------------------------------------------------------------
(* Every step keeps the types; that a task holds what it is going to store  *)
(* is WorkInv.                                                              *)

LEMMA SavedTypes ==
  ASSUME TypeOK, WorkInv, NEW t \in Task, At(t, "import")
  PROVE  /\ Saved(t) \in User /\ Saved(t).of = task[t].about
         /\ Saved(t).settings = task[t].mine.settings
<1>1. task[t] \in Busy
  BY TaskTypes DEF At
<1>2. task[t].mine \in User /\ task[t].disabled \in BOOLEAN
  BY <1>1 DEF WorkInv, At, Busy
<1>3. task[t].mine.of = task[t].about
  BY <1>1, <1>2 DEF WorkInv, At, Busy, Idle
<1> QED
  BY <1>2, <1>3 DEF Saved, User

LEMMA ImportTypes ==
  ASSUME TypeOK, WorkInv, NEW t \in Task, ImportStep(t)
  PROVE  TypeOK'
<1>1. task[t] \in Busy
  BY TaskTypes DEF ImportStep, FindUser, ImportUser, ImportFails, At
<1>2. CASE FindUser(t)
  <2>1. replica[task[t].about] \in User /\ task[t].about \in Person
    BY <1>1 DEF TypeOK, Busy
  <2>2. [task[t] EXCEPT !.pc = "import", !.mine = replica[task[t].about]] \in Busy
    BY <1>1, <2>1 DEF Busy
  <2>3. task' \in [Task -> Busy \cup Judging \cup {Idle}]
    BY <1>2, <2>2 DEF FindUser, Goto, TypeOK
  <2>4. crossed' \in SUBSET Person /\ chosen' \in [Person -> Settings]
    BY <1>2, <2>1, CrossTypes DEF FindUser, history, TypeOK
  <2> QED
    BY <1>2, <2>3, <2>4 DEF FindUser, stored, TypeOK
<1>3. CASE ImportUser(t)
  <2>1. Saved(t) \in User
    BY <1>3, SavedTypes DEF ImportUser
  <2>2. row' \in [Person -> User]
    BY <1>3, <2>1 DEF ImportUser, TypeOK
  <2>3. [task[t] EXCEPT !.pc = "answer", !.mine = Saved(t), !.disabled = FALSE] \in Busy
    BY <1>1, <2>1 DEF Busy
  <2>4. task' \in [Task -> Busy \cup Judging \cup {Idle}]
    BY <1>3, <2>3, JudgeTypes DEF ImportUser, Goto, TypeOK
  <2> QED
    BY <1>3, <2>2, <2>4 DEF ImportUser, history, TypeOK
<1>4. CASE ImportFails(t)
  BY <1>4, JudgeTypes DEF ImportFails, Goto, stored, history, TypeOK
<1> QED
  BY <1>2, <1>3, <1>4 DEF ImportStep

(* The synchronization's updates, and the replica.                          *)
UpdateStep(u) == FindEnabled(u) \/ UpdateUser(u)

LEMMA JudgingNow ==
  ASSUME TypeOK, NEW u \in Person, UpdateStep(u)
  PROVE  u \in Task /\ task[u] \in Judging
BY DEF UpdateStep, FindEnabled, UpdateUser, At, TypeOK, Task, Idle, Busy

LEMMA UpdateTypes ==
  ASSUME TypeOK, NEW u \in Person, UpdateStep(u)
  PROVE  TypeOK'
<1>1. u \in Task /\ task[u] \in Judging
  BY JudgingNow
<1>2. CASE FindEnabled(u)
  BY <1>1, <1>2, JudgingTypes DEF FindEnabled, Goto, stored, history, TypeOK
<1>3. CASE UpdateUser(u)
  <2> DEFINE flag == task[u].disabled
  <2>0. flag \in BOOLEAN /\ row[u] \in User
    BY <1>1, JudgingTypes DEF TypeOK
  <2> HIDE DEF flag
  <2>1. [row[u] EXCEPT !.disabled = flag] \in User
    BY <2>0 DEF User
  <2>2. row' \in [Person -> User]
    BY <1>3, <2>1 DEF UpdateUser, TypeOK, flag
  <2>3. task' \in [Task -> Busy \cup Judging \cup {Idle}]
    BY <1>1, <1>3 DEF UpdateUser, Goto, TypeOK
  <2> QED
    BY <1>3, <2>2, <2>3 DEF UpdateUser, history, TypeOK
<1> QED
  BY <1>2, <1>3 DEF UpdateStep

LEMMA ReplicateTypes ==
  ASSUME TypeOK, NEW u \in Person, Replicate(u)
  PROVE  TypeOK'
<1>1. replica' \in [Person -> User]
  BY DEF Replicate, TypeOK
<1> QED
  BY <1>1 DEF Replicate, history, TypeOK

(* The task after its settings were saved, or were not.                     *)
Answering(q) == [task[q] EXCEPT !.pc = "answer", !.asked = defaultUserSettings]

LEMMA AnsweringBusy ==
  ASSUME TypeOK, NEW q \in Task, At(q, "settings")
  PROVE  Answering(q) \in Busy
BY TaskTypes, DefaultSettings DEF Answering, Busy, At

LEMMA RequestTypes ==
  ASSUME TypeOK, WorkInv, NEW q \in Request, RequestStep(q)
  PROVE  TypeOK'
<1>0. q \in Task
  BY DEF Task
<1>1. CASE ImportStep(q)
  BY <1>0, <1>1, ImportTypes
<1>2. CASE SaveSettings(q)
  <2>1. task[q] \in Busy
    BY <1>0, <1>2, TaskTypes DEF SaveSettings, At
  <2>2. task[q].mine \in User /\ task[q].about \in Person
    BY <1>0, <1>2, <2>1 DEF SaveSettings, WorkInv, Busy
  <2>3. row' \in [Person -> User]
    BY <1>2, <2>2 DEF SaveSettings, TypeOK
  <2>4. Asked(task[q].about, task[q].asked) \in Settings
    BY <2>1, AskedTypes DEF Busy
  <2>5. chosen' \in [Person -> Settings]
    BY <1>2, <2>2, <2>4 DEF SaveSettings, TypeOK
  <2>6. Answering(q) \in Busy
    BY <1>0, <1>2, AnsweringBusy DEF SaveSettings, At
  <2>7. task' \in [Task -> Busy \cup Judging \cup {Idle}]
    BY <1>0, <1>2, <2>6 DEF SaveSettings, Goto, Answering, TypeOK
  <2> QED
    BY <1>2, <2>3, <2>5, <2>7 DEF SaveSettings, TypeOK
<1>3. CASE SettingsFail(q)
  <2>1. task[q] \in Busy
    BY <1>0, <1>3, TaskTypes DEF SettingsFail, At
  <2>2. crossed' \in SUBSET Person /\ chosen' \in [Person -> Settings]
    BY <1>3, <2>1, CrossTypes DEF SettingsFail, Busy
  <2>3. Answering(q) \in Busy
    BY <1>0, <1>3, AnsweringBusy DEF SettingsFail, At
  <2>4. task' \in [Task -> Busy \cup Judging \cup {Idle}]
    BY <1>0, <1>3, <2>3 DEF SettingsFail, Goto, Answering, TypeOK
  <2> QED
    BY <1>3, <2>2, <2>4 DEF SettingsFail, stored, TypeOK
<1>4. CASE Answer(q)
  <2>1. task[q] \in Busy
    BY <1>0, <1>4, TaskTypes DEF Answer, At
  <2>2. session' \in [Session -> User \cup {None}]
    BY <1>4, <2>1 DEF Answer, TypeOK, Busy
  <2>3. task' \in [Task -> Busy \cup Judging \cup {Idle}]
    BY <1>4 DEF Answer, Goto, TypeOK
  <2> QED
    BY <1>4, <2>2, <2>3 DEF Answer, history, TypeOK
<1> QED
  BY <1>1, <1>2, <1>3, <1>4 DEF RequestStep

LEMMA StepTypes ==
  ASSUME TypeOK, WorkInv, [Next]_vars
  PROVE  TypeOK'
<1>1. CASE \E q \in Request, s \in Session, u \in Person : Login(q, s, u)
  BY <1>1, ImportedBusy, BeginTypes DEF Login, Task
<1>2. ASSUME NEW q \in Request, NEW s \in Session,
             ChooseLanguage(q, s) \/ ChooseFavorites(q, s)
      PROVE  TypeOK'
  <2>1. session[s] # None
    BY <1>2, Choices
  <2>2. PICK settings \in Settings, asked \in Settings :
          Begin(q, session[s].of, s, Changing(s, settings, asked))
    BY <1>2, Choices
  <2>3. Changing(s, settings, asked) \in Busy /\ session[s].of \in Person
    BY <2>1, ChangeBusy DEF TypeOK, User
  <2> QED
    BY <2>2, <2>3, BeginTypes DEF Task
<1>3. ASSUME NEW q \in Request, NEW s \in Session, Logout(q, s)
      PROVE  TypeOK'
  <2>1. session[s].of \in Person
    BY <1>3 DEF Logout, TypeOK, User
  <2> DEFINE busy == [pc |-> "answer", about |-> session[s].of, session |-> s,
                      disabled |-> FALSE, mine |-> None, asked |-> defaultUserSettings]
  <2>2. busy \in Busy
    BY <2>1, DefaultSettings DEF Busy
  <2>3. Begin(q, session[s].of, s, busy)
    BY <1>3 DEF Logout
  <2> HIDE DEF busy
  <2> QED
    BY <2>1, <2>2, <2>3, BeginTypes DEF Task
<1>4. CASE \E q \in Request : RequestStep(q)
  BY <1>4, RequestTypes
<1>5. ASSUME NEW u \in Person, Synchronize(u)
      PROVE  TypeOK'
  BY <1>5, ImportedBusy, BeginTypes DEF Synchronize, Task
<1>6. ASSUME NEW u \in Person, SyncStep(u) \/ Replicate(u)
      PROVE  TypeOK'
  BY <1>6, ImportTypes, UpdateTypes, ReplicateTypes DEF Task, SyncStep, UpdateStep
<1>7. ASSUME NEW u \in Person, ChangeDirectory(u)
      PROVE  TypeOK'
  <2>1. directory' \in [Person -> BOOLEAN]
    BY <1>7 DEF ChangeDirectory, TypeOK
  <2> QED
    BY <1>7, <2>1 DEF ChangeDirectory, history, TypeOK
<1>8. CASE UNCHANGED vars
  BY <1>8 DEF vars, TypeOK
<1> QED
  BY <1>1, <1>2, <1>3, <1>4, <1>5, <1>6, <1>7, <1>8 DEF Next

-----------------------------------------------------------------------------
(* What tasks hold.                                                         *)

GoodTask(x) ==
  \/ x = Idle
  \/ /\ x.pc \in {"import", "settings"} => x.mine # None
     /\ x.pc \in {"settings", "answer"} => x.session # None
     /\ x \in Busy /\ x.mine # None => x.mine.of = x.about

LEMMA GoodTasks ==
  ASSUME TypeOK, WorkInv, NEW t \in Task
  PROVE  GoodTask(task[t])
BY DEF TypeOK, WorkInv, GoodTask, At

LEMMA WorkStep ==
  ASSUME TypeOK, WorkInv, NEW t \in Task, NEW x, GoodTask(x),
         task' = [task EXCEPT ![t] = x],
         \A u \in Person : row'[u].of = u /\ replica'[u].of = u
  PROVE  WorkInv'
<1>1. ASSUME NEW v \in Task
      PROVE  GoodTask(task[v])'
  BY GoodTasks DEF TypeOK, GoodTask
<1>2. ASSUME NEW v \in Task
      PROVE  /\ At(v, "import")' \/ At(v, "settings")' => task'[v].mine # None
             /\ At(v, "settings")' \/ At(v, "answer")' => task'[v].session # None
             /\ task'[v] \in Busy /\ task'[v].mine # None => task'[v].mine.of = task'[v].about
  BY <1>1 DEF GoodTask, At, Idle, Busy
<1> QED
  BY <1>2 DEF WorkInv

LEMMA ImportWork ==
  ASSUME TypeOK, WorkInv, NEW t \in Task, ImportStep(t)
  PROVE  WorkInv'
<1>1. task[t] \in Busy
  BY TaskTypes DEF ImportStep, FindUser, ImportUser, ImportFails, At
<1>2. \A u \in Person : /\ row[u].of = u /\ row[u] \in User
                          /\ replica[u].of = u /\ replica[u] \in User
  BY DEF WorkInv, TypeOK
<1>3. GoodTask(Idle) /\ \A d \in BOOLEAN : GoodTask(Judge(d))
  BY JudgeTypes, JudgingTypes DEF GoodTask
<1>4. CASE FindUser(t)
  <2> DEFINE x == [task[t] EXCEPT !.pc = "import", !.mine = replica[task[t].about]]
  <2>1. replica[task[t].about].of = task[t].about /\ replica[task[t].about] \in User
    BY <1>1, <1>2 DEF Busy
  <2>2. /\ x.pc = "import" /\ x.mine = replica[task[t].about] /\ x.about = task[t].about
    BY <1>1 DEF Busy
  <2>3. replica[task[t].about] # None
    BY <2>1, NoneAssumption
  <2>4. GoodTask(x)
    BY <2>1, <2>2, <2>3 DEF GoodTask
  <2>5. task' = [task EXCEPT ![t] = x] /\ row' = row /\ replica' = replica
    BY <1>4 DEF FindUser, Goto, stored
  <2> HIDE DEF x
  <2> QED
    BY <1>2, <2>4, <2>5, WorkStep
<1>5. CASE ImportUser(t)
  <2>1. Saved(t) \in User /\ Saved(t).of = task[t].about
    BY <1>5, SavedTypes DEF ImportUser
  <2>2. \A u \in Person : row'[u].of = u /\ replica'[u].of = u
    BY <1>2, <1>5, <2>1 DEF ImportUser, TypeOK
  <2> DEFINE x == [task[t] EXCEPT !.pc = "answer", !.mine = Saved(t), !.disabled = FALSE]
  <2>3. /\ x.pc = "answer" /\ x.mine = Saved(t) /\ x.about = task[t].about
        /\ x.session = task[t].session
    BY <1>1 DEF Busy
  <2>4. task[t].session # None => GoodTask(x)
    BY <2>1, <2>3 DEF GoodTask
  <2>5. task' = [task EXCEPT ![t] = IF task[t].session = None THEN Judge(FALSE)
                                    ELSE IF Saved(t).disabled THEN Idle ELSE x]
    BY <1>5 DEF ImportUser, Goto
  <2>6. GoodTask(IF task[t].session = None THEN Judge(FALSE)
                 ELSE IF Saved(t).disabled THEN Idle ELSE x)
    BY <1>3, <2>4
  <2> HIDE DEF x
  <2> QED
    BY <2>2, <2>5, <2>6, WorkStep
<1>6. CASE ImportFails(t)
  BY <1>2, <1>3, <1>6, WorkStep DEF ImportFails, Goto, stored
<1> QED
  BY <1>4, <1>5, <1>6 DEF ImportStep

LEMMA UpdateWork ==
  ASSUME TypeOK, WorkInv, NEW u \in Person, UpdateStep(u)
  PROVE  WorkInv'
<1>1. u \in Task /\ task[u] \in Judging
  BY JudgingNow
<1>2. GoodTask(Idle) /\ GoodTask([task[u] EXCEPT !.pc = "update"])
  BY <1>1, JudgingTypes DEF GoodTask
<1>3. \A v \in Person : row[v].of = v /\ replica[v].of = v
  BY DEF WorkInv
<1>4. CASE FindEnabled(u)
  <2>1. PICK x \in {Idle, [task[u] EXCEPT !.pc = "update"]} : task' = [task EXCEPT ![u] = x]
    BY <1>4 DEF FindEnabled, Goto
  <2>2. row' = row /\ replica' = replica
    BY <1>4 DEF FindEnabled, stored
  <2> QED
    BY <1>1, <1>2, <1>3, <2>1, <2>2, WorkStep
<1>5. CASE UpdateUser(u)
  <2>1. [row[u] EXCEPT !.disabled = task[u].disabled].of = row[u].of
    BY DEF TypeOK, User
  <2>2. \A v \in Person : row'[v].of = v /\ replica'[v].of = v
    BY <1>3, <1>5, <2>1 DEF UpdateUser, TypeOK
  <2>3. task' = [task EXCEPT ![u] = Idle]
    BY <1>5 DEF UpdateUser, Goto
  <2> QED
    BY <1>1, <1>2, <2>2, <2>3, WorkStep
<1> QED
  BY <1>4, <1>5 DEF UpdateStep

LEMMA BeginWork ==
  ASSUME TypeOK, WorkInv, NEW t \in Task, NEW u, NEW s, NEW busy,
         GoodTask(busy), Begin(t, u, s, busy)
  PROVE  WorkInv'
BY WorkStep DEF Begin, Goto, stored, WorkInv

LEMMA AnsweringFields ==
  ASSUME TypeOK, NEW q \in Task, At(q, "settings")
  PROVE  /\ Answering(q).pc = "answer" /\ Answering(q).about = task[q].about
         /\ Answering(q).mine = task[q].mine /\ Answering(q).session = task[q].session
BY TaskTypes DEF Answering, Busy, At

LEMMA SettingsWork ==
  ASSUME TypeOK, WorkInv, NEW q \in Task, At(q, "settings"),
         task' = [task EXCEPT ![q] = Answering(q)],
         \A u \in Person : row'[u].of = u /\ replica'[u].of = u
  PROVE  WorkInv'
<1>1. task[q] \in Busy /\ task[q].session # None /\ task[q].mine # None
  BY TaskTypes DEF At, WorkInv
<1>2. task[q].mine.of = task[q].about
  BY <1>1 DEF WorkInv, Busy, Idle, At
<1>3. GoodTask(Answering(q))
  BY <1>1, <1>2, AnsweringFields DEF GoodTask, At
<1> QED
  BY <1>3, WorkStep

LEMMA RequestWork ==
  ASSUME TypeOK, WorkInv, NEW q \in Request, RequestStep(q)
  PROVE  WorkInv'
<1>0. q \in Task
  BY DEF Task
<1>1. \A u \in Person : row[u].of = u /\ replica[u].of = u
  BY DEF WorkInv
<1>2. CASE ImportStep(q)
  BY <1>0, <1>2, ImportWork
<1>3. CASE SaveSettings(q)
  <2>1. task[q] \in Busy /\ task[q].mine # None
    BY <1>0, <1>3, TaskTypes DEF SaveSettings, WorkInv, At
  <2>2. task[q].mine.of = task[q].about
    BY <1>0, <1>3, <2>1 DEF WorkInv, SaveSettings, At, Idle
  <2>3. \A u \in Person : row'[u].of = u /\ replica'[u].of = u
    BY <1>1, <1>3, <2>2 DEF SaveSettings, TypeOK
  <2> QED
    BY <1>0, <1>3, <2>3, SettingsWork DEF SaveSettings, Goto, Answering
<1>4. CASE SettingsFail(q)
  BY <1>0, <1>1, <1>4, SettingsWork DEF SettingsFail, Goto, stored, Answering
<1>5. CASE Answer(q)
  BY <1>0, <1>1, <1>5, WorkStep DEF Answer, Goto, GoodTask
<1> QED
  BY <1>2, <1>3, <1>4, <1>5 DEF RequestStep

(* A change begins with a copy of the person the session belongs to.        *)
LEMMA ChangingFields ==
  ASSUME TypeOK, NEW s \in Session, session[s] # None,
         NEW settings \in Settings, NEW asked \in Settings
  PROVE  /\ Changing(s, settings, asked).pc = "settings"
         /\ Changing(s, settings, asked).about = session[s].of
         /\ Changing(s, settings, asked).session = s
         /\ Changing(s, settings, asked).mine \in User
         /\ Changing(s, settings, asked).mine.of = session[s].of
         /\ Changing(s, settings, asked).mine.settings = settings
         /\ Changing(s, settings, asked).asked = Asked(session[s].of, asked)
<1>1. session[s] \in User
  BY DEF TypeOK
<1> QED
  BY <1>1, CopyTypes DEF Changing

LEMMA StepWork ==
  ASSUME TypeOK, WorkInv, [Next]_vars
  PROVE  WorkInv'
<1>1. ASSUME NEW t \in Task, NEW u, NEW s, Begin(t, u, s, Imported(u, s))
      PROVE  WorkInv'
  BY <1>1, BeginWork DEF Imported, GoodTask
<1>2. CASE \E q \in Request, s \in Session, u \in Person : Login(q, s, u)
  BY <1>1, <1>2 DEF Login, Task
<1>3. ASSUME NEW q \in Request, NEW s \in Session,
             ChooseLanguage(q, s) \/ ChooseFavorites(q, s)
      PROVE  WorkInv'
  <2>1. session[s] # None
    BY <1>3, Choices
  <2>2. PICK settings \in Settings, asked \in Settings :
          Begin(q, session[s].of, s, Changing(s, settings, asked))
    BY <1>3, Choices
  <2> DEFINE busy == Changing(s, settings, asked)
  <2>3. /\ busy.pc = "settings" /\ busy.session = s /\ busy.mine \in User
        /\ busy.mine.of = busy.about
    BY <2>1, ChangingFields
  <2>4. GoodTask(busy)
    BY <2>3, NoneAssumption DEF GoodTask
  <2> HIDE DEF busy
  <2> QED
    BY <2>2, <2>4, BeginWork DEF Task, busy
<1>4. ASSUME NEW q \in Request, NEW s \in Session, Logout(q, s)
      PROVE  WorkInv'
  <2> DEFINE busy == [pc |-> "answer", about |-> session[s].of, session |-> s,
                      disabled |-> FALSE, mine |-> None, asked |-> defaultUserSettings]
  <2>1. GoodTask(busy)
    BY NoneAssumption DEF GoodTask
  <2>2. Begin(q, session[s].of, s, busy)
    BY <1>4 DEF Logout
  <2> HIDE DEF busy
  <2> QED
    BY <2>1, <2>2, BeginWork DEF Task
<1>5. CASE \E q \in Request : RequestStep(q)
  BY <1>5, RequestWork
<1>6. ASSUME NEW u \in Person,
             Synchronize(u) \/ SyncStep(u) \/ ChangeDirectory(u) \/ Replicate(u)
      PROVE  WorkInv'
  <2>1. CASE Synchronize(u)
    BY <1>1, <2>1 DEF Synchronize, Task
  <2>2. CASE SyncStep(u)
    BY <2>2, ImportWork, UpdateWork DEF Task, SyncStep, UpdateStep
  <2>3. CASE ChangeDirectory(u)
    BY <2>3 DEF ChangeDirectory, WorkInv, At
  <2>4. CASE Replicate(u)
    <3>1. \A v \in Person : replica'[v].of = v
      BY <2>4 DEF Replicate, WorkInv, TypeOK
    <3> QED
      BY <2>4, <3>1 DEF Replicate, WorkInv, At
  <2> QED
    BY <1>6, <2>1, <2>2, <2>3, <2>4
<1>7. CASE UNCHANGED vars
  BY <1>7 DEF vars, WorkInv, At
<1> QED
  BY <1>2, <1>3, <1>4, <1>5, <1>6, <1>7 DEF Next

-----------------------------------------------------------------------------
(* What people have chosen.                                                 *)

(* A step of a task about somebody else leaves u's choices alone.           *)
LEMMA KeptOthers ==
  ASSUME TypeOK, NEW u \in Person, Kept(u), NEW t \in Task, NEW x,
         task' = [task EXCEPT ![t] = x],
         task[t].about # u, x.about # u,
         row'[u].settings = row[u].settings, chosen'[u] = chosen[u],
         \A r \in Session : session'[r] # session[r] /\ session'[r] # None
                              => session'[r].of # u
  PROVE  Kept(u)'
<1>1. \A v \in Task :
        task'[v].about = u \/ task[v].about = u => task'[v] = task[v]
  BY DEF TypeOK
<1>2. \A v, w \in Task : task'[v].about = u /\ task'[w].about = u => v = w
  BY <1>1 DEF Kept
<1>3. \A v \in Task, r \in Session :
        task'[v].about = u /\ task'[v].session \notin {None, r} /\ session'[r] # None
          => session'[r].of # u
  BY <1>1 DEF Kept
<1>4. \A v \in Task : task'[v].about = u =>
        /\ At(v, "settings")' => task'[v].mine.settings.lng = task'[v].asked.lng
        /\ (At(v, "import")' \/ At(v, "answer")') /\ task'[v].mine # None
             => task'[v].mine.settings.lng = chosen'[u].lng
  BY <1>1 DEF Kept, At
<1>5. \A r \in Session : session'[r] # None /\ session'[r].of = u =>
        \/ session'[r].settings.lng = chosen'[u].lng
        \/ \E v \in Task : At(v, "answer")' /\ task'[v].about = u /\ task'[v].session = r
  BY <1>1 DEF Kept, At
<1>6. row'[u].settings.lng = chosen'[u].lng
  BY DEF Kept
<1> QED
  BY <1>2, <1>3, <1>4, <1>5, <1>6 DEF Kept

(* A step of the one task about u, which becomes x.                         *)
OwnStep(u, t, x) ==
  /\ task' = [task EXCEPT ![t] = x] /\ task[t].about = u
  /\ x.about = u => x.session = task[t].session
  /\ row'[u].settings.lng = chosen'[u].lng
  /\ x.about = u /\ x.pc = "settings" => x.mine.settings.lng = x.asked.lng
  /\ x.about = u /\ x.pc \in {"import", "answer"} /\ x.mine # None
       => x.mine.settings.lng = chosen'[u].lng
  /\ \A r \in Session : session'[r] # None /\ session'[r].of = u =>
       /\ (session[r] # None /\ session[r].of = u) \/ task[t].session = r
       /\ \/ session'[r].settings.lng = chosen'[u].lng
          \/ x.about = u /\ x.pc = "answer" /\ x.session = r

LEMMA KeptOwn ==
  ASSUME TypeOK, NEW u \in Person, Kept(u), NEW t \in Task, NEW x, OwnStep(u, t, x)
  PROVE  Kept(u)'
<1>1. \A v \in Task : v # t => task'[v] = task[v] /\ task[v].about # u
  BY DEF TypeOK, Kept, OwnStep
<1>2. task'[t] = x
  BY DEF TypeOK, OwnStep
<1>3. \A v, w \in Task : task'[v].about = u /\ task'[w].about = u => v = w
  BY <1>1
<1>4. \A v \in Task, r \in Session :
        task'[v].about = u /\ task'[v].session \notin {None, r} /\ session'[r] # None
          => session'[r].of # u
  BY <1>1, <1>2 DEF Kept, OwnStep
<1>5. \A v \in Task : task'[v].about = u =>
        /\ At(v, "settings")' => task'[v].mine.settings.lng = task'[v].asked.lng
        /\ (At(v, "import")' \/ At(v, "answer")') /\ task'[v].mine # None
             => task'[v].mine.settings.lng = chosen'[u].lng
  BY <1>1, <1>2 DEF At, OwnStep
<1>6. \A r \in Session : session'[r] # None /\ session'[r].of = u =>
        \/ session'[r].settings.lng = chosen'[u].lng
        \/ \E v \in Task : At(v, "answer")' /\ task'[v].about = u /\ task'[v].session = r
  BY <1>2 DEF At, OwnStep
<1> QED
  BY <1>3, <1>4, <1>5, <1>6 DEF Kept, OwnStep

(* A task about u begins while none is under way and u is signed in nowhere *)
(* else; a task about somebody else begins.                                 *)
LEMMA KeptBegin ==
  ASSUME TypeOK, KeptInv, NEW t \in Task, NEW p \in Person, NEW s \in Session \cup {None},
         NEW busy \in Busy, Begin(t, p, s, busy),
         busy.about = p, busy.session = s, busy.pc # "import",
         busy.pc = "answer" => busy.mine = None,
         busy.pc = "settings" /\ p \notin crossed /\ ~Overlaps(p, s) /\ Kept(p)
           => busy.mine.settings.lng = busy.asked.lng
  PROVE  KeptInv'
<1> SUFFICES ASSUME NEW u \in Person \ crossed'
             PROVE  Kept(u)'
  BY DEF KeptInv
<1>1. /\ task' = [task EXCEPT ![t] = busy] /\ row' = row /\ session' = session
      /\ task[t].about = None
  BY DEF Begin, Goto, stored, At, TypeOK, Idle, Busy, Judging
<1>2. u \notin crossed /\ chosen'[u] = chosen[u] /\ (u = p => ~Overlaps(p, s))
  BY DEF Begin, Cross, history, TypeOK
<1>3. Kept(u)
  BY <1>2 DEF KeptInv
<1>4. CASE u # p
  <2>1. task[t].about # u /\ busy.about # u
    BY <1>1, <1>4, NoneAssumption
  <2>2. /\ row'[u] = row[u] /\ chosen'[u] = chosen[u]
        /\ \A r \in Session : session'[r] = session[r]
    BY <1>1, <1>2
  <2>3. u \in Person
    OBVIOUS
  <2> QED
    BY <1>1, <1>3, <2>1, <2>2, <2>3, KeptOthers
<1>5. CASE u = p
  <2>1. \A v \in Task : task[v].about # u
    BY <1>2, <1>5 DEF Overlaps
  <2>2. \A v \in Task : task'[v].about = u => v = t
    BY <1>1, <2>1 DEF TypeOK
  <2>3. task'[t] = busy
    BY <1>1 DEF TypeOK
  <2>4. \A v \in Task, r \in Session :
          task'[v].about = u /\ task'[v].session \notin {None, r} /\ session'[r] # None
            => session'[r].of # u
    BY <1>1, <1>2, <1>5, <2>2, <2>3 DEF Overlaps
  <2>5. row'[u].settings.lng = chosen'[u].lng
    BY <1>1, <1>2, <1>3 DEF Kept
  <2>6. \A v \in Task : task'[v].about = u =>
          /\ At(v, "settings")' => task'[v].mine.settings.lng = task'[v].asked.lng
          /\ (At(v, "import")' \/ At(v, "answer")') /\ task'[v].mine # None
               => task'[v].mine.settings.lng = chosen'[u].lng
    BY <1>2, <1>3, <1>5, <2>2, <2>3 DEF At
  <2>7. \A r \in Session : session'[r] # None /\ session'[r].of = u =>
          session'[r].settings.lng = chosen'[u].lng
    BY <1>1, <1>2, <1>3, <2>1 DEF Kept
  <2> QED
    BY <2>2, <2>4, <2>5, <2>6, <2>7 DEF Kept
<1> QED
  BY <1>4, <1>5

LEMMA KeptImport ==
  ASSUME TypeOK, WorkInv, KeptInv, NEW t \in Task, ImportStep(t)
  PROVE  KeptInv'
<1> SUFFICES ASSUME NEW u \in Person \ crossed'
             PROVE  Kept(u)'
  BY DEF KeptInv
<1>1. task[t] \in Busy
  BY TaskTypes DEF ImportStep, FindUser, ImportUser, ImportFails, At
<1>2. /\ u \notin crossed /\ chosen'[u] = chosen[u] /\ session' = session
      /\ u \in Person
  BY DEF ImportStep, FindUser, ImportUser, ImportFails, Cross, stored, history, TypeOK
<1>3. Kept(u)
  BY <1>2 DEF KeptInv
<1>4. /\ Idle.about # u /\ Idle.pc = "idle"
      /\ \A d \in BOOLEAN : Judge(d).about # u /\ Judge(d).pc = "block"
  BY <1>2, NoneAssumption, JudgeTypes DEF Idle
<1>5. task[t].about = u => \A v \in Task : v # t => task[v].about # u
  BY <1>3 DEF Kept
<1>6. \A r \in Session : session'[r] # None /\ session'[r].of = u /\ task[t].about = u
                          /\ ~At(t, "answer")
        => session'[r].settings.lng = chosen'[u].lng
  BY <1>2, <1>3, <1>5 DEF Kept
<1>7. ~At(t, "answer")
  BY DEF ImportStep, FindUser, ImportUser, ImportFails, At
<1>8. \A r \in Session : session'[r] = session[r]
  BY <1>2
<1>9. CASE FindUser(t)
  <2> DEFINE x == [task[t] EXCEPT !.pc = "import", !.mine = replica[task[t].about]]
  <2>1. /\ x.about = task[t].about /\ x.session = task[t].session /\ x.pc = "import"
        /\ x.mine = replica[task[t].about]
    BY <1>1 DEF Busy
  <2>2. task' = [task EXCEPT ![t] = x] /\ row' = row
    BY <1>9 DEF FindUser, Goto, stored
  <2> HIDE DEF x
  <2>3. CASE task[t].about # u
    BY <1>2, <1>3, <1>8, <2>1, <2>2, <2>3, KeptOthers
  <2>4. CASE task[t].about = u
    <3>1. replica[u].settings = row[u].settings
      BY <1>9, <2>4 DEF FindUser, Cross
    <3>2. row'[u].settings.lng = chosen'[u].lng /\ x.mine.settings.lng = chosen'[u].lng
      BY <1>2, <1>3, <2>1, <2>2, <2>4, <3>1 DEF Kept
    <3> QED
      BY <1>2, <1>3, <1>6, <1>7, <1>8, <2>1, <2>2, <2>4, <3>2, KeptOwn DEF OwnStep
  <2> QED
    BY <2>3, <2>4
<1>10. CASE ImportUser(t)
  <2>1. Saved(t).settings = task[t].mine.settings
    BY <1>10, SavedTypes DEF ImportUser
  <2>2. row'[u] = IF task[t].about = u THEN Saved(t) ELSE row[u]
    BY <1>2, <1>10 DEF ImportUser, TypeOK
  <2> DEFINE y == [task[t] EXCEPT !.pc = "answer", !.mine = Saved(t), !.disabled = FALSE]
             x == IF task[t].session = None THEN Judge(FALSE)
                  ELSE IF Saved(t).disabled THEN Idle ELSE y
  <2>3. /\ y.about = task[t].about /\ y.session = task[t].session
        /\ y.pc = "answer" /\ y.mine = Saved(t)
    BY <1>1 DEF Busy
  <2>4. task' = [task EXCEPT ![t] = x]
    BY <1>10 DEF ImportUser, Goto
  <2> HIDE DEF y
  <2>5. /\ x.about = u => x.session = task[t].session /\ x.mine = Saved(t)
        /\ x.pc # "settings" /\ (task[t].about # u => x.about # u)
    BY <1>4, <2>3
  <2> HIDE DEF x
  <2>6. CASE task[t].about # u
    BY <1>2, <1>3, <1>8, <2>2, <2>4, <2>5, <2>6, KeptOthers
  <2>7. CASE task[t].about = u
    <3>1. task[t].mine # None
      BY <1>10 DEF ImportUser, WorkInv
    <3>2. Saved(t).settings.lng = chosen'[u].lng
      BY <1>2, <1>3, <1>10, <2>1, <2>7, <3>1 DEF Kept, ImportUser
    <3> QED
      BY <1>2, <1>3, <1>6, <1>7, <1>8, <2>2, <2>4, <2>5, <2>7, <3>2, KeptOwn DEF OwnStep
  <2> QED
    BY <2>6, <2>7
<1>11. CASE ImportFails(t)
  <2> DEFINE x == IF task[t].session = None THEN Judge(TRUE) ELSE Idle
  <2>1. task' = [task EXCEPT ![t] = x] /\ row' = row
    BY <1>11 DEF ImportFails, Goto, stored
  <2>2. x.about # u
    BY <1>4
  <2> HIDE DEF x
  <2>3. CASE task[t].about # u
    BY <1>2, <1>3, <1>8, <2>1, <2>2, <2>3, KeptOthers
  <2>4. CASE task[t].about = u
    <3>1. row'[u].settings.lng = chosen'[u].lng
      BY <1>2, <1>3, <2>1 DEF Kept
    <3> QED
      BY <1>2, <1>3, <1>6, <1>7, <1>8, <2>1, <2>2, <2>4, <3>1, KeptOwn DEF OwnStep
  <2> QED
    BY <2>3, <2>4
<1> QED
  BY <1>9, <1>10, <1>11 DEF ImportStep

(* An update writes the flag and nothing else of the row.                   *)
LEMMA KeptUpdate ==
  ASSUME TypeOK, KeptInv, NEW p \in Person, UpdateStep(p)
  PROVE  KeptInv'
<1> SUFFICES ASSUME NEW u \in Person \ crossed'
             PROVE  Kept(u)'
  BY DEF KeptInv
<1>1. p \in Task /\ task[p] \in Judging
  BY JudgingNow
<1>2. crossed' = crossed /\ chosen' = chosen /\ session' = session
  BY DEF UpdateStep, FindEnabled, UpdateUser, stored, history
<1>3. Kept(u) /\ u \in Person
  BY <1>2 DEF KeptInv
<1>4. PICK x \in {Idle, [task[p] EXCEPT !.pc = "update"]} : task' = [task EXCEPT ![p] = x]
  BY DEF UpdateStep, FindEnabled, UpdateUser, Goto
<1>5. task[p].about # u /\ x.about # u
  <2>1. Idle.about = None /\ [task[p] EXCEPT !.pc = "update"].about = None
    BY <1>1, JudgingTypes DEF Idle
  <2> QED
    BY <1>1, <1>3, <2>1, JudgingTypes, NoneAssumption
<1>6. row'[u].settings = row[u].settings
  <2>1. [row[u] EXCEPT !.disabled = task[p].disabled].settings = row[u].settings
    BY DEF TypeOK, User
  <2> QED
    BY <2>1 DEF UpdateStep, FindEnabled, UpdateUser, stored, TypeOK
<1> QED
  BY <1>1, <1>2, <1>3, <1>4, <1>5, <1>6, KeptOthers

LEMMA KeptRequest ==
  ASSUME TypeOK, WorkInv, KeptInv, NEW q \in Request,
         SaveSettings(q) \/ SettingsFail(q) \/ Answer(q)
  PROVE  KeptInv'
<1> SUFFICES ASSUME NEW u \in Person \ crossed'
             PROVE  Kept(u)'
  BY DEF KeptInv
<1>0. q \in Task /\ u \in Person
  BY DEF Task
<1>1. task[q] \in Busy
  BY <1>0, TaskTypes DEF SaveSettings, SettingsFail, Answer, At
<1>2. u \notin crossed
  BY DEF SaveSettings, SettingsFail, Answer, Cross, history
<1>3. Kept(u)
  BY <1>2 DEF KeptInv
<1>4. task[q].session # None
  BY <1>0 DEF SaveSettings, SettingsFail, Answer, WorkInv
<1>5. task[q].about = u =>
        \A r \in Session : session[r] # None /\ session[r].of = u => r = task[q].session
  BY <1>0, <1>3, <1>4 DEF Kept
<1>6. CASE SaveSettings(q)
  <2> DEFINE x == Answering(q)
  <2>1. /\ x.pc = "answer" /\ x.about = task[q].about /\ x.mine = task[q].mine
        /\ x.session = task[q].session
    BY <1>0, <1>6, AnsweringFields DEF SaveSettings, At
  <2>2. task' = [task EXCEPT ![q] = x] /\ session' = session
    BY <1>6 DEF SaveSettings, Goto, Answering
  <2> HIDE DEF x
  <2>3. CASE task[q].about # u
    <3>1. row'[u] = row[u] /\ chosen'[u] = chosen[u]
      BY <1>6, <2>3 DEF SaveSettings, TypeOK
    <3> QED
      BY <1>0, <1>3, <2>1, <2>2, <2>3, <3>1, KeptOthers
  <2>4. CASE task[q].about = u
    <3>1. row'[u] = task[q].mine /\ chosen'[u] = task[q].asked
      BY <1>0, <1>2, <1>6, <2>4 DEF SaveSettings, TypeOK, Asked
    <3>2. task[q].mine.settings.lng = task[q].asked.lng
      BY <1>0, <1>3, <1>6, <2>4 DEF SaveSettings, Kept
    <3>3. \A r \in Session : session'[r] # None /\ session'[r].of = u
                             => r = task[q].session /\ session[r].of = u /\ session[r] # None
      BY <1>5, <2>2, <2>4
    <3>4. /\ row'[u].settings.lng = chosen'[u].lng
          /\ x.mine.settings.lng = chosen'[u].lng
      BY <2>1, <3>1, <3>2
    <3>5. \A r \in Session : session'[r] # None /\ session'[r].of = u =>
            /\ (session[r] # None /\ session[r].of = u) \/ task[q].session = r
            /\ \/ session'[r].settings.lng = chosen'[u].lng
               \/ x.about = u /\ x.pc = "answer" /\ x.session = r
      BY <2>1, <2>4, <3>3
    <3>6. /\ x.about = u => x.session = task[q].session
          /\ x.about = u /\ x.pc = "settings" => x.mine.settings.lng = x.asked.lng
          /\ x.about = u /\ x.pc \in {"import", "answer"} /\ x.mine # None
               => x.mine.settings.lng = chosen'[u].lng
      BY <2>1, <3>4
    <3>7. task' = [task EXCEPT ![q] = x]
      BY <2>2
    <3>8. OwnStep(u, q, x)
      BY <2>4, <3>4, <3>5, <3>6, <3>7 DEF OwnStep
    <3> QED
      BY <1>0, <1>3, <3>8, KeptOwn
  <2> QED
    BY <2>3, <2>4
<1>7. CASE SettingsFail(q)
  <2> DEFINE x == Answering(q)
  <2>1. x.about = task[q].about
    BY <1>0, <1>7, AnsweringFields DEF SettingsFail, At
  <2>2. /\ task' = [task EXCEPT ![q] = x] /\ session' = session /\ row' = row
        /\ task[q].about # u /\ chosen'[u] = chosen[u]
    BY <1>0, <1>7 DEF SettingsFail, Goto, Answering, stored, Cross, TypeOK
  <2> HIDE DEF x
  <2>3. row'[u] = row[u] /\ x.about # u
    BY <2>1, <2>2
  <2> QED
    BY <1>0, <1>3, <2>2, <2>3, KeptOthers
<1>8. CASE Answer(q)
  <2>1. /\ task' = [task EXCEPT ![q] = Idle] /\ row' = row /\ chosen' = chosen
        /\ session' = [session EXCEPT ![task[q].session] = task[q].mine]
    BY <1>8 DEF Answer, Goto, history
  <2>2. Idle.about # u
    BY <1>0, NoneAssumption DEF Idle
  <2>3. task[q].mine # None => task[q].mine.of = task[q].about
    BY <1>0, <1>1 DEF WorkInv, Idle, Busy
  <2>4. \A r \in Session : session'[r] = IF r = task[q].session THEN task[q].mine
                                                               ELSE session[r]
    BY <2>1 DEF TypeOK
  <2>5. CASE task[q].about # u
    <3>1. \A r \in Session : session'[r] # session[r] /\ session'[r] # None
                              => session'[r].of # u
      BY <2>3, <2>4, <2>5
    <3>2. row'[u] = row[u] /\ chosen'[u] = chosen[u]
      BY <2>1
    <3> QED
      BY <1>0, <1>3, <2>1, <2>2, <2>5, <3>1, <3>2, KeptOthers
  <2>6. CASE task[q].about = u
    <3>1. task[q].mine # None => task[q].mine.settings.lng = chosen'[u].lng
      BY <1>0, <1>3, <1>8, <2>1, <2>6 DEF Answer, Kept
    <3>2. row'[u].settings.lng = chosen'[u].lng
      BY <1>3, <2>1 DEF Kept
    <3>3. \A r \in Session : session'[r] # None /\ session'[r].of = u =>
            r = task[q].session /\ session'[r].settings.lng = chosen'[u].lng
      BY <1>5, <2>4, <2>6, <3>1
    <3> QED
      BY <1>0, <1>3, <2>1, <2>2, <2>6, <3>2, <3>3, KeptOwn DEF OwnStep
  <2> QED
    BY <2>5, <2>6
<1> QED
  BY <1>6, <1>7, <1>8

LEMMA StepKept ==
  ASSUME TypeOK, WorkInv, KeptInv, [Next]_vars
  PROVE  KeptInv'
<1>1. ASSUME NEW t \in Task, NEW u \in Person, NEW s \in Session \cup {None},
             Begin(t, u, s, Imported(u, s))
      PROVE  KeptInv'
  <2>1. Imported(u, s) \in Busy
    BY ImportedBusy
  <2>2. /\ Imported(u, s).about = u /\ Imported(u, s).session = s
        /\ Imported(u, s).pc = "find"
    BY DEF Imported
  <2> QED
    BY <1>1, <2>1, <2>2, KeptBegin
<1>2. CASE \E q \in Request, s \in Session, u \in Person : Login(q, s, u)
  BY <1>1, <1>2 DEF Login, Task
<1>3. ASSUME NEW q \in Request, NEW s \in Session,
             ChooseLanguage(q, s) \/ ChooseFavorites(q, s)
      PROVE  KeptInv'
  <2>1. session[s] # None /\ session[s].of \in Person
    BY <1>3, Choices DEF TypeOK, User
  <2>2. PICK settings \in Settings, asked \in Settings :
          /\ Begin(q, session[s].of, s, Changing(s, settings, asked))
          /\ session[s].settings.lng = chosen[session[s].of].lng => settings.lng = asked.lng
    BY <1>3, Choices
  <2> DEFINE p == session[s].of
             busy == Changing(s, settings, asked)
  <2>3. /\ busy \in Busy /\ busy.pc = "settings" /\ busy.about = p /\ busy.session = s
        /\ busy.mine.settings = settings /\ busy.asked = Asked(p, asked)
    BY <2>1, ChangeBusy, ChangingFields
  <2>4. p \notin crossed /\ ~Overlaps(p, s) /\ Kept(p)
          => busy.mine.settings.lng = busy.asked.lng
    <3> SUFFICES ASSUME p \notin crossed, ~Overlaps(p, s), Kept(p)
                 PROVE  settings.lng = asked.lng
      BY <2>3 DEF Asked
    <3>1. \A t \in Task : task[t].about # p
      BY DEF Overlaps
    <3>2. session[s].settings.lng = chosen[p].lng
      BY <2>1, <3>1 DEF Kept
    <3> QED
      BY <2>2, <3>2
  <2>5. Begin(q, p, s, busy) /\ q \in Task
    BY <2>2 DEF Task
  <2> HIDE DEF busy
  <2> QED
    BY <2>1, <2>3, <2>4, <2>5, KeptBegin
<1>4. ASSUME NEW q \in Request, NEW s \in Session, Logout(q, s)
      PROVE  KeptInv'
  <2>1. session[s].of \in Person
    BY <1>4 DEF Logout, TypeOK, User
  <2> DEFINE busy == [pc |-> "answer", about |-> session[s].of, session |-> s,
                      disabled |-> FALSE, mine |-> None, asked |-> defaultUserSettings]
  <2>2. busy \in Busy
    BY <2>1, DefaultSettings DEF Busy
  <2>3. /\ busy.pc = "answer" /\ busy.about = session[s].of /\ busy.session = s
        /\ busy.mine = None
    OBVIOUS
  <2>4. Begin(q, session[s].of, s, busy) /\ q \in Task
    BY <1>4 DEF Logout, Task
  <2> HIDE DEF busy
  <2> QED
    BY <2>1, <2>2, <2>3, <2>4, KeptBegin
<1>5. ASSUME NEW q \in Request, RequestStep(q)
      PROVE  KeptInv'
  BY <1>5, KeptImport, KeptRequest DEF RequestStep, Task
<1>6. ASSUME NEW u \in Person,
             Synchronize(u) \/ SyncStep(u) \/ ChangeDirectory(u) \/ Replicate(u)
      PROVE  KeptInv'
  <2>1. CASE Synchronize(u)
    BY <1>1, <2>1 DEF Synchronize, Task
  <2>2. CASE SyncStep(u)
    BY <2>2, KeptImport, KeptUpdate DEF Task, SyncStep, UpdateStep
  <2>3. CASE ChangeDirectory(u) \/ Replicate(u)
    BY <2>3 DEF ChangeDirectory, Replicate, history, KeptInv, Kept, At
  <2> QED
    BY <1>6, <2>1, <2>2, <2>3
<1>7. CASE UNCHANGED vars
  BY <1>7 DEF vars, KeptInv, Kept, At
<1> QED
  BY <1>2, <1>3, <1>4, <1>5, <1>6, <1>7 DEF Next

-----------------------------------------------------------------------------
LEMMA InitSettings ==
  ASSUME Init
  PROVE  SettingsInv
<1>1. \A u \in Person :
        /\ row[u] \in User /\ row[u].of = u /\ replica[u] = row[u]
        /\ row[u].settings = defaultUserSettings /\ chosen[u] = defaultUserSettings
  <2>1. PICK was \in [Person -> BOOLEAN] :
          row = [u \in Person |-> [of |-> u, disabled |-> was[u],
                                  settings |-> defaultUserSettings]]
    BY DEF Init
  <2>2. \A u \in Person : \E flag \in BOOLEAN :
          row[u] = [of |-> u, disabled |-> flag, settings |-> defaultUserSettings]
    <3>1. ASSUME NEW u \in Person
          PROVE  was[u] \in BOOLEAN /\ row[u] = [of |-> u, disabled |-> was[u],
                                                settings |-> defaultUserSettings]
      BY <2>1, Zenon
    <3> QED
      BY <3>1, Zenon
  <2>3. ASSUME NEW u \in Person
        PROVE  /\ row[u] \in User /\ row[u].of = u
               /\ row[u].settings = defaultUserSettings
    <3>1. PICK flag \in BOOLEAN :
            row[u] = [of |-> u, disabled |-> flag, settings |-> defaultUserSettings]
      BY <2>2
    <3>2. [of |-> u, disabled |-> flag, settings |-> defaultUserSettings] \in User
      BY DefaultSettings DEF User
    <3> QED
      BY <3>1, <3>2
  <2>4. replica = row /\ chosen = [u \in Person |-> defaultUserSettings]
    BY DEF Init
  <2>5. \A u \in Person : chosen[u] = defaultUserSettings /\ replica[u] = row[u]
    BY <2>4
  <2> QED
    BY <2>3, <2>5
<1>2. \A s \in Session : /\ session[s] \in User \cup {None}
                         /\ session[s] # None => session[s].settings = defaultUserSettings
  <2>1. [of : Person, disabled : {FALSE}, settings : {defaultUserSettings}] \subseteq User
    BY DefaultSettings DEF User
  <2>2. \A c \in [of : Person, disabled : {FALSE}, settings : {defaultUserSettings}] :
          c.settings = defaultUserSettings
    OBVIOUS
  <2> QED
    BY <2>1, <2>2 DEF Init
<1>3. \A t \in Task : /\ task[t] = Idle /\ task[t].pc = "idle" /\ task[t].about \notin Person
                      /\ task[t] \notin Busy
  BY NoneAssumption DEF Init, Idle, Busy
<1>4. TypeOK
  <2>1. row \in [Person -> User] /\ replica \in [Person -> User]
    BY <1>1 DEF Init
  <2>2. session \in [Session -> User \cup {None}]
    BY <1>2 DEF Init
  <2> QED
    BY <2>1, <2>2, DefaultSettings DEF Init, TypeOK
<1>5. WorkInv
  BY <1>1, <1>3 DEF WorkInv, At
<1>6. ASSUME NEW u \in Person PROVE Kept(u)
  BY <1>1, <1>2, <1>3 DEF Kept
<1> QED
  BY <1>4, <1>5, <1>6 DEF SettingsInv, KeptInv

LEMMA SettingsInvariant == Spec => []SettingsInv
<1>1. SettingsInv /\ [Next]_vars => SettingsInv'
  BY StepTypes, StepWork, StepKept DEF SettingsInv
<1> QED
  BY InitSettings, <1>1, PTL DEF Spec

(* The variables keep their types: what is stored in a session and in the   *)
(* user table is always a whole user with settings of the right shape,      *)
(* whatever the merge of lists makes of them.                               *)
THEOREM SessionTypes == Spec => []TypeOK
<1>1. SettingsInv => TypeOK
  BY DEF SettingsInv
<1> QED
  BY SettingsInvariant, <1>1, PTL

(* Whoever does one thing at a time in one browser keeps the chosen         *)
(* language (userSettings and the imports both write the row), for any      *)
(* number of people and of requests of others in between.                   *)
THEOREM SessionLanguageKept == Spec => []LanguageKept
<1>1. SettingsInv => LanguageKept
  <2> SUFFICES ASSUME SettingsInv, NEW u \in Person, Resting(u), NEW c \in Copies(u)
               PROVE  c.settings.lng = chosen[u].lng
    BY DEF LanguageKept
  <2>1. Kept(u) /\ \A t \in Task : task[t].about # u
    BY DEF SettingsInv, KeptInv, Resting
  <2> QED
    BY <2>1 DEF Kept, Copies
<1> QED
  BY SettingsInvariant, <1>1, PTL
=============================================================================

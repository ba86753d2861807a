----------------------------- MODULE SessionUser -----------------------------
(***************************************************************************)
(* Who is signed in, and the settings of the user: AuthResolver.login and  *)
(* logout, UserResolver.userSettings, and the imports that write the same  *)
(* row of the user table.                                                  *)
(*                                                                         *)
(* The session in Redis holds a copy of the whole user row, made at the    *)
(* login (CookieSerializer stores and returns the user itself).  A request *)
(* loads the session when it begins and stores it when it is answered, if  *)
(* it has changed; userSettings works on that copy and saves all of it to  *)
(* the database.  Nothing compares the copy with the row, orders two       *)
(* requests of one session, or two sessions of one person.  Lookups are    *)
(* answered by a replica of the database, which may be behind.             *)
(*                                                                         *)
(* Of the row: whether it is disabled (isAdmin and the groups are written  *)
(* by the same statements) and two of the settings, a value that is        *)
(* replaced (lng) and a list (task.favorites).                             *)
(***************************************************************************)
EXTENDS Naturals, Sequences

CONSTANTS
  Person,
  Session,       \* browsers
  Request,       \* bound: requests in progress at one time
  Language, Russian,
  Favorite,      \* the services a ticket can be opened for
  MaxFavorites,  \* bound: entries of the list
  MaxChanges,    \* bound: changes made in the directory
  Failures,      \* TRUE: saving a row may fail
  None

ASSUME LanguageAssumption == Russian \in Language
ASSUME TaskAssumption     == Request \cap Person = {}
ASSUME BoundAssumption    == /\ MaxFavorites \in Nat /\ MaxChanges \in Nat
                             /\ Failures \in BOOLEAN

(* A request, or the import of a person by the synchronization.             *)
Task == Request \cup Person

List     == UNION {[1..n -> Favorite] : n \in 0..MaxFavorites}
Settings == [lng : Language, favorites : List]
User     == [of : Person, disabled : BOOLEAN, settings : Settings]

ASSUME NoneAssumption == None \notin Person \cup Session \cup User

VARIABLES
  directory,  \* is the account disabled in the directory
  row,        \* the user table
  replica,    \* the copy of it that lookups read
  session,    \* the user in the session of a browser
  task,       \* the requests and imports in progress
  changes,    \* directory changes so far
  chosen,     \* history: the settings people have asked for
  crossed     \* history: people whose requests or sessions have overlapped,
              \* or whose settings were looked up while the replica was behind

stored  == <<directory, row, replica, session, changes>>
history == <<chosen, crossed>>
vars    == <<directory, row, replica, session, task, changes, chosen, crossed>>

(* mine is the copy of the row a task works with; asked, for the properties,*)
(* what the person has after it if it succeeds.                             *)
Busy == [pc : {"find", "import", "settings", "answer"}, about : Person,
         session : Session \cup {None}, disabled : BOOLEAN,
         mine : User \cup {None}, asked : Settings]
Idle == [pc |-> "idle", about |-> None]

(* A synchronization that has imported a person, or could not, and goes on  *)
(* to block whom it has not imported: it works with no copy of the row.     *)
Judging == [pc : {"block", "update"}, about : {None}, disabled : BOOLEAN]

TypeOK ==
  /\ directory \in [Person -> BOOLEAN]
  /\ row \in [Person -> User] /\ replica \in [Person -> User]
  /\ session \in [Session -> User \cup {None}]
  /\ task \in [Task -> Busy \cup Judging \cup {Idle}]
  /\ changes \in Nat
  /\ chosen \in [Person -> Settings]
  /\ crossed \in SUBSET Person

defaultUserSettings == [lng |-> Russian, favorites |-> <<>>]

(* The rows are as some import has left them, and whoever was enabled then  *)
(* may be signed in since.                                                  *)
Init ==
  /\ directory \in [Person -> BOOLEAN]
  /\ \E was \in [Person -> BOOLEAN] :
       row = [u \in Person |-> [of |-> u, disabled |-> was[u], settings |-> defaultUserSettings]]
  /\ replica = row
  /\ session \in [Session -> {None} \cup
       [of : Person, disabled : {FALSE}, settings : {defaultUserSettings}]]
  /\ task = [t \in Task |-> Idle]
  /\ changes = 0
  /\ chosen = [u \in Person |-> defaultUserSettings]
  /\ crossed = {}

At(t, pc) == task[t].pc = pc

Goto(t, next) == task' = [task EXCEPT ![t] = next]

(* For the properties: from now on nothing is said about u's choices.       *)
Cross(u) ==
  /\ crossed' = crossed \cup {u}
  /\ chosen' = [chosen EXCEPT ![u] = defaultUserSettings]

Asked(u, settings) == IF u \in crossed THEN defaultUserSettings ELSE settings

(* A task about u begins, from session s; the history notes when another one*)
(* is already under way, or when u is signed in somewhere else.             *)
Overlaps(u, s) ==
  \/ \E t \in Task : task[t].about = u
  \/ \E r \in Session \ {s} : s # None /\ session[r] # None /\ session[r].of = u

Begin(t, u, s, busy) ==
  /\ At(t, "idle")
  /\ Goto(t, busy)
  /\ IF Overlaps(u, s) THEN Cross(u) ELSE UNCHANGED history
  /\ UNCHANGED stored

-----------------------------------------------------------------------------
(* Imports: the directory has answered, the row is looked up, and it is     *)
(* saved with the flag of that answer and the settings that were found.     *)

Imported(u, s) ==
  [pc |-> "find", about |-> u, session |-> s, disabled |-> directory[u],
   mine |-> None, asked |-> defaultUserSettings]

(* AuthService.login; an account unknown there is refused at once.          *)
Login(q, s, u) == Begin(q, u, s, Imported(u, s))

(* The hourly synchronization.                                              *)
Synchronize(u) == Begin(u, u, None, Imported(u, None))

(* When the settings that are found are no longer those of the row, they    *)
(* will be written back all the same.                                       *)
FindUser(t) ==
  LET u == task[t].about IN
  /\ At(t, "find")
  /\ Goto(t, [task[t] EXCEPT !.pc = "import", !.mine = replica[u]])
  /\ IF replica[u].settings = row[u].settings THEN UNCHANGED history ELSE Cross(u)
  /\ UNCHANGED stored

(* A bug: the flag of the row wins over the directory's.                    *)
Saved_RowWins(t) == task[t].mine

Saved(t) == [task[t].mine EXCEPT !.disabled = task[t].disabled]

(* A synchronization notes whom it could not import.                        *)
Judge(disabled) == [pc |-> "block", about |-> None, disabled |-> disabled]

(* A disabled person is saved and then refused; the session stays as it was.*)
ImportUser(t) ==
  /\ At(t, "import")
  /\ row' = [row EXCEPT ![task[t].about] = Saved(t)]
  /\ Goto(t, IF task[t].session = None THEN Judge(FALSE)
             ELSE IF Saved(t).disabled THEN Idle
             ELSE [task[t] EXCEPT !.pc = "answer", !.mine = Saved(t), !.disabled = FALSE])
  /\ UNCHANGED <<directory, replica, session, changes, history>>

ImportFails(t) ==
  /\ Failures /\ At(t, "import")
  /\ Goto(t, IF task[t].session = None THEN Judge(TRUE) ELSE Idle)
  /\ UNCHANGED <<stored, history>>

(* allUsers: of those found enabled, whoever was imported is granted access *)
(* and the others are blocked.  The update writes this column only.         *)
FindEnabled(u) ==
  /\ At(u, "block")
  /\ \/ Goto(u, IF replica[u].disabled THEN Idle ELSE [task[u] EXCEPT !.pc = "update"])
     \/ Failures /\ Goto(u, Idle)
  /\ UNCHANGED <<stored, history>>

UpdateUser(u) ==
  /\ At(u, "update")
  /\ \/ row' = [row EXCEPT ![u] = [@ EXCEPT !.disabled = task[u].disabled]]
     \/ Failures /\ UNCHANGED row
  /\ Goto(u, Idle)
  /\ UNCHANGED <<directory, replica, session, changes, history>>

(* The replica catches up.                                                  *)
Replicate(u) ==
  /\ replica[u] # row[u]
  /\ replica' = [replica EXCEPT ![u] = row[u]]
  /\ UNCHANGED <<directory, row, session, changes, task, history>>

-----------------------------------------------------------------------------
(* userSettings: defaultsDeep(value, user.settings, defaultUserSettings).   *)

(* What the list of favourites of the tickets page sends: the list it shows,*)
(* with an entry more, without one, or with two entries exchanged.          *)
Added(list)   == IF Len(list) < MaxFavorites
                 THEN {Append(list, f) : f \in {g \in Favorite :
                         \A i \in 1..Len(list) : list[i] # g}}
                 ELSE {}
Removed(list) == {[j \in 1..(Len(list) - 1) |-> IF j < i THEN list[j] ELSE list[j + 1]] :
                   i \in 1..Len(list)}
Moved(list)   == {[list EXCEPT ![i] = list[i + 1], ![i + 1] = list[i]] :
                   i \in 1..(Len(list) - 1)}

(* A bug: the array keeps its length and gets holes.                        *)
Filled_Holes(list, old) ==
  [i \in 1..(IF Len(list) > Len(old) THEN Len(list) ELSE Len(old)) |->
     IF i <= Len(list) THEN list[i] ELSE None]

(* defaultsDeep goes through arrays by index: what the list sent does not   *)
(* reach is taken from the old one.                                         *)
Filled(list, old) ==
  [i \in 1..(IF Len(list) > Len(old) THEN Len(list) ELSE Len(old)) |->
     IF i <= Len(list) THEN list[i] ELSE old[i]]

Change(q, s, settings, asked) ==
  Begin(q, session[s].of, s,
        [pc |-> "settings", about |-> session[s].of, session |-> s,
         disabled |-> FALSE, mine |-> [session[s] EXCEPT !.settings = settings],
         asked |-> Asked(session[s].of, asked)])

ChooseLanguage(q, s) ==
  /\ session[s] # None
  /\ \E l \in Language :
       Change(q, s, [session[s].settings EXCEPT !.lng = l],
                    [chosen[session[s].of] EXCEPT !.lng = l])

ChooseFavorites(q, s) ==
  /\ session[s] # None
  /\ LET shown == session[s].settings.favorites IN
     \E list \in Added(shown) \cup Removed(shown) \cup Moved(shown) :
       Change(q, s, [session[s].settings EXCEPT !.favorites = Filled(list, shown)],
                    [chosen[session[s].of] EXCEPT !.favorites = list])

(* A bug: the request's copy is saved, the one in the session stays.        *)
SaveSettings_SessionStays(q) ==
  /\ At(q, "settings")
  /\ row' = [row EXCEPT ![task[q].about] = task[q].mine]
  /\ chosen' = [chosen EXCEPT ![task[q].about] = Asked(task[q].about, task[q].asked)]
  /\ Goto(q, Idle)
  /\ UNCHANGED <<directory, replica, session, changes, crossed>>

SaveSettings(q) ==
  /\ At(q, "settings")
  /\ row' = [row EXCEPT ![task[q].about] = task[q].mine]
  /\ chosen' = [chosen EXCEPT ![task[q].about] = Asked(task[q].about, task[q].asked)]
  /\ Goto(q, [task[q] EXCEPT !.pc = "answer", !.asked = defaultUserSettings])
  /\ UNCHANGED <<directory, replica, session, changes, crossed>>

(* The person is told of an error, and the session keeps the change: the    *)
(* next settings that are saved bring it along.                             *)
SettingsFail(q) ==
  /\ Failures /\ At(q, "settings")
  /\ Cross(task[q].about)
  /\ Goto(q, [task[q] EXCEPT !.pc = "answer", !.asked = defaultUserSettings])
  /\ UNCHANGED stored

-----------------------------------------------------------------------------
(* request.logOut() takes the user out of the request's copy.               *)
Logout(q, s) ==
  /\ session[s] # None
  /\ Begin(q, session[s].of, s,
           [pc |-> "answer", about |-> session[s].of, session |-> s,
            disabled |-> FALSE, mine |-> None, asked |-> defaultUserSettings])

(* The answer is sent and the session stored, whatever it has become.       *)
Answer(q) ==
  /\ At(q, "answer")
  /\ session' = [session EXCEPT ![task[q].session] = task[q].mine]
  /\ Goto(q, Idle)
  /\ UNCHANGED <<directory, row, replica, changes, history>>

ChangeDirectory(u) ==
  /\ changes < MaxChanges
  /\ directory' = [directory EXCEPT ![u] = ~directory[u]]
  /\ changes' = changes + 1
  /\ UNCHANGED <<row, replica, session, task, history>>

ImportStep(t) == FindUser(t) \/ ImportUser(t) \/ ImportFails(t)

SyncStep(u) == ImportStep(u) \/ FindEnabled(u) \/ UpdateUser(u)

RequestStep(q) ==
  ImportStep(q) \/ SaveSettings(q) \/ SettingsFail(q) \/ Answer(q)

Next ==
  \/ \E q \in Request, s \in Session : \/ \E u \in Person : Login(q, s, u)
                                       \/ ChooseLanguage(q, s)
                                       \/ ChooseFavorites(q, s)
                                       \/ Logout(q, s)
  \/ \E q \in Request : RequestStep(q)
  \/ \E u \in Person : Synchronize(u) \/ SyncStep(u) \/ ChangeDirectory(u) \/ Replicate(u)

(* A request is answered; the synchronization comes back every hour and     *)
(* saves everyone now and then, failures notwithstanding.                   *)
Fairness ==
  /\ \A q \in Request : WF_vars(RequestStep(q))
  /\ \A u \in Person : /\ WF_vars(Synchronize(u)) /\ WF_vars(SyncStep(u))
                       /\ SF_vars(ImportUser(u))

Spec == Init /\ [][Next]_vars /\ Fairness

-----------------------------------------------------------------------------
(* A person who is signed in once and waits for each answer keeps the       *)
(* language chosen last, in the row and in the session alike, whatever      *)
(* other settings are saved, however often the person signs in again and    *)
(* whatever imports come in between, unless one has looked the settings up  *)
(* on a replica that did not have them yet.                                 *)
Resting(u) == u \notin crossed /\ \A t \in Task : task[t].about # u

Copies(u) == {row[u]} \cup {session[s] : s \in {r \in Session :
                              session[r] # None /\ session[r].of = u}}

LanguageKept ==
  \A u \in Person : Resting(u) =>
    \A c \in Copies(u) : c.settings.lng = chosen[u].lng

(* A session outlives the blocking of its user, and saving settings from it *)
(* enables the row again.  That does not last: once the directory rests,    *)
(* nobody saves settings, and the replica has the last import when the      *)
(* synchronization looks for those who are enabled, who is disabled in the  *)
(* directory stays disabled in the row, whatever fails on the way.          *)
DirectoryRests == <>[][UNCHANGED directory]_vars
NobodySaves    == <>[][\A q \in Request : ~SaveSettings(q)]_vars
ReplicaKeepsUp == <>[][\A u \in Person : FindEnabled(u) => replica[u] = row[u]]_vars

BlockedInTheEnd ==
  DirectoryRests /\ NobodySaves /\ ReplicaKeepsUp =>
    \A u \in Person : <>[](directory[u] => row[u].disabled)

-----------------------------------------------------------------------------
(* The inductive invariant behind LanguageKept.                             *)

(* What a task holds is a copy of the person it is about.                   *)
WorkInv ==
  /\ \A u \in Person : row[u].of = u /\ replica[u].of = u
  /\ \A t \in Task :
       /\ At(t, "import") \/ At(t, "settings") => task[t].mine # None
       /\ At(t, "settings") \/ At(t, "answer") => task[t].session # None
       /\ task[t] \in Busy /\ task[t].mine # None => task[t].mine.of = task[t].about

(* Of somebody who has not crossed: one task at most, and no other session  *)
(* than the one it belongs to; what was chosen is in the row, in the task's *)
(* copy, and in the session unless the task is about to store it there.     *)
Kept(u) ==
  /\ \A t, v \in Task : task[t].about = u /\ task[v].about = u => t = v
  /\ \A t \in Task, r \in Session :
       task[t].about = u /\ task[t].session \notin {None, r} /\ session[r] # None
         => session[r].of # u
  /\ row[u].settings.lng = chosen[u].lng
  /\ \A t \in Task : task[t].about = u =>
       /\ At(t, "settings") => task[t].mine.settings.lng = task[t].asked.lng
       /\ (At(t, "import") \/ At(t, "answer")) /\ task[t].mine # None
            => task[t].mine.settings.lng = chosen[u].lng
  /\ \A r \in Session : session[r] # None /\ session[r].of = u =>
       \/ session[r].settings.lng = chosen[u].lng
       \/ \E t \in Task : At(t, "answer") /\ task[t].about = u /\ task[t].session = r

KeptInv == \A u \in Person \ crossed : Kept(u)

SettingsInv == TypeOK /\ WorkInv /\ KeptInv
=============================================================================

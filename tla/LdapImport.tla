------------------------------ MODULE LdapImport ------------------------------
(***************************************************************************)
(* How one directory (LDAP) object is written into the portal's database.  *)
(*                                                                         *)
(* UserService.fromLdap imports a person in two halves: the profile        *)
(* (ProfileService.fromLdap, which first follows the "manager" attribute   *)
(* and imports the managers' profiles), then the user row.  Each half is a *)
(* lookup by loginGUID, an await, and a save; other imports of the same    *)
(* object run in between.  An import keeps the directory's answer it       *)
(* started from and writes that, however old it is by then.                *)
(*                                                                         *)
(* The row of the user table is protected by a unique index                *)
(* (user.entity.ts:31); the indexes of the profile table are not unique    *)
(* (profile.entity.ts:29-35), so a profile is a set of numbered rows here. *)
(*                                                                         *)
(* Lookups go to the read replica and saves to the master                  *)
(* (apps/sync/src/app.module.ts:93-98); with Replica = FALSE lookups go to *)
(* the master as well.  The portal keeps answers of the directory in a     *)
(* cache (apps/portal/src/app.module.ts:404-452), the synchronization does *)
(* not.                                                                    *)
(***************************************************************************)
EXTENDS Naturals, Sequences

CONSTANTS
  UserAccount,     \* directory objects of objectClass "user"
  ContactAccount,  \* directory objects of objectClass "contact": a profile only
  Manager,         \* the manager attribute: an account, or NoManager
  NoManager,
  Actor,           \* whoever runs imports: a login request, a synchronization
  Portal,          \* those among them whose searches a cache may answer
  MaxManagers,     \* how many managers are followed: 10 in the code
  Replica,         \* TRUE: lookups read a replica that may lag behind
  Cached,          \* bound: what of an account the cache may hold at first
  MaxRows,         \* bound: rows of one profile
  MaxChanges,      \* bound: changes made in the directory
  MaxFaults        \* bound: failed database or directory calls

Account == UserAccount \cup ContactAccount
Row     == 1..MaxRows
Status  == {"enabled", "disabled"}

ASSUME AccountAssumption == UserAccount \cap ContactAccount = {}
ASSUME ManagerAssumption ==
  /\ NoManager \notin Account
  /\ Manager \in [Account -> Account \cup {NoManager}]
ASSUME PortalAssumption == Portal \subseteq Actor
ASSUME CacheAssumption  == Cached \in [Account -> SUBSET (SUBSET Status)]
ASSUME BoundAssumption ==
  /\ MaxManagers \in Nat /\ MaxRows \in Nat /\ MaxRows > 0
  /\ MaxChanges \in Nat /\ MaxFaults \in Nat
  /\ Replica \in BOOLEAN

VARIABLES
  directory,    \* what the directory says of an account: userAccountControl & 2
  recent,       \* what it has said before and the portal's cache may still say
  user,         \* the row of the user table
  profile,      \* the rows of the profile table, numbered per account
  userCopy,     \* the read replica of user
  profileCopy,  \* the read replica of profile
  task,         \* the import each actor runs for each account
  everEnabled,  \* history: the accounts some source has shown enabled
  changes,      \* directory changes so far
  faults        \* failed calls so far

dbVars     == <<user, profile>>
copyVars   == <<userCopy, profileCopy>>
sourceVars == <<directory, recent, everEnabled, changes>>
importVars == <<directory, recent, user, profile, userCopy, profileCopy, task,
                everEnabled, changes, faults>>

Frame  == [account : Account, status : Status]
TaskPc == {"idle", "manager", "profileFind", "profileSave",
           "userFind", "userSave", "saved", "failed"}
Task   == [pc : TaskPc, stack : Seq(Frame), found : Nat]

IdleTask == [pc |-> "idle", stack |-> <<>>, found |-> 0]

TypeOK ==
  /\ directory \in [Account -> Status \cup {"absent"}]
  /\ recent \in [Account -> SUBSET (Status \cup {"absent"})]
  /\ user \in [UserAccount -> Status \cup {"none"}]
  /\ userCopy \in [UserAccount -> Status \cup {"none"}]
  /\ profile \in [Account -> [Row -> Status \cup {"none"}]]
  /\ profileCopy \in [Account -> [Row -> Status \cup {"none"}]]
  /\ task \in [Actor -> [Account -> Task]]
  /\ everEnabled \in SUBSET Account
  /\ changes \in Nat /\ faults \in Nat

-----------------------------------------------------------------------------
(* A person has both rows or none; a contact has at most a profile.  What   *)
(* the database and the cache hold may be older than what the directory     *)
(* says.                                                                    *)

(* A contact has no userAccountControl: nothing says that it is disabled.   *)
MaySay(a) == {"enabled", "absent"} \cup IF a \in UserAccount THEN {"disabled"} ELSE {}

NoRows   == [i \in Row |-> "none"]
OneRow(s) == [i \in Row |-> IF i = 1 THEN s ELSE "none"]

ImportInit ==
  /\ directory \in [Account -> Status \cup {"absent"}]
  /\ \A a \in Account : directory[a] \in MaySay(a)
  /\ recent \in {said \in [Account -> SUBSET Status] : \A a \in Account : said[a] \in Cached[a]}
  /\ \E stored \in [Account -> Status \cup {"none"}] :
       /\ user = [a \in UserAccount |-> stored[a]]
       /\ profile = [a \in Account |-> IF stored[a] = "none" THEN NoRows
                                       ELSE OneRow(stored[a])]
       /\ everEnabled = {a \in Account :
                           "enabled" \in {directory[a], stored[a]} \cup recent[a]}
  /\ userCopy = user /\ profileCopy = profile
  /\ task = [p \in Actor |-> [a \in Account |-> IdleTask]]
  /\ changes = 0 /\ faults = 0

Fault == faults < MaxFaults /\ faults' = faults + 1

At(p, a, pc) == task[p][a].pc = pc

(* The object being imported now: a manager, or the account itself.         *)
Current(p, a) == Head(task[p][a].stack)

Goto(p, a, pc) == task' = [task EXCEPT ![p][a].pc = pc]

Found(p, a, row, pc) ==
  task' = [task EXCEPT ![p][a] = [@ EXCEPT !.pc = pc, !.found = row]]

(* What a search by p may be told of an account.                            *)
Answers(p, a) == {directory[a]} \cup IF p \in Portal THEN recent[a] ELSE {}

(* The first step of fromLdap: the directory's answer is at hand.           *)
Started(a, status) ==
  [pc |-> "manager", stack |-> <<[account |-> a, status |-> status]>>, found |-> 0]

-----------------------------------------------------------------------------
(* ProfileService.fromLdap: managers first.  fromLdapDN searches the        *)
(* manager's DN and calls fromLdap with count + 1; a manager that is absent,*)
(* unreachable or beyond the limit is left out.                             *)

HasManager(p, a) ==
  LET x == Current(p, a).account
  IN  /\ Manager[x] \notin {NoManager, x}
      /\ Len(task[p][a].stack) <= MaxManagers

FollowManager(p, a) ==
  LET m == Manager[Current(p, a).account] IN
  /\ At(p, a, "manager") /\ HasManager(p, a)
  /\ \E s \in Answers(p, m) \ {"absent"} :
       task' = [task EXCEPT ![p][a].stack = <<[account |-> m, status |-> s]>> \o @]
  /\ UNCHANGED <<dbVars, copyVars, sourceVars, faults>>

LeaveManagerOut(p, a) ==
  /\ At(p, a, "manager")
  /\ IF HasManager(p, a) /\ "absent" \notin Answers(p, Manager[Current(p, a).account])
       THEN Fault
       ELSE UNCHANGED faults
  /\ Goto(p, a, "profileFind")
  /\ UNCHANGED <<dbVars, copyVars, sourceVars>>

(* ProfileService.byLoginGUID: any row with the GUID, as the replica has    *)
(* it; an error of the query is answered like "no such row".                *)

RowsRead(x) == LET read == IF Replica THEN profileCopy[x] ELSE profile[x]
               IN  {i \in Row : read[i] # "none"}

FindProfile(p, a) ==
  LET rows == RowsRead(Current(p, a).account) IN
  /\ At(p, a, "profileFind")
  /\ \/ /\ \E i \in IF rows = {} THEN {0} ELSE rows : Found(p, a, i, "profileSave")
        /\ UNCHANGED faults
     \/ Fault /\ Found(p, a, 0, "profileSave")
  /\ UNCHANGED <<dbVars, copyVars, sourceVars>>

(* Mutants of NextAfterProfile: the object was looked up before its manager *)
(* was imported; the finished manager is not left.                          *)
NextAfterProfile_EarlyLookup(p, a) ==
  IF Len(task[p][a].stack) > 1
    THEN [pc |-> "profileSave", stack |-> Tail(task[p][a].stack), found |-> 0]
    ELSE [pc |-> IF a \in UserAccount THEN "userFind" ELSE "saved",
          stack |-> task[p][a].stack, found |-> 0]

NextAfterProfile_Stays(p, a) ==
  IF Len(task[p][a].stack) > 1
    THEN [pc |-> "profileFind", stack |-> task[p][a].stack, found |-> 0]
    ELSE [pc |-> IF a \in UserAccount THEN "userFind" ELSE "saved",
          stack |-> task[p][a].stack, found |-> 0]

(* After a manager's profile the import goes on with the one it manages;    *)
(* a contact is done after its profile, a person goes on to the user row.   *)
NextAfterProfile(p, a) ==
  IF Len(task[p][a].stack) > 1
    THEN [pc |-> "profileFind", stack |-> Tail(task[p][a].stack), found |-> 0]
    ELSE [pc |-> IF a \in UserAccount THEN "userFind" ELSE "saved",
          stack |-> task[p][a].stack, found |-> 0]

NewRow(x, i) == profile[x][i] = "none" /\ \A j \in Row : j < i => profile[x][j] # "none"

SaveProfile(p, a) ==
  LET x == Current(p, a).account IN
  /\ At(p, a, "profileSave")
  /\ \E i \in Row :
       /\ IF task[p][a].found = 0 THEN NewRow(x, i) ELSE i = task[p][a].found
       /\ profile' = [profile EXCEPT ![x][i] = Current(p, a).status]
  /\ task' = [task EXCEPT ![p][a] = NextAfterProfile(p, a)]
  /\ UNCHANGED <<user, copyVars, sourceVars, faults>>

(* Mutant of SaveProfileFails: the user is saved without a profile.         *)
SaveProfileFails_GoesOn(p, a) ==
  /\ At(p, a, "profileSave") /\ Fault
  /\ task' = [task EXCEPT ![p][a] = NextAfterProfile(p, a)]
  /\ UNCHANGED <<dbVars, copyVars, sourceVars>>

(* A manager that cannot be saved is left out; without a profile of its own *)
(* the import fails.                                                        *)
SaveProfileFails(p, a) ==
  /\ At(p, a, "profileSave") /\ Fault
  /\ IF Len(task[p][a].stack) > 1
       THEN task' = [task EXCEPT ![p][a] = NextAfterProfile(p, a)]
       ELSE Goto(p, a, "failed")
  /\ UNCHANGED <<dbVars, copyVars, sourceVars>>

-----------------------------------------------------------------------------
(* UserService.fromLdap, after the profile: byLoginGUID with               *)
(* isDisabled = false finds blocked rows too, and any error means "new      *)
(* user"; an insert that meets an existing row fails on the unique index.   *)

UserRead(a) == IF Replica THEN userCopy[a] ELSE user[a]

FindUser(p, a) ==
  /\ At(p, a, "userFind")
  /\ \/ /\ Found(p, a, IF UserRead(a) = "none" THEN 0 ELSE 1, "userSave")
        /\ UNCHANGED faults
     \/ Fault /\ Found(p, a, 0, "userSave")
  /\ UNCHANGED <<dbVars, copyVars, sourceVars>>

Conflicts(p, a) == task[p][a].found = 0 /\ user[a] # "none"

SaveUser(p, a) ==
  /\ At(p, a, "userSave") /\ ~Conflicts(p, a)
  /\ user' = [user EXCEPT ![a] = Current(p, a).status]
  /\ Goto(p, a, "saved")
  /\ UNCHANGED <<profile, copyVars, sourceVars, faults>>

SaveUserFails(p, a) ==
  /\ At(p, a, "userSave")
  /\ IF Conflicts(p, a) THEN UNCHANGED faults ELSE Fault
  /\ Goto(p, a, "failed")
  /\ UNCHANGED <<dbVars, copyVars, sourceVars>>

ImportStep(p, a) ==
  \/ FollowManager(p, a)
  \/ LeaveManagerOut(p, a)
  \/ FindProfile(p, a)
  \/ SaveProfile(p, a)
  \/ SaveProfileFails(p, a)
  \/ a \in UserAccount /\ (FindUser(p, a) \/ SaveUser(p, a) \/ SaveUserFails(p, a))

-----------------------------------------------------------------------------
(* AuthService.login: the directory authenticates the person and its answer *)
(* is imported; the request is answered when the import has ended.  One     *)
(* request is one actor, and imports one account at a time.                 *)

Login(p, a) ==
  /\ a \in UserAccount
  /\ \A b \in Account : At(p, b, "idle")
  /\ \E s \in Answers(p, a) \ {"absent"} : task' = [task EXCEPT ![p][a] = Started(a, s)]
  /\ UNCHANGED <<dbVars, copyVars, sourceVars, faults>>

Answer(p, a) ==
  /\ \/ At(p, a, "saved")
     \/ At(p, a, "failed")
  /\ task' = [task EXCEPT ![p][a] = IdleTask]
  /\ UNCHANGED <<dbVars, copyVars, sourceVars, faults>>

LoginStep(p) == \E a \in Account : Login(p, a) \/ Answer(p, a)

(* The environment: administrators of the directory, and replication.  The  *)
(* cache may hold what was said before.                                     *)
Says(a, s) ==
  /\ s \in MaySay(a)
  /\ directory' = [directory EXCEPT ![a] = s]
  /\ recent' = IF Portal = {} THEN recent
               ELSE [recent EXCEPT ![a] = @ \cup {directory[a]}]
  /\ everEnabled' = IF s = "enabled" THEN everEnabled \cup {a} ELSE everEnabled

ChangeDirectory(a, s) ==
  /\ changes < MaxChanges /\ s # directory[a]
  /\ Says(a, s)
  /\ changes' = changes + 1
  /\ UNCHANGED <<dbVars, copyVars, task, faults>>

Replicate ==
  /\ Replica
  /\ userCopy' = user /\ profileCopy' = profile
  /\ UNCHANGED <<dbVars, sourceVars, task, faults>>

Environment ==
  \/ \E a \in Account, s \in Status \cup {"absent"} : ChangeDirectory(a, s)
  \/ Replicate

Next ==
  \/ \E p \in Actor, a \in Account : ImportStep(p, a)
  \/ \E p \in Actor : LoginStep(p)
  \/ Environment

Spec == ImportInit /\ [][Next]_importVars

-----------------------------------------------------------------------------
(* Properties.                                                              *)

(* An account is given access in the portal only if the directory, or what  *)
(* the portal stored before, has at some time said "enabled": no order of   *)
(* lookups, stale answers, manager imports and failures invents access.     *)
AccessComesFromDirectory ==
  \A a \in Account :
    a \notin everEnabled =>
      /\ a \in UserAccount => user[a] # "enabled"
      /\ \A i \in Row : profile[a][i] # "enabled"

(* A user row never exists without a profile row: fromLdap saves the        *)
(* profile first and gives up on the user when that fails.                  *)
UserHasProfile ==
  \A a \in UserAccount : user[a] # "none" => \E i \in Row : profile[a][i] # "none"

(* Every import ends, whatever the managers form: count bounds the descent  *)
(* and every branch of the two fromLdap answers.                            *)
ImportEnds ==
  \A p \in Actor, a \in Account : ~At(p, a, "idle") ~> At(p, a, "idle")

-----------------------------------------------------------------------------
(* The inductive invariant behind AccessComesFromDirectory and              *)
(* UserHasProfile.                                                          *)

(* The last frame of a running import is the account itself; the managers   *)
(* above it are gone by the time the user row is looked up.                 *)
StackInv == \A p \in Actor, a \in Account :
  LET stack == task[p][a].stack IN
  /\ ~At(p, a, "idle") => Len(stack) >= 1 /\ stack[Len(stack)].account = a
  /\ At(p, a, "userFind") \/ At(p, a, "userSave") => Len(stack) = 1

(* "enabled" is nowhere on its way to an account that never was.            *)
OriginInv ==
  /\ \A a \in Account : a \notin everEnabled =>
       /\ directory[a] # "enabled" /\ "enabled" \notin recent[a]
       /\ a \in UserAccount => userCopy[a] # "enabled"
       /\ \A i \in Row : profileCopy[a][i] # "enabled"
  /\ \A p \in Actor, b \in Account : \A k \in 1..Len(task[p][b].stack) :
       task[p][b].stack[k].status = "enabled" =>
         task[p][b].stack[k].account \in everEnabled

(* Whoever is about to write a user row has written a profile row.          *)
ProfileFirstInv == \A p \in Actor, a \in UserAccount :
  At(p, a, "userFind") \/ At(p, a, "userSave")
    => \E i \in Row : profile[a][i] # "none"

ImportInv ==
  /\ TypeOK /\ StackInv
  /\ AccessComesFromDirectory /\ OriginInv
  /\ UserHasProfile /\ ProfileFirstInv

(* Who has been imported is in the tables.                                  *)
SavedInv == \A p \in Actor, a \in Account :
  At(p, a, "saved") =>
    /\ \E i \in Row : profile[a][i] # "none"
    /\ a \in UserAccount => user[a] # "none"
=============================================================================

---------------------------- MODULE DirectorySync ----------------------------
(***************************************************************************)
(* SyncService.synchronization (apps/sync/src/app.service.ts): every       *)
(* account of every LDAP domain is imported, then the portal's profiles    *)
(* and users that were not imported lose their access and the others keep  *)
(* it.  Nothing keeps two synchronizations, or a synchronization and the   *)
(* logins of the portal, apart: they meet in the database.                 *)
(*                                                                         *)
(* A run is one call of synchronization.  Its imports are the tasks of     *)
(* module LdapImport, all started together (map over async functions) and  *)
(* awaited together (Promise.allSettled).  The updates that block and      *)
(* grant access are started together too, but they are not awaited: the    *)
(* array handed to the last Promise.allSettled holds two arrays, which are *)
(* not promises.                                                           *)
(*                                                                         *)
(* The groups phase writes other tables; here it either passes or ends the *)
(* run.                                                                    *)
(***************************************************************************)
EXTENDS LdapImport

CONSTANTS
  Run,       \* calls of synchronization: the actors that are not logins
  Domain,    \* the configured LDAP domains
  DomainOf   \* the domain an account lives in

ASSUME RunAssumption    == Run \subseteq Actor \ Portal
ASSUME DomainAssumption == DomainOf \in [Account -> Domain]

VARIABLES
  run,             \* how far each run is
  answer,          \* what its caller was told
  listing,         \* the answer of each domain's search
  seen,            \* each account, as the search of its domain showed it
  profileUpdates,  \* updates of profile rows started and not yet executed
  userUpdates      \* updates of user rows started and not yet executed

syncVars == <<run, answer, listing, seen, profileUpdates, userUpdates>>
vars     == <<importVars, syncVars>>

RunPc == {"idle", "listing", "importing", "users", "done", "crashed"}

SyncTypeOK ==
  /\ TypeOK
  /\ run \in [Run -> RunPc]
  /\ answer \in [Run -> {"none", "true", "false"}]
  /\ listing \in [Run -> [Domain -> {"unread", "ok", "error"}]]
  /\ seen \in [Run -> [Account -> Status \cup {"absent"}]]
  /\ profileUpdates \in [Run -> SUBSET (Account \X Row)]
  /\ userUpdates \in [Run -> SUBSET UserAccount]

SyncInit ==
  /\ ImportInit
  /\ run = [r \in Run |-> "idle"]
  /\ answer = [r \in Run |-> "none"]
  /\ listing = [r \in Run |-> [d \in Domain |-> "unread"]]
  /\ seen = [r \in Run |-> [a \in Account |-> "absent"]]
  /\ profileUpdates = [r \in Run |-> {}]
  /\ userUpdates = [r \in Run |-> {}]

Become(r, pc) == run' = [run EXCEPT ![r] = pc]

Return(r, value) ==
  /\ Become(r, "done")
  /\ answer' = [answer EXCEPT ![r] = value]

-----------------------------------------------------------------------------
(* syncGroup, as far as it decides whether the run goes on.                 *)
SyncGroups(r) ==
  /\ run[r] = "idle"
  /\ \/ Become(r, "listing") /\ UNCHANGED <<answer, faults>>
     \/ Return(r, "false") /\ Fault
  /\ UNCHANGED <<dbVars, copyVars, sourceVars, task,
                 listing, seen, profileUpdates, userUpdates>>

(* ldapService.synchronization: one search per domain, each answering at    *)
(* its own time with entries or with an Error.                              *)
ListDomain(r, d) ==
  /\ run[r] = "listing" /\ listing[r][d] = "unread"
  /\ \/ /\ listing' = [listing EXCEPT ![r][d] = "ok"]
        /\ seen' = [seen EXCEPT ![r] =
             [a \in Account |-> IF DomainOf[a] = d THEN directory[a] ELSE @[a]]]
        /\ UNCHANGED faults
     \/ /\ listing' = [listing EXCEPT ![r][d] = "error"]
        /\ UNCHANGED seen /\ Fault
  /\ UNCHANGED <<dbVars, copyVars, sourceVars, task,
                 run, answer, profileUpdates, userUpdates>>

(* Mutant of Listed: only a domain that succeeded counts as answered.       *)
Listed_Succeeded(r) == \A d \in Domain : listing[r][d] = "ok"

Listed(r)   == \A d \in Domain : listing[r][d] # "unread"
IsNormal(r) == \A d \in Domain : listing[r][d] = "ok"

(* Mutant of StartImports: one domain that answered is enough.              *)
StartImports_OneDomain(r) ==
  /\ run[r] = "listing" /\ Listed(r) /\ \E d \in Domain : listing[r][d] = "ok"
  /\ Become(r, "importing")
  /\ task' = [task EXCEPT ![r] =
       [a \in Account |-> IF seen[r][a] = "absent" THEN IdleTask
                          ELSE Started(a, seen[r][a])]]
  /\ UNCHANGED <<dbVars, copyVars, sourceVars, faults,
                 answer, listing, seen, profileUpdates, userUpdates>>

StartImports(r) ==
  /\ run[r] = "listing" /\ Listed(r) /\ IsNormal(r)
  /\ Become(r, "importing")
  /\ task' = [task EXCEPT ![r] =
       [a \in Account |-> IF seen[r][a] = "absent" THEN IdleTask
                          ELSE Started(a, seen[r][a])]]
  /\ UNCHANGED <<dbVars, copyVars, sourceVars, faults,
                 answer, listing, seen, profileUpdates, userUpdates>>

(* syncUser throws 'No users found' as soon as one domain has failed.       *)
NoUsersFound(r) ==
  /\ run[r] = "listing" /\ Listed(r) /\ ~IsNormal(r)
  /\ Return(r, "false")
  /\ UNCHANGED <<importVars, listing, seen, profileUpdates, userUpdates>>

-----------------------------------------------------------------------------
(* Promise.allSettled over the imports, then allProfiles and allUsers, which*)
(* read the rows that are not disabled; each row read gets an update.       *)

(* Mutants: the first import that settles ends the wait; everything that    *)
(* did not fail counts as imported; the listing decides in place of the     *)
(* import; blocked users are read too.                                      *)
Settled_First(r)       == \E a \in Account : task[r][a].pc \in {"saved", "failed"}
Imported_NotFailed(r, a) == ~At(r, a, "failed")
Verdict_Listed(r, a)   == IF seen[r][a] # "absent" THEN "enabled" ELSE "disabled"
EnabledUsers_Everyone  == {a \in UserAccount : UserRead(a) # "none"}

Settled(r)     == \A a \in Account : task[r][a].pc \in {"idle", "saved", "failed"}
Imported(r, a) == At(r, a, "saved")
Verdict(r, a)  == IF Imported(r, a) THEN "enabled" ELSE "disabled"

EnabledProfiles ==
  LET read == IF Replica THEN profileCopy ELSE profile
  IN  {x \in Account \X Row : read[x[1]][x[2]] = "enabled"}

EnabledUsers == {a \in UserAccount : UserRead(a) = "enabled"}

BlockProfiles(r) ==
  /\ run[r] = "importing" /\ Settled(r)
  /\ \/ /\ Become(r, "users")
        /\ profileUpdates' = [profileUpdates EXCEPT ![r] = EnabledProfiles]
        /\ UNCHANGED <<answer, faults>>
     \/ /\ Return(r, "false")
        /\ UNCHANGED profileUpdates /\ Fault
  /\ UNCHANGED <<dbVars, copyVars, sourceVars, task, listing, seen, userUpdates>>

(* The updates of users are started and the run answers at once.  When      *)
(* allUsers fails the run answers false, its profile updates still running. *)
BlockUsers(r) ==
  /\ run[r] = "users"
  /\ \/ /\ Return(r, "true")
        /\ userUpdates' = [userUpdates EXCEPT ![r] = EnabledUsers]
        /\ UNCHANGED faults
     \/ /\ Return(r, "false")
        /\ UNCHANGED userUpdates /\ Fault
  /\ UNCHANGED <<dbVars, copyVars, sourceVars, task, listing, seen, profileUpdates>>

UpdateProfile(r, a, i) ==
  /\ <<a, i>> \in profileUpdates[r]
  /\ profile' = [profile EXCEPT ![a][i] = Verdict(r, a)]
  /\ profileUpdates' = [profileUpdates EXCEPT ![r] = @ \ {<<a, i>>}]
  /\ UNCHANGED <<user, copyVars, sourceVars, task, faults,
                 run, answer, listing, seen, userUpdates>>

UpdateUser(r, a) ==
  /\ a \in userUpdates[r]
  /\ user' = [user EXCEPT ![a] = Verdict(r, a)]
  /\ userUpdates' = [userUpdates EXCEPT ![r] = @ \ {a}]
  /\ UNCHANGED <<profile, copyVars, sourceVars, task, faults,
                 run, answer, listing, seen, profileUpdates>>

(* The service stops: it is killed, or an update fails.  Nobody handles the *)
(* rejection of an update, and Node 15 ends the process on an unhandled     *)
(* rejection; every run of the process loses what it had not executed.      *)
Unfinished(r) == \/ run[r] \in {"listing", "importing", "users"}
                 \/ profileUpdates[r] # {} \/ userUpdates[r] # {}

Crash ==
  /\ \E r \in Run : Unfinished(r)
  /\ Fault
  /\ run' = [r \in Run |-> IF Unfinished(r) THEN "crashed" ELSE run[r]]
  /\ task' = [p \in Actor |-> IF p \in Run THEN [a \in Account |-> IdleTask]
                              ELSE task[p]]
  /\ profileUpdates' = [r \in Run |-> {}]
  /\ userUpdates' = [r \in Run |-> {}]
  /\ UNCHANGED <<dbVars, copyVars, sourceVars, answer, listing, seen>>

-----------------------------------------------------------------------------
RunStep(r) ==
  \/ SyncGroups(r)
  \/ \E d \in Domain : ListDomain(r, d)
  \/ StartImports(r)
  \/ NoUsersFound(r)
  \/ BlockProfiles(r)
  \/ BlockUsers(r)

UpdateStep(r) ==
  \/ \E a \in Account, i \in Row : UpdateProfile(r, a, i)
  \/ \E a \in UserAccount : UpdateUser(r, a)

PortalStep ==
  /\ \/ \E p \in Actor, a \in Account : ImportStep(p, a)
     \/ \E p \in Actor \ Run : LoginStep(p)
     \/ Environment
  /\ UNCHANGED syncVars

SyncNext ==
  \/ PortalStep
  \/ \E r \in Run : RunStep(r) \/ UpdateStep(r)
  \/ Crash

SyncSpec == SyncInit /\ [][SyncNext]_vars

-----------------------------------------------------------------------------
(* Properties.                                                              *)

Drained(r) == profileUpdates[r] = {} /\ userUpdates[r] = {}

(* An update that takes access away is only ever pending when every domain  *)
(* answered and the account was missing from the answers or could not be    *)
(* imported: a row is never judged while its import is still under way.     *)
BlockingIsJustified ==
  \A r \in Run, a \in Account :
    /\ a \in userUpdates[r] \/ \E i \in Row : <<a, i>> \in profileUpdates[r]
    /\ ~Imported(r, a)
    => IsNormal(r) /\ (seen[r][a] = "absent" \/ At(r, a, "failed"))

(* Every started run answers or dies with its process, and every update it  *)
(* started is executed or dies with it.                                     *)
RunEnds ==
  \A r \in Run : run[r] # "idle" ~> run[r] \in {"done", "crashed"} /\ Drained(r)

(* Whoever is missing from the directory loses access after a run that      *)
(* answered true, although the answer does not wait for it, unless the       *)
(* service stops before.                                                    *)
MissingLoseAccess ==
  \A r \in Run, a \in UserAccount :
    answer[r] = "true" /\ seen[r][a] = "absent"
      ~> user[a] # "enabled" \/ run[r] = "crashed"

-----------------------------------------------------------------------------
(* The inductive invariant behind BlockingIsJustified and, with ImportInv,  *)
(* behind AccessComesFromDirectory.                                         *)

(* A run starts updates only after every listed account has been imported   *)
(* or given up, and what it judges by no longer changes then.               *)
JudgeInv == \A r \in Run :
  /\ run[r] \notin {"users", "done"} => Drained(r)
  /\ run[r] \in {"importing", "users"} \/ ~Drained(r) =>
       /\ IsNormal(r)
       /\ \A a \in Account : seen[r][a] # "absent" => ~At(r, a, "idle")
  /\ run[r] = "users" \/ ~Drained(r) => Settled(r)

(* Answers of the directory and rows about to be updated have a source.     *)
GrantInv == \A r \in Run, a \in Account :
  /\ seen[r][a] = "enabled" => a \in everEnabled
  /\ a \in userUpdates[r] => a \in everEnabled
  /\ \A i \in Row : <<a, i>> \in profileUpdates[r] => a \in everEnabled

(* Whoever has a user row somewhere, or one about to be updated, has a      *)
(* profile row.                                                             *)
UserRowInv == \A a \in UserAccount :
  userCopy[a] # "none" \/ (\E r \in Run : a \in userUpdates[r])
    => \E i \in Row : profile[a][i] # "none"

SyncInv == SyncTypeOK /\ ImportInv /\ JudgeInv /\ GrantInv /\ UserRowInv

-----------------------------------------------------------------------------
(* Imports only run while the run waits for them.                           *)
PhaseInv == \A r \in Run :
  /\ run[r] \in {"idle", "listing"} => \A a \in Account : At(r, a, "idle")
  /\ run[r] # "importing" => Settled(r)
=============================================================================

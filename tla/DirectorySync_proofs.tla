------------------------- MODULE DirectorySync_proofs -------------------------
(***************************************************************************)
(* Proofs about DirectorySync, for any number of runs, logins, accounts    *)
(* and domains: SyncInv is inductive.  From it follow that an update that  *)
(* takes access away is justified by what the run has seen, and that       *)
(* granting access never gives it to an account the directory never had    *)
(* enabled.                                                                *)
(* With SteadyInv it also follows that access is taken from nobody without *)
(* an excuse: SteadyAccess implements Access.                              *)
(***************************************************************************)
EXTENDS SyncRpc, SteadyAccess, LdapImport_proofs

(* The steps of the portal leave the runs alone.                            *)
LEMMA PortalKeeps ==
  ASSUME SyncInv, PortalStep
  PROVE  SyncInv'
<1> USE DEF SyncInv
<1>1. SyncTypeOK /\ TypeOK /\ StackInv /\ UNCHANGED syncVars
  BY DEF PortalStep, SyncTypeOK, ImportInv
<1>2. ASSUME ImportInv',
             \A r \in Run, a \in Account :
               /\ ~At(r, a, "idle") => ~At(r, a, "idle")'
               /\ task[r][a].pc \in {"idle", "saved", "failed"}
                    => task'[r][a].pc \in {"idle", "saved", "failed"},
             everEnabled \subseteq everEnabled',
             \A x \in Account, i \in Row :
               profile[x][i] # "none" => profile'[x][i] # "none",
             UNCHANGED userCopy \/ userCopy' = user
      PROVE  SyncInv'
  <2>1. SyncTypeOK'
    BY <1>1, <1>2 DEF SyncTypeOK, syncVars, ImportInv
  <2>2. JudgeInv'
    BY <1>1, <1>2 DEF JudgeInv, Drained, IsNormal, Settled, syncVars
  <2>3. GrantInv'
    BY <1>1, <1>2 DEF GrantInv, syncVars
  <2>4. UserRowInv'
    <3>1. \A a \in UserAccount : a \in Account
      BY DEF Account
    <3>2. UserHasProfile /\ UNCHANGED userUpdates
      BY <1>1 DEF ImportInv, syncVars
    <3>3. \A a \in UserAccount :
            userCopy'[a] # "none" => userCopy[a] # "none" \/ user[a] # "none"
      BY <1>2
    <3>4. QED
      BY <1>2, <3>1, <3>2, <3>3 DEF UserRowInv, UserHasProfile
  <2>5. QED
    BY <1>2, <2>1, <2>2, <2>3, <2>4
<1>3. ASSUME NEW p \in Actor, NEW a \in Account, ImportStep(p, a) PROVE SyncInv'
  <2>1. ImportInv'
    BY <1>3, ImportStepKeeps
  <2>2. PICK t : task' = [task EXCEPT ![p][a] = t] /\ WellStacked(t, a)
    BY <1>1, <1>3, ImportStepTask
  <2>3. t \in Task /\ t.pc # "idle"
    BY <2>2 DEF WellStacked
  <2>4. /\ task'[p][a] = t
        /\ \A q \in Actor, b \in Account : q # p \/ b # a => task'[q][b] = task[q][b]
    <3>1. TypeOK /\ t \in Task /\ task' = [task EXCEPT ![p][a] = t]
      BY <1>1, <2>2, <2>3
    <3>2. QED
      BY ONLY <3>1, SetTask, ZenonT(30)
  <2>5. task[p][a].pc \notin {"idle", "saved", "failed"}
    BY <1>3, StepIsActive
  <2>6. everEnabled' = everEnabled
    BY <1>3 DEF ImportStep, FollowManager, LeaveManagerOut, FindProfile, SaveProfile,
           SaveProfileFails, FindUser, SaveUser, SaveUserFails, sourceVars
  <2>7. \A r \in Run, b \in Account :
          /\ ~At(r, b, "idle") => ~At(r, b, "idle")'
          /\ task[r][b].pc \in {"idle", "saved", "failed"}
               => task'[r][b].pc \in {"idle", "saved", "failed"}
    BY <2>3, <2>4, <2>5, RunAssumption DEF At
  <2>8. UNCHANGED userCopy
    BY <1>3 DEF ImportStep, FollowManager, LeaveManagerOut, FindProfile, SaveProfile,
           SaveProfileFails, FindUser, SaveUser, SaveUserFails, copyVars
  <2>9. \A x \in Account, i \in Row : profile[x][i] # "none" => profile'[x][i] # "none"
    BY <1>1, <1>3, RowsStay
  <2>10. QED
    BY <1>2, <2>1, <2>6, <2>7, <2>8, <2>9
<1>4. ASSUME NEW p \in Actor \ Run, LoginStep(p) PROVE SyncInv'
  <2>1. ImportInv'
    BY <1>4, LoginStepKeeps
  <2>2. \A r \in Run : task'[r] = task[r]
    BY <1>1, <1>4, RunAssumption DEF LoginStep, Login, Answer, TypeOK
  <2>3. UNCHANGED <<everEnabled, profile, userCopy>>
    BY <1>4 DEF LoginStep, Login, Answer, sourceVars, dbVars, copyVars
  <2>4. QED
    BY <1>2, <2>1, <2>2, <2>3 DEF At
<1>5. ASSUME Environment PROVE SyncInv'
  <2>1. ImportInv'
    BY <1>5, EnvironmentKeeps
  <2>2. /\ UNCHANGED <<task, profile>> /\ everEnabled \subseteq everEnabled'
        /\ UNCHANGED userCopy \/ userCopy' = user
    BY <1>5 DEF Environment, ChangeDirectory, Says, Replicate, sourceVars, dbVars, copyVars
  <2>3. QED
    BY <1>2, <2>1, <2>2 DEF At
<1>6. QED
  BY <1>3, <1>4, <1>5 DEF PortalStep

-----------------------------------------------------------------------------
(* The steps of a run up to its answer.                                     *)

LEMMA SyncGroupsKeeps ==
  ASSUME SyncInv, NEW r \in Run, SyncGroups(r)
  PROVE  SyncInv'
<1> USE DEF SyncInv, SyncGroups, Become, Return, Fault
<1>1. faults' \in Nat
  BY DEF SyncTypeOK, TypeOK
<1>2. ImportInv'
  BY <1>1, OnlyFaults
<1>3. SyncTypeOK'
  BY <1>2 DEF SyncTypeOK, ImportInv, RunPc
<1>4. JudgeInv'
  BY DEF JudgeInv, Drained, IsNormal, Settled, At, SyncTypeOK
<1>5. GrantInv'
  BY DEF GrantInv, sourceVars
<1>6. UserRowInv'
  BY DEF UserRowInv, dbVars, copyVars
<1>7. QED
  BY <1>2, <1>3, <1>4, <1>5, <1>6

LEMMA ListDomainKeeps ==
  ASSUME SyncInv, NEW r \in Run, NEW d \in Domain, ListDomain(r, d)
  PROVE  SyncInv'
<1> USE DEF SyncInv, ListDomain, Fault
<1>1. faults' \in Nat
  BY DEF SyncTypeOK, TypeOK
<1>2. ImportInv'
  BY <1>1, OnlyFaults
<1>3. SyncTypeOK'
  <2>1. directory \in [Account -> Status \cup {"absent"}]
    BY DEF SyncTypeOK, TypeOK
  <2>2. listing' \in [Run -> [Domain -> {"unread", "ok", "error"}]]
    <3>1. ASSUME NEW v \in {"ok", "error"}, listing' = [listing EXCEPT ![r][d] = v]
          PROVE  listing' \in [Run -> [Domain -> {"unread", "ok", "error"}]]
      BY <3>1 DEF SyncTypeOK
    <3>2. QED
      BY <3>1
  <2>3. seen' \in [Run -> [Account -> Status \cup {"absent"}]]
    <3>1. seen[r] \in [Account -> Status \cup {"absent"}]
      BY DEF SyncTypeOK
    <3>2. [a \in Account |-> IF DomainOf[a] = d THEN directory[a] ELSE seen[r][a]]
            \in [Account -> Status \cup {"absent"}]
      BY <2>1, <3>1
    <3>3. QED
      BY <3>2 DEF SyncTypeOK
  <2>4. QED
    BY <1>2, <2>2, <2>3 DEF SyncTypeOK, ImportInv
<1>4. JudgeInv'
  <2>1. Drained(r) /\ run[r] = "listing" /\ UNCHANGED <<run, task, profileUpdates, userUpdates>>
    BY DEF JudgeInv
  <2>2. \A q \in Run : q # r => listing'[q] = listing[q] /\ seen'[q] = seen[q]
    BY DEF SyncTypeOK
  <2>3. ASSUME NEW q \in Run PROVE run[q] \notin {"users", "done"} => Drained(q)'
    BY <2>1 DEF JudgeInv, Drained
  <2>4. ASSUME NEW q \in Run, run[q] \in {"importing", "users"} \/ ~Drained(q)
        PROVE  /\ IsNormal(q)'
               /\ \A a \in Account : seen'[q][a] # "absent" => ~At(q, a, "idle")'
    <3>1. q # r
      BY <2>1, <2>4
    <3>2. QED
      BY <2>1, <2>2, <2>4, <3>1 DEF JudgeInv, IsNormal, At
  <2>5. ASSUME NEW q \in Run, run[q] = "users" \/ ~Drained(q) PROVE Settled(q)'
    BY <2>1, <2>5 DEF JudgeInv, Settled
  <2>6. run' = run /\ \A q \in Run : Drained(q)' <=> Drained(q)
    BY <2>1 DEF Drained
  <2> HIDE DEF ListDomain
  <2>7. QED
    BY <2>3, <2>4, <2>5, <2>6, Zenon DEF JudgeInv
<1>5. GrantInv'
  <2>1. \A a \in Account : directory[a] = "enabled" => a \in everEnabled
    BY DEF ImportInv, OriginInv
  <2>2. \A q \in Run, a \in Account : seen'[q][a] = "enabled" => a \in everEnabled
    <3>1. \A q \in Run, a \in Account : seen'[q][a] \in {seen[q][a], directory[a]}
      BY DEF SyncTypeOK
    <3>2. \A q \in Run, a \in Account : seen[q][a] = "enabled" => a \in everEnabled
      BY DEF GrantInv
    <3> HIDE DEF ListDomain
    <3>3. QED
      BY <2>1, <3>1, <3>2
  <2>3. QED
    BY <2>2 DEF GrantInv, sourceVars
<1>6. UserRowInv'
  BY DEF UserRowInv, dbVars, copyVars
<1>7. QED
  BY <1>2, <1>3, <1>4, <1>5, <1>6

LEMMA NoUsersFoundKeeps ==
  ASSUME SyncInv, NEW r \in Run, NoUsersFound(r)
  PROVE  SyncInv'
<1> USE DEF SyncInv, NoUsersFound, Become, Return
<1>1. ImportInv' /\ UNCHANGED importVars
  BY OnlyFaults DEF importVars, dbVars, copyVars, sourceVars, SyncTypeOK, TypeOK
<1>2. SyncTypeOK'
  BY <1>1 DEF SyncTypeOK, ImportInv, RunPc
<1>3. JudgeInv'
  BY <1>1 DEF JudgeInv, Drained, IsNormal, Settled, At, SyncTypeOK, importVars
<1>4. GrantInv'
  BY <1>1 DEF GrantInv, importVars
<1>5. UserRowInv'
  BY <1>1 DEF UserRowInv, importVars
<1>6. QED
  BY <1>1, <1>2, <1>3, <1>4, <1>5

LEMMA StartImportsKeeps ==
  ASSUME SyncInv, NEW r \in Run, StartImports(r)
  PROVE  SyncInv'
<1> USE DEF SyncInv
<1>1. /\ r \in Actor /\ run[r] = "listing"
      /\ UNCHANGED <<dbVars, copyVars, sourceVars, faults, answer, listing, seen,
                     profileUpdates, userUpdates>>
  BY RunAssumption DEF StartImports
<1>2. /\ TypeOK /\ faults' \in Nat
      /\ seen[r] \in [Account -> Status \cup {"absent"}]
  BY <1>1 DEF SyncTypeOK, TypeOK
<1> DEFINE First(a) == IF seen[r][a] = "absent" THEN IdleTask ELSE Started(a, seen[r][a])
<1>3. task' = [task EXCEPT ![r] = [a \in Account |-> First(a)]]
  BY DEF StartImports
<1>4. \A a \in Account : FreshTask(First(a), a)
  BY <1>2 DEF FreshTask, GrantInv
<1>5. \A a \in Account : First(a) \in Task
  BY <1>4, FreshIsSound
<1>6. \A a \in Account : seen[r][a] # "absent" => First(a).pc = "manager"
  BY DEF Started
<1> HIDE DEF First
<1>7. /\ task' \in [Actor -> [Account -> Task]]
      /\ \A a \in Account : task'[r][a] = First(a)
      /\ \A p \in Actor : p # r => task'[p] = task[p]
  BY <1>1, <1>2, <1>3, <1>5 DEF TypeOK
<1>8. ImportInv'
  BY <1>1, <1>2, <1>4, <1>7, TasksReplaced
<1>9. SyncTypeOK'
  BY <1>1, <1>8 DEF SyncTypeOK, StartImports, Become, RunPc, ImportInv
<1>10. /\ run'[r] = "importing"
       /\ \A q \in Run : q # r => run'[q] = run[q] /\ task'[q] = task[q]
  BY <1>7, RunAssumption DEF SyncTypeOK, StartImports, Become
<1>11. JudgeInv'
  <2>1. ASSUME NEW q \in Run, q # r
        PROVE  /\ Drained(q)' <=> Drained(q)
               /\ IsNormal(q)' <=> IsNormal(q)
               /\ Settled(q)' <=> Settled(q)
               /\ \A a \in Account : At(q, a, "idle")' <=> At(q, a, "idle")
               /\ run'[q] = run[q] /\ seen'[q] = seen[q]
    BY <1>1, <1>10, <2>1 DEF Drained, IsNormal, Settled, At
  <2>2. Drained(r)' /\ IsNormal(r)'
    BY <1>1 DEF JudgeInv, Drained, IsNormal, StartImports
  <2>3. \A a \in Account : seen'[r][a] # "absent" => ~At(r, a, "idle")'
    BY <1>1, <1>6, <1>7 DEF At
  <2>4. QED
    BY <1>10, <2>1, <2>2, <2>3 DEF JudgeInv
<1>12. GrantInv' /\ UserRowInv'
  BY <1>1 DEF GrantInv, UserRowInv, dbVars, copyVars, sourceVars
<1>13. QED
  BY <1>8, <1>9, <1>11, <1>12

(* A row the run reads as enabled belongs to an account that was.           *)
LEMMA ReadRowsWereEnabled ==
  ASSUME SyncInv
  PROVE  /\ EnabledProfiles \subseteq Account \X Row
         /\ EnabledUsers \subseteq UserAccount
         /\ \A a \in Account, i \in Row : <<a, i>> \in EnabledProfiles => a \in everEnabled
         /\ \A a \in EnabledUsers : a \in everEnabled
<1>1. /\ \A a \in Account : a \notin everEnabled =>
            \A i \in Row : profile[a][i] # "enabled" /\ profileCopy[a][i] # "enabled"
      /\ \A a \in UserAccount : a \notin everEnabled =>
            user[a] # "enabled" /\ userCopy[a] # "enabled"
  BY DEF SyncInv, ImportInv, OriginInv, AccessComesFromDirectory, Account
<1>2. \A a \in Account, i \in Row : <<a, i>> \in EnabledProfiles =>
        profile[a][i] = "enabled" \/ profileCopy[a][i] = "enabled"
  BY DEF EnabledProfiles
<1>3. \A a \in EnabledUsers : user[a] = "enabled" \/ userCopy[a] = "enabled"
  BY DEF EnabledUsers, UserRead
<1>4. QED
  BY <1>1, <1>2, <1>3 DEF EnabledProfiles, EnabledUsers, Account

LEMMA BlockProfilesKeeps ==
  ASSUME SyncInv, NEW r \in Run, BlockProfiles(r)
  PROVE  SyncInv'
<1> USE DEF SyncInv
<1>1. /\ run[r] = "importing" /\ Settled(r)
      /\ UNCHANGED <<dbVars, copyVars, sourceVars, task, listing, seen, userUpdates>>
      /\ faults' \in Nat
      /\ run' = [run EXCEPT ![r] = "users"] \/ run' = [run EXCEPT ![r] = "done"]
      /\ answer' = answer \/ answer' = [answer EXCEPT ![r] = "false"]
      /\ \/ profileUpdates' = [profileUpdates EXCEPT ![r] = EnabledProfiles]
         \/ profileUpdates' = profileUpdates
      /\ run' = [run EXCEPT ![r] = "done"] => profileUpdates' = profileUpdates
  BY DEF BlockProfiles, Become, Return, Fault, SyncTypeOK, TypeOK
<1>2. ImportInv'
  BY <1>1, OnlyFaults
<1>3. /\ \A q \in Run : q # r => run'[q] = run[q] /\ profileUpdates'[q] = profileUpdates[q]
      /\ run'[r] \in {"users", "done"}
      /\ profileUpdates'[r] \in {profileUpdates[r], EnabledProfiles}
  BY <1>1 DEF SyncTypeOK
<1>4. SyncTypeOK'
  BY <1>1, <1>2, ReadRowsWereEnabled DEF SyncTypeOK, RunPc, ImportInv
<1>5. JudgeInv'
  <2>1. \A q \in Run : /\ IsNormal(q)' <=> IsNormal(q)
                       /\ Settled(q)' <=> Settled(q)
                       /\ seen'[q] = seen[q]
                       /\ \A a \in Account : At(q, a, "idle")' <=> At(q, a, "idle")
                       /\ q # r => (Drained(q)' <=> Drained(q)) /\ run'[q] = run[q]
    BY <1>1, <1>3 DEF IsNormal, Settled, At, Drained
  <2>2. /\ Settled(r) /\ IsNormal(r)
        /\ \A a \in Account : seen[r][a] # "absent" => ~At(r, a, "idle")
    BY <1>1 DEF JudgeInv
  <2>3. QED
    BY <1>3, <2>1, <2>2 DEF JudgeInv
<1>6. GrantInv'
  BY <1>1, <1>3, ReadRowsWereEnabled DEF GrantInv, sourceVars
<1>7. UserRowInv'
  BY <1>1 DEF UserRowInv, dbVars, copyVars
<1>8. QED
  BY <1>2, <1>4, <1>5, <1>6, <1>7

LEMMA BlockUsersKeeps ==
  ASSUME SyncInv, NEW r \in Run, BlockUsers(r)
  PROVE  SyncInv'
<1> USE DEF SyncInv
<1>1. /\ run[r] = "users"
      /\ UNCHANGED <<dbVars, copyVars, sourceVars, task, listing, seen, profileUpdates>>
      /\ faults' \in Nat
      /\ run' = [run EXCEPT ![r] = "done"]
      /\ \E v \in {"true", "false"} : answer' = [answer EXCEPT ![r] = v]
      /\ \/ userUpdates' = [userUpdates EXCEPT ![r] = EnabledUsers]
         \/ userUpdates' = userUpdates
  BY DEF BlockUsers, Become, Return, Fault, SyncTypeOK, TypeOK
<1>2. ImportInv'
  BY <1>1, OnlyFaults
<1>3. /\ \A q \in Run : q # r => run'[q] = run[q] /\ userUpdates'[q] = userUpdates[q]
      /\ run'[r] = "done"
      /\ userUpdates'[r] \in {userUpdates[r], EnabledUsers}
  BY <1>1 DEF SyncTypeOK
<1>4. SyncTypeOK'
  BY <1>1, <1>2, ReadRowsWereEnabled DEF SyncTypeOK, RunPc, ImportInv
<1>5. JudgeInv'
  <2>1. \A q \in Run : /\ IsNormal(q)' <=> IsNormal(q)
                       /\ Settled(q)' <=> Settled(q)
                       /\ seen'[q] = seen[q]
                       /\ \A a \in Account : At(q, a, "idle")' <=> At(q, a, "idle")
                       /\ q # r => (Drained(q)' <=> Drained(q)) /\ run'[q] = run[q]
    BY <1>1, <1>3 DEF IsNormal, Settled, At, Drained
  <2>2. /\ Settled(r) /\ IsNormal(r)
        /\ \A a \in Account : seen[r][a] # "absent" => ~At(r, a, "idle")
    BY <1>1 DEF JudgeInv
  <2>3. QED
    BY <1>3, <2>1, <2>2 DEF JudgeInv
<1>6. GrantInv'
  BY <1>1, <1>3, ReadRowsWereEnabled DEF GrantInv, sourceVars
<1>7. UserRowInv'
  <2>1. \A a \in EnabledUsers : /\ a \in UserAccount
                                /\ user[a] # "none" \/ userCopy[a] # "none"
    BY DEF EnabledUsers, UserRead
  <2>2. \A a \in EnabledUsers : \E i \in Row : profile[a][i] # "none"
    BY <2>1 DEF UserRowInv, ImportInv, UserHasProfile
  <2>3. \A q \in Run, a \in UserAccount :
          a \in userUpdates'[q] => a \in userUpdates[q] \/ a \in EnabledUsers
    BY <1>3
  <2>4. UNCHANGED <<profile, userCopy>>
    BY <1>1 DEF dbVars, copyVars
  <2>5. QED
    BY <2>2, <2>3, <2>4 DEF UserRowInv
<1>8. QED
  BY <1>2, <1>4, <1>5, <1>6, <1>7

-----------------------------------------------------------------------------
(* The updates of a run, and the end of its process.                        *)

(* An update that gives access gives it to an account that had it.          *)
LEMMA VerdictTyped ==
  ASSUME NEW r \in Run, NEW a \in Account
  PROVE  Verdict(r, a) \in Status /\ Verdict(r, a) # "none"
BY DEF Verdict, Status

LEMMA UpdateProfileKeeps ==
  ASSUME SyncInv, NEW r \in Run, NEW a \in Account, NEW i \in Row, UpdateProfile(r, a, i)
  PROVE  SyncInv'
<1> USE DEF SyncInv
<1> DEFINE v == Verdict(r, a)
<1>1. /\ a \in everEnabled /\ <<a, i>> \in profileUpdates[r]
      /\ UNCHANGED <<user, copyVars, sourceVars, task, faults,
                     run, answer, listing, seen, userUpdates>>
      /\ profile' = [profile EXCEPT ![a][i] = v]
      /\ profileUpdates' = [profileUpdates EXCEPT ![r] = @ \ {<<a, i>>}]
  BY DEF UpdateProfile, GrantInv
<1>2. v \in Status /\ v # "none"
  BY VerdictTyped
<1> HIDE DEF v
<1>3. TypeOK
  BY DEF ImportInv
<1>4. /\ profile' \in [Account -> [Row -> Status \cup {"none"}]]
      /\ \A x \in Account, j \in Row : x # a \/ j # i => profile'[x][j] = profile[x][j]
      /\ profile'[a][i] = v
  <2>1. profile[a] \in [Row -> Status \cup {"none"}]
    BY <1>3 DEF TypeOK
  <2>2. QED
    BY <1>1, <1>2, <1>3, <2>1 DEF TypeOK
<1>5. \A x \in Account, j \in Row : profile[x][j] # "none" => profile'[x][j] # "none"
  BY <1>2, <1>4
<1>6. ImportInv'
  <2>1. TypeOK'
    BY <1>1, <1>3, <1>4 DEF TypeOK, copyVars, sourceVars
  <2>2. StackInv' /\ OriginInv'
    BY <1>1 DEF ImportInv, StackInv, OriginInv, At, copyVars, sourceVars
  <2>3. AccessComesFromDirectory'
    BY <1>1, <1>4 DEF ImportInv, AccessComesFromDirectory, sourceVars
  <2>4. UserHasProfile' /\ ProfileFirstInv'
    BY <1>1, <1>5 DEF ImportInv, UserHasProfile, ProfileFirstInv, At, Account
  <2>5. QED
    BY <2>1, <2>2, <2>3, <2>4 DEF ImportInv
<1>7. \A q \in Run : profileUpdates'[q] \subseteq profileUpdates[q]
  BY <1>1 DEF SyncTypeOK
<1>8. SyncTypeOK'
  BY <1>1, <1>6 DEF SyncTypeOK, ImportInv
<1>9. JudgeInv'
  <2>1. \A q \in Run : /\ Drained(q) => Drained(q)'
                       /\ IsNormal(q)' <=> IsNormal(q)
                       /\ Settled(q)' <=> Settled(q)
                       /\ \A b \in Account : At(q, b, "idle")' <=> At(q, b, "idle")
    BY <1>1, <1>7 DEF Drained, IsNormal, Settled, At
  <2>2. UNCHANGED <<run, seen>>
    BY <1>1
  <2>3. QED
    BY <2>1, <2>2 DEF JudgeInv
<1>10. GrantInv'
  BY <1>1, <1>7 DEF GrantInv, sourceVars
<1>11. UserRowInv'
  BY <1>1, <1>5 DEF UserRowInv, copyVars, Account
<1>12. QED
  BY <1>6, <1>8, <1>9, <1>10, <1>11

LEMMA UpdateUserKeeps ==
  ASSUME SyncInv, NEW r \in Run, NEW a \in UserAccount, UpdateUser(r, a)
  PROVE  SyncInv'
<1> USE DEF SyncInv
<1> DEFINE v == Verdict(r, a)
<1>1. /\ a \in everEnabled /\ a \in userUpdates[r] /\ a \in Account
      /\ UNCHANGED <<profile, copyVars, sourceVars, task, faults,
                     run, answer, listing, seen, profileUpdates>>
      /\ user' = [user EXCEPT ![a] = v]
      /\ userUpdates' = [userUpdates EXCEPT ![r] = @ \ {a}]
  BY DEF UpdateUser, GrantInv, Account
<1>2. v \in Status /\ v # "none"
  BY <1>1, VerdictTyped
<1> HIDE DEF v
<1>3. TypeOK
  BY DEF ImportInv
<1>4. /\ user' \in [UserAccount -> Status \cup {"none"}]
      /\ \A x \in UserAccount : x # a => user'[x] = user[x]
      /\ user'[a] = v
  BY <1>1, <1>2, <1>3 DEF TypeOK
<1>5. \E i \in Row : profile[a][i] # "none"
  BY <1>1 DEF UserRowInv
<1>6. ImportInv'
  <2>1. TypeOK'
    BY <1>1, <1>3, <1>4 DEF TypeOK, copyVars, sourceVars
  <2>2. StackInv' /\ OriginInv' /\ ProfileFirstInv'
    BY <1>1 DEF ImportInv, StackInv, OriginInv, ProfileFirstInv, At, copyVars, sourceVars
  <2>3. AccessComesFromDirectory'
    BY <1>1, <1>4 DEF ImportInv, AccessComesFromDirectory, sourceVars
  <2>4. UserHasProfile'
    BY <1>1, <1>4, <1>5 DEF ImportInv, UserHasProfile
  <2>5. QED
    BY <2>1, <2>2, <2>3, <2>4 DEF ImportInv
<1>7. \A q \in Run : userUpdates'[q] \subseteq userUpdates[q]
  BY <1>1 DEF SyncTypeOK
<1>8. SyncTypeOK'
  BY <1>1, <1>6 DEF SyncTypeOK, ImportInv
<1>9. JudgeInv'
  <2>1. \A q \in Run : /\ Drained(q) => Drained(q)'
                       /\ IsNormal(q)' <=> IsNormal(q)
                       /\ Settled(q)' <=> Settled(q)
                       /\ \A b \in Account : At(q, b, "idle")' <=> At(q, b, "idle")
    BY <1>1, <1>7 DEF Drained, IsNormal, Settled, At
  <2>2. UNCHANGED <<run, seen>>
    BY <1>1
  <2>3. QED
    BY <2>1, <2>2 DEF JudgeInv
<1>10. GrantInv'
  BY <1>1, <1>7 DEF GrantInv, sourceVars
<1>11. UserRowInv'
  BY <1>1, <1>7 DEF UserRowInv, copyVars
<1>12. QED
  BY <1>6, <1>8, <1>9, <1>10, <1>11

LEMMA CrashKeeps ==
  ASSUME SyncInv, Crash
  PROVE  SyncInv'
<1> USE DEF SyncInv
<1>1. /\ UNCHANGED <<dbVars, copyVars, sourceVars, answer, listing, seen>>
      /\ profileUpdates' = [r \in Run |-> {}] /\ userUpdates' = [r \in Run |-> {}]
      /\ run' = [r \in Run |-> IF Unfinished(r) THEN "crashed" ELSE run[r]]
      /\ task' = [p \in Actor |-> IF p \in Run THEN [a \in Account |-> IdleTask]
                                  ELSE task[p]]
  BY DEF Crash
<1>2. TypeOK /\ faults' \in Nat
  BY DEF ImportInv, TypeOK, Crash, Fault
<1>3. \A a \in Account : FreshTask(IdleTask, a)
  BY DEF FreshTask
<1>4. \A a \in Account : IdleTask \in Task
  BY <1>3, FreshIsSound
<1>5. /\ task' \in [Actor -> [Account -> Task]]
      /\ \A p \in Actor, a \in Account : task'[p][a] = task[p][a] \/ task'[p][a] = IdleTask
  BY <1>1, <1>2, <1>4 DEF TypeOK
<1>6. ImportInv'
  BY <1>1, <1>2, <1>3, <1>5, TasksReplaced
<1>7. SyncTypeOK'
  BY <1>1, <1>6 DEF SyncTypeOK, RunPc, ImportInv
<1>8. JudgeInv'
  <2>1. \A r \in Run : Drained(r)' /\ run'[r] \notin {"importing", "users"}
    BY <1>1 DEF Drained, Unfinished
  <2>2. QED
    BY <2>1 DEF JudgeInv
<1>9. GrantInv' /\ UserRowInv'
  BY <1>1 DEF GrantInv, UserRowInv, dbVars, copyVars, sourceVars
<1>10. QED
  BY <1>6, <1>7, <1>8, <1>9

-----------------------------------------------------------------------------
LEMMA SyncInitInv == SyncInit => SyncInv
<1> SUFFICES ASSUME SyncInit PROVE SyncInv
  OBVIOUS
<1>1. ImportInv /\ TypeOK
  BY InitInv DEF SyncInit, ImportInv
<1>2. SyncTypeOK
  BY <1>1 DEF SyncInit, SyncTypeOK, RunPc
<1>3. JudgeInv
  BY DEF SyncInit, JudgeInv, Drained
<1>4. GrantInv
  BY DEF SyncInit, GrantInv
<1>5. UserRowInv
  BY <1>1 DEF SyncInit, ImportInit, UserRowInv, ImportInv, UserHasProfile
<1>6. QED
  BY <1>1, <1>2, <1>3, <1>4, <1>5 DEF SyncInv

-----------------------------------------------------------------------------
(* Requests for a synchronization: what SyncRpc adds is the fault counter.  *)

OnlyFaultStep ==
  /\ UNCHANGED <<dbVars, copyVars, sourceVars, task, syncVars>>
  /\ Fault

LEMMA RpcSteps ==
  ASSUME [RpcNext]_syncRpcVars
  PROVE  [SyncNext]_vars \/ OnlyFaultStep
BY DEF RpcNext, Ask, AskFails, AskerLeaves, Hear, ServedStep, ServiceStops, ServiceStarts,
   SyncNext, OnlyFaultStep, syncRpcVars

LEMMA SyncInvStep ==
  ASSUME SyncInv, [SyncNext]_vars
  PROVE  SyncInv'
<1>1. CASE PortalStep
  BY <1>1, PortalKeeps
<1>2. ASSUME NEW r \in Run, RunStep(r) PROVE SyncInv'
  BY <1>2, SyncGroupsKeeps, ListDomainKeeps, StartImportsKeeps, NoUsersFoundKeeps,
     BlockProfilesKeeps, BlockUsersKeeps DEF RunStep
<1>3. ASSUME NEW r \in Run, UpdateStep(r) PROVE SyncInv'
  BY <1>3, UpdateProfileKeeps, UpdateUserKeeps DEF UpdateStep
<1>4. CASE Crash
  BY <1>4, CrashKeeps
<1>5. CASE UNCHANGED vars
  <2>1. UNCHANGED <<dbVars, copyVars, sourceVars, task, faults>> /\ UNCHANGED syncVars
    BY <1>5 DEF vars, importVars, dbVars, copyVars, sourceVars
  <2>2. ImportInv'
    BY <2>1, OnlyFaults DEF SyncInv, SyncTypeOK, TypeOK
  <2>3. QED
    BY <2>1, <2>2 DEF SyncInv, SyncTypeOK, ImportInv, JudgeInv, GrantInv, UserRowInv,
       Drained, IsNormal, Settled, At, dbVars, copyVars, sourceVars, syncVars
<1>6. QED
  BY <1>1, <1>2, <1>3, <1>4, <1>5 DEF SyncNext

LEMMA OnlyFaultKeeps ==
  ASSUME SyncInv, OnlyFaultStep
  PROVE  SyncInv'
<1>1. faults' \in Nat
  BY DEF OnlyFaultStep, Fault, SyncInv, SyncTypeOK, TypeOK
<1>2. ImportInv'
  BY <1>1, OnlyFaults DEF SyncInv, OnlyFaultStep
<1>3. QED
  BY <1>1, <1>2 DEF OnlyFaultStep, SyncInv, SyncTypeOK, ImportInv, JudgeInv, GrantInv,
     UserRowInv, Drained, IsNormal, Settled, At, dbVars, copyVars, sourceVars, syncVars

LEMMA SyncInvariance == SyncSpec => []SyncInv
BY SyncInitInv, SyncInvStep, PTL DEF SyncSpec

LEMMA RpcInvariance == RpcSpec => []SyncInv
<1>1. RpcInit => SyncInv
  BY SyncInitInv DEF RpcInit
<1>2. SyncInv /\ [RpcNext]_syncRpcVars => SyncInv'
  BY RpcSteps, SyncInvStep, OnlyFaultKeeps
<1>3. QED
  BY <1>1, <1>2, PTL DEF RpcSpec

(* The variables of the synchronization keep their types.                   *)
THEOREM SyncTypes == SyncSpec => []SyncTypeOK
BY SyncInvariance, PTL DEF SyncInv

LEMMA InvBlocksJustly == SyncInv => BlockingIsJustified
<1> SUFFICES ASSUME SyncInv, NEW r \in Run, NEW a \in Account, ~Drained(r), ~Imported(r, a)
             PROVE  IsNormal(r) /\ (seen[r][a] = "absent" \/ At(r, a, "failed"))
  BY DEF BlockingIsJustified, Drained
<1>1. IsNormal(r) /\ Settled(r) /\ (seen[r][a] # "absent" => ~At(r, a, "idle"))
  BY DEF SyncInv, JudgeInv
<1>2. QED
  BY <1>1 DEF Settled, Imported, At

(* No update takes access away unless every domain answered and the account *)
(* is missing or could not be imported: see BlockingIsJustified.            *)
THEOREM SyncBlocksJustly == SyncSpec => []BlockingIsJustified
BY InvBlocksJustly, SyncInvariance, PTL

(* Neither an import nor an update of a synchronization invents access: see *)
(* AccessComesFromDirectory.                                                *)
THEOREM SyncAccess == SyncSpec => []AccessComesFromDirectory
BY SyncInvariance, PTL DEF SyncInv, ImportInv

(* A user row has a profile row under synchronizations too.                 *)
THEOREM SyncProfileFirst == SyncSpec => []UserHasProfile
BY SyncInvariance, PTL DEF SyncInv, ImportInv

(* Requests, lost messages and stops of the service change nothing of this. *)
THEOREM RpcAccess ==
  RpcSpec => [](BlockingIsJustified /\ AccessComesFromDirectory /\ UserHasProfile)
<1>1. SyncInv => BlockingIsJustified
  BY InvBlocksJustly
<1>2. QED
  BY <1>1, RpcInvariance, PTL DEF SyncInv, ImportInv

-----------------------------------------------------------------------------
(* What a synchronization promises, whatever runs beside it.                *)

LEMMA PhaseStep ==
  ASSUME SyncInv, PhaseInv, [SyncNext]_vars
  PROVE  PhaseInv'
<1> USE DEF PhaseInv
<1>1. SyncTypeOK /\ TypeOK /\ StackInv
  BY DEF SyncInv, ImportInv
<1>2. ASSUME UNCHANGED run,
             \A r \in Run, a \in Account :
               task'[r][a] = task[r][a] \/ (run[r] = "importing" /\ run'[r] = "importing")
      PROVE  PhaseInv'
  BY <1>2 DEF Settled, At
<1>3. CASE PortalStep
  <2>1. UNCHANGED run
    BY <1>3 DEF PortalStep, syncVars
  <2>2. ASSUME NEW p \in Actor, NEW a \in Account, ImportStep(p, a),
               NEW r \in Run, NEW b \in Account, task'[r][b] # task[r][b]
        PROVE  run[r] = "importing"
    <3>1. r = p /\ b = a
      BY <1>1, <2>2, NextPc, RunAssumption
    <3>2. task[r][b].pc \notin {"idle", "saved", "failed"}
      BY <2>2, <3>1, StepIsActive
    <3>3. QED
      BY <3>2 DEF Settled
  <2>3. ASSUME NEW p \in Actor \ Run, LoginStep(p), NEW r \in Run
        PROVE  task'[r] = task[r]
    BY <1>1, <2>3, RunAssumption DEF LoginStep, Login, Answer, TypeOK
  <2>4. Environment => UNCHANGED task
    BY DEF Environment, ChangeDirectory, Replicate
  <2>5. QED
    BY <1>2, <1>3, <2>1, <2>2, <2>3, <2>4 DEF PortalStep
<1>4. ASSUME NEW r \in Run, StartImports(r) PROVE PhaseInv'
  <2>1. /\ run'[r] = "importing"
        /\ \A q \in Run : q # r => run'[q] = run[q] /\ task'[q] = task[q]
    BY <1>1, <1>4, RunAssumption DEF StartImports, Become, SyncTypeOK, TypeOK
  <2>2. QED
    BY <2>1 DEF Settled, At
<1>5. ASSUME NEW r \in Run,
             SyncGroups(r) \/ NoUsersFound(r) \/ BlockProfiles(r) \/ BlockUsers(r)
      PROVE  PhaseInv'
  <2>1. /\ UNCHANGED task /\ run[r] \in RunPc
        /\ \A q \in Run : q # r => run'[q] = run[q]
    BY <1>1, <1>5 DEF SyncGroups, NoUsersFound, BlockProfiles, BlockUsers, Become, Return,
       importVars, SyncTypeOK
  <2>2. \/ run[r] = "idle" /\ run'[r] \in {"listing", "done"}
        \/ run[r] = "listing" /\ run'[r] = "done"
        \/ Settled(r) /\ run'[r] \in {"users", "done"}
    BY <1>1, <1>5 DEF SyncGroups, NoUsersFound, BlockProfiles, BlockUsers, Become, Return,
       SyncTypeOK
  <2>3. QED
    BY <2>1, <2>2 DEF Settled, At
<1>6. ASSUME NEW r \in Run, NEW d \in Domain, ListDomain(r, d) PROVE PhaseInv'
  BY <1>2, <1>6 DEF ListDomain
<1>7. ASSUME NEW r \in Run, UpdateStep(r) PROVE PhaseInv'
  BY <1>2, <1>7 DEF UpdateStep, UpdateProfile, UpdateUser
<1>8. CASE Crash
  <2>1. \A r \in Run, a \in Account : task'[r][a] = IdleTask
    BY <1>8, RunAssumption DEF Crash
  <2>2. QED
    BY <2>1 DEF IdleTask, Settled, At
<1>9. CASE UNCHANGED vars
  BY <1>2, <1>9 DEF vars, importVars, syncVars
<1>10. QED
  BY <1>3, <1>4, <1>5, <1>6, <1>7, <1>8, <1>9 DEF SyncNext, RunStep

(* A step of run r itself, and one of somebody else.                        *)
OwnStep(r) ==
  \/ RunStep(r)
  \/ UpdateStep(r)
  \/ \E a \in Account : ImportStep(r, a) /\ UNCHANGED syncVars
  \/ Crash

OthersStep(r) ==
  /\ run'[r] = run[r] /\ answer'[r] = answer[r] /\ seen'[r] = seen[r]
  /\ task'[r] = task[r]
  /\ profileUpdates'[r] = profileUpdates[r] /\ userUpdates'[r] = userUpdates[r]

LEMMA WhoseStep ==
  ASSUME SyncInv, [SyncNext]_vars, NEW r \in Run
  PROVE  OwnStep(r) \/ OthersStep(r)
<1>1. SyncTypeOK /\ TypeOK /\ StackInv /\ r \in Actor
  BY RunAssumption DEF SyncInv, ImportInv
<1>2. CASE PortalStep
  <2>1. UNCHANGED syncVars
    BY <1>2 DEF PortalStep
  <2>2. ASSUME NEW p \in Actor, NEW a \in Account, ImportStep(p, a), p # r
        PROVE  task'[r] = task[r]
    <3>1. \E t : task' = [task EXCEPT ![p][a] = t]
      BY <1>1, <2>2, ImportStepTask
    <3>2. QED
      BY <1>1, <2>2, <3>1 DEF TypeOK
  <2>3. ASSUME NEW p \in Actor \ Run, LoginStep(p) PROVE task'[r] = task[r]
    BY <1>1, <2>3 DEF LoginStep, Login, Answer, TypeOK
  <2>4. Environment => task' = task
    BY DEF Environment, ChangeDirectory, Replicate
  <2>5. \/ task'[r] = task[r]
        \/ \E a \in Account : ImportStep(r, a)
    BY <1>2, <2>2, <2>3, <2>4 DEF PortalStep
  <2>6. QED
    BY <2>1, <2>5 DEF OwnStep, OthersStep, syncVars
<1>3. ASSUME NEW q \in Run, q # r, RunStep(q) \/ UpdateStep(q) PROVE OthersStep(r)
  <2>1. CASE RunStep(q)
    BY <1>1, <1>3, <2>1 DEF RunStep, SyncGroups, ListDomain, StartImports, NoUsersFound,
       BlockProfiles, BlockUsers, Become, Return, importVars, OthersStep, SyncTypeOK, TypeOK
  <2>2. CASE UpdateStep(q)
    BY <1>1, <1>3, <2>2 DEF UpdateStep, UpdateProfile, UpdateUser, OthersStep, SyncTypeOK
  <2>3. QED
    BY <1>3, <2>1, <2>2
<1>4. CASE UNCHANGED vars
  BY <1>4 DEF vars, importVars, syncVars, OthersStep
<1>5. QED
  BY <1>2, <1>3, <1>4 DEF SyncNext, OwnStep

(* Whoever is not disturbed when run r goes on was not before, was read as  *)
(* stored, and keeps its rows in the steps of others.                       *)
Undisturbed == \A r \in Run : \A a \in Account \ disturbed'[r] : run'[r] # "idle" =>
  a \notin disturbed[r] /\ ~Disturbs(r, a) /\ ~Misread(r, a)

LEMMA Watched ==
  ASSUME [SteadyNext]_steadyVars
  PROVE  [SyncNext]_vars /\ Undisturbed
<1>1. CASE SteadyNext
  BY <1>1 DEF SteadyNext, Undisturbed
<1>2. CASE UNCHANGED steadyVars
  BY <1>2 DEF steadyVars, vars, importVars, syncVars, Undisturbed, Disturbs, Misread, At
<1>3. QED
  BY <1>1, <1>2

LEMMA KeptByOthers ==
  ASSUME NEW r \in Run, NEW a \in Account, OthersStep(r), ~Disturbs(r, a)
  PROVE  profile'[a] = profile[a] /\ (a \in UserAccount => user'[a] = user[a])
BY DEF OthersStep, Disturbs, Works

(* The last frame of a run's import is the listed account as it was listed. *)
LEMMA StartedTask ==
  ASSUME NEW a, NEW s
  PROVE  /\ Started(a, s).pc = "manager"
         /\ Started(a, s).stack[Len(Started(a, s).stack)].status = s
         /\ \A k \in 1..Len(Started(a, s).stack) :
              Started(a, s).stack[k] = [account |-> a, status |-> s]
<1> DEFINE f == [account |-> a, status |-> s]
<1>1. f.status = s
  OBVIOUS
<1>2. Started(a, s).stack = <<f>> /\ Started(a, s).pc = "manager"
  BY DEF Started
<1> HIDE DEF f
<1>3. Len(<<f>>) = 1 /\ <<f>>[1] = f
  OBVIOUS
<1>4. \A k \in 1..Len(<<f>>) : <<f>>[k] = f
  OBVIOUS
<1>5. QED
  BY <1>1, <1>2, <1>3, <1>4 DEF f

LEMMA ImportsBegin ==
  ASSUME SyncInv, NEW r \in Run, StartImports(r)
  PROVE  /\ UNCHANGED seen /\ run'[r] = "importing" /\ userUpdates'[r] = {}
         /\ \A a \in Account : task'[r][a] = IF seen[r][a] = "absent" THEN IdleTask
                                             ELSE Started(a, seen[r][a])
         /\ \A a \in Account : task'[r][a].pc \in {"idle", "manager"}
<1>1. SyncTypeOK /\ TypeOK /\ r \in Actor
  BY RunAssumption DEF SyncInv, ImportInv
<1>2. /\ UNCHANGED <<seen, userUpdates>> /\ run'[r] = "importing" /\ run[r] = "listing"
      /\ \A a \in Account : task'[r][a] = IF seen[r][a] = "absent" THEN IdleTask
                                          ELSE Started(a, seen[r][a])
  BY <1>1 DEF StartImports, Become, SyncTypeOK, TypeOK
<1>3. userUpdates[r] = {}
  BY <1>2 DEF SyncInv, JudgeInv, Drained
<1>4. IdleTask.pc = "idle"
  BY DEF IdleTask
<1>5. \A a \in Account : Started(a, seen[r][a]).pc = "manager"
  BY StartedTask
<1>6. \A a \in Account : task'[r][a].pc \in {"idle", "manager"}
  BY <1>2, <1>4, <1>5
<1>7. QED
  BY <1>2, <1>3, <1>6

LEMMA LastFrameStep ==
  ASSUME SyncInv, PhaseInv, RunInv, [SyncNext]_vars, NEW r \in Run, NEW a \in Account,
         ~At(r, a, "idle")'
  PROVE  task'[r][a].stack[Len(task'[r][a].stack)].status = seen'[r][a]
<1>1. SyncTypeOK /\ TypeOK /\ StackInv /\ r \in Actor
  BY RunAssumption DEF SyncInv, ImportInv
<1>2. ASSUME task'[r][a] = task[r][a], seen'[r][a] = seen[r][a]
      PROVE  task'[r][a].stack[Len(task'[r][a].stack)].status = seen'[r][a]
  BY <1>2 DEF RunInv, At
<1>3. CASE OthersStep(r)
  BY <1>2, <1>3 DEF OthersStep
<1>4. ASSUME NEW b \in Account, ImportStep(r, b), UNCHANGED syncVars
      PROVE  task'[r][a].stack[Len(task'[r][a].stack)].status = seen'[r][a]
  <2>1. UNCHANGED seen /\ task[r][b].pc # "idle"
    BY <1>1, <1>4, StepIsActive DEF syncVars
  <2>2. CASE b # a
    BY <1>1, <1>2, <1>4, <2>1, <2>2, NextPc
  <2>3. CASE b = a
    <3>1. task'[r][a].stack[Len(task'[r][a].stack)] = task[r][a].stack[Len(task[r][a].stack)]
      BY <1>1, <1>4, <2>3, StackOfStep
    <3>2. task[r][a].stack[Len(task[r][a].stack)].status = seen[r][a]
      BY <2>1, <2>3 DEF RunInv, At
    <3>3. QED
      BY <2>1, <3>1, <3>2
  <2>4. QED
    BY <2>2, <2>3
<1>5. CASE SyncGroups(r) \/ NoUsersFound(r) \/ BlockProfiles(r) \/ BlockUsers(r) \/ UpdateStep(r)
  <2>1. UNCHANGED <<task, seen>>
    BY <1>5 DEF SyncGroups, NoUsersFound, BlockProfiles, BlockUsers, UpdateStep,
       UpdateProfile, UpdateUser, importVars
  <2>2. QED
    BY <1>2, <2>1
<1>6. CASE \E d \in Domain : ListDomain(r, d)
  <2>1. UNCHANGED task /\ run[r] = "listing"
    BY <1>6 DEF ListDomain
  <2>2. QED
    BY <2>1 DEF PhaseInv, At
<1>7. CASE StartImports(r)
  <2>1. /\ seen'[r][a] = seen[r][a]
        /\ task'[r][a] = IF seen[r][a] = "absent" THEN IdleTask ELSE Started(a, seen[r][a])
    BY <1>7, ImportsBegin
  <2>2. task'[r][a] = Started(a, seen[r][a])
    BY <2>1 DEF At, IdleTask
  <2> DEFINE s == seen[r][a]
  <2> HIDE DEF s
  <2>3. Started(a, s).stack[Len(Started(a, s).stack)].status = s
    BY StartedTask
  <2>4. QED
    BY <2>1, <2>2, <2>3 DEF s
<1>8. CASE Crash
  BY <1>1, <1>8 DEF Crash, At, IdleTask
<1>9. QED
  BY <1>3, <1>4, <1>5, <1>6, <1>7, <1>8, WhoseStep DEF OwnStep, RunStep

(* RunInv of one account.                                                   *)
Judged(r, a) ==
  /\ At(r, a, "saved") => user[a] = seen[r][a]
  /\ a \in userUpdates[r] => user[a] = "enabled"
  /\ run[r] = "done" /\ answer[r] = "true" /\ user[a] = "enabled" =>
       a \in userUpdates[r] \/ seen[r][a] = "enabled"

LEMMA ImportJudges ==
  ASSUME SyncInv, PhaseInv, RunInv, NEW r \in Run, NEW a \in UserAccount, Judged(r, a),
         NEW b \in Account, ImportStep(r, b), UNCHANGED syncVars
  PROVE  Judged(r, a)'
<1>1. SyncTypeOK /\ TypeOK /\ StackInv /\ r \in Actor /\ a \in Account
  BY RunAssumption DEF SyncInv, ImportInv, Account
<1>2. task[r][b].pc \notin {"idle", "saved", "failed"}
  BY <1>1, StepIsActive
<1>3. run[r] = "importing" /\ Drained(r)
  BY <1>1, <1>2 DEF PhaseInv, Settled, SyncInv, JudgeInv
<1>4. run'[r] = "importing" /\ userUpdates'[r] = {} /\ UNCHANGED seen
  BY <1>3 DEF Drained, syncVars
<1>5. ASSUME At(r, a, "saved")' PROVE user'[a] = seen[r][a]
  <2>1. CASE b # a
    <3>1. user'[a] = user[a]
      BY <1>1, <1>2, <2>1 DEF ImportStep, FollowManager, LeaveManagerOut, FindProfile,
         SaveProfile, SaveProfileFails, FindUser, SaveUser, SaveUserFails, dbVars, TypeOK
    <3>2. task'[r][a] = task[r][a]
      BY <1>1, <2>1, NextPc
    <3>3. QED
      BY <1>5, <3>1, <3>2 DEF At, Judged
  <2>2. CASE b = a
    <3>1. SaveUser(r, a)
      BY <1>1, <1>5, <2>2, NextPc DEF At
    <3>2. Len(task[r][a].stack) = 1 /\ Current(r, a) = task[r][a].stack[1]
      BY <1>1, <1>2, <2>2, <3>1, TaskTyped DEF SaveUser, StackInv, At
    <3>3. task[r][a].stack[Len(task[r][a].stack)].status = seen[r][a]
      BY <1>1, <1>2, <2>2 DEF RunInv, At
    <3>4. user' = [user EXCEPT ![a] = Current(r, a).status]
      BY <3>1 DEF SaveUser
    <3>5. user'[a] = Current(r, a).status
      BY <1>1, <3>4 DEF TypeOK
    <3>6. QED
      BY <3>2, <3>3, <3>5
  <2>3. QED
    BY <2>1, <2>2
<1>6. QED
  BY <1>4, <1>5 DEF Judged

LEMMA RunStepJudges ==
  ASSUME SyncInv, PhaseInv, NEW r \in Run, NEW a \in UserAccount, Judged(r, a),
         ~Misread(r, a), RunStep(r)
  PROVE  Judged(r, a)'
<1>1. SyncTypeOK /\ TypeOK /\ a \in Account /\ UNCHANGED user
  BY DEF SyncInv, ImportInv, Account, RunStep, SyncGroups, ListDomain, StartImports,
     NoUsersFound, BlockProfiles, BlockUsers, dbVars, importVars
<1>2. CASE SyncGroups(r) \/ NoUsersFound(r) \/ BlockProfiles(r)
  <2>1. UNCHANGED <<task, seen, userUpdates>>
    BY <1>2 DEF SyncGroups, NoUsersFound, BlockProfiles, importVars
  <2>2. run'[r] # "done" \/ answer'[r] # "true"
    BY <1>1, <1>2 DEF SyncGroups, NoUsersFound, BlockProfiles, Become, Return, SyncTypeOK
  <2>3. QED
    BY <1>1, <2>1, <2>2 DEF Judged, At
<1>3. CASE \E d \in Domain : ListDomain(r, d)
  <2>1. UNCHANGED <<task, userUpdates, run>> /\ run[r] = "listing"
    BY <1>3 DEF ListDomain
  <2>2. At(r, a, "idle")
    BY <1>1, <2>1 DEF PhaseInv
  <2>3. QED
    BY <1>1, <2>1, <2>2 DEF Judged, At
<1>4. CASE StartImports(r)
  <2>1. userUpdates'[r] = {} /\ run'[r] = "importing" /\ task'[r][a].pc \in {"idle", "manager"}
    BY <1>1, <1>4, ImportsBegin
  <2>2. QED
    BY <2>1 DEF Judged, At
<1>5. CASE BlockUsers(r)
  <2>1. UNCHANGED <<task, seen>> /\ run[r] = "users" /\ run'[r] = "done"
    BY <1>1, <1>5 DEF BlockUsers, Become, Return, SyncTypeOK
  <2>2. UserRead(a) = user[a]
    BY <2>1 DEF Misread
  <2>3. \/ userUpdates'[r] = EnabledUsers
        \/ userUpdates'[r] = userUpdates[r] /\ answer'[r] = "false"
    BY <1>1, <1>5 DEF BlockUsers, Return, SyncTypeOK
  <2>4. a \in EnabledUsers <=> user[a] = "enabled"
    BY <2>2 DEF EnabledUsers
  <2>5. QED
    BY <1>1, <2>1, <2>3, <2>4 DEF Judged, At
<1>6. QED
  BY <1>2, <1>3, <1>4, <1>5 DEF RunStep

LEMMA UpdateJudges ==
  ASSUME SyncInv, NEW r \in Run, NEW a \in UserAccount, Judged(r, a), UpdateStep(r)
  PROVE  Judged(r, a)'
<1>1. SyncTypeOK /\ TypeOK /\ UNCHANGED <<task, run, answer, seen>>
  BY DEF SyncInv, ImportInv, UpdateStep, UpdateProfile, UpdateUser
<1>2. CASE \E b \in Account, i \in Row : UpdateProfile(r, b, i)
  BY <1>1, <1>2 DEF UpdateProfile, Judged, At
<1>3. ASSUME NEW b \in UserAccount, UpdateUser(r, b) PROVE Judged(r, a)'
  <2>1. /\ user'[b] = Verdict(r, b) /\ b \in userUpdates[r]
        /\ a # b => user'[a] = user[a]
        /\ userUpdates'[r] = userUpdates[r] \ {b}
    BY <1>1, <1>3 DEF UpdateUser, SyncTypeOK, TypeOK
  <2>2. CASE b # a
    BY <1>1, <2>1, <2>2 DEF Judged, At
  <2>3. CASE b = a
    <3>1. user'[a] = IF At(r, a, "saved") THEN "enabled" ELSE "disabled"
      BY <2>1, <2>3 DEF Verdict, Imported
    <3>2. At(r, a, "saved") => seen[r][a] = "enabled"
      BY <2>1, <2>3 DEF Judged
    <3>3. a \notin userUpdates'[r]
      BY <2>1, <2>3
    <3>4. QED
      BY <1>1, <3>1, <3>2, <3>3 DEF Judged, At
  <2>4. QED
    BY <2>2, <2>3
<1>4. QED
  BY <1>2, <1>3 DEF UpdateStep

LEMMA CrashJudges ==
  ASSUME SyncInv, NEW r \in Run, NEW a \in UserAccount, Judged(r, a), Crash
  PROVE  Judged(r, a)'
<1>1. r \in Actor /\ a \in Account
  BY RunAssumption DEF Account
<1>2. /\ UNCHANGED <<user, answer, seen>> /\ userUpdates'[r] = {}
      /\ run'[r] = "crashed" \/ (run'[r] = run[r] /\ userUpdates[r] = {})
      /\ task'[r][a] = IdleTask
  BY <1>1 DEF Crash, dbVars, Unfinished
<1>3. QED
  BY <1>2 DEF Judged, At, IdleTask

LEMMA RunInvStep ==
  ASSUME SyncInv, SyncInv', PhaseInv, PhaseInv', RunInv, [SyncNext]_vars, Undisturbed
  PROVE  RunInv'
<1>1. ASSUME NEW r \in Run, NEW a \in UserAccount \ disturbed'[r]
      PROVE  Judged(r, a)'
  <2>0. a \in Account
    BY DEF Account
  <2>1. CASE run'[r] = "idle"
    <3>1. At(r, a, "idle")' /\ userUpdates'[r] = {}
      BY <2>0, <2>1 DEF PhaseInv, SyncInv, JudgeInv, Drained
    <3>2. QED
      BY <2>1, <3>1 DEF Judged, At
  <2>2. CASE run'[r] # "idle"
    <3>1. a \notin disturbed[r] /\ ~Disturbs(r, a) /\ ~Misread(r, a)
      BY <2>0, <2>2 DEF Undisturbed
    <3>2. Judged(r, a)
      BY <3>1 DEF RunInv, Judged
    <3>3. OthersStep(r) => Judged(r, a)'
      BY <2>0, <3>1, <3>2, KeptByOthers DEF OthersStep, Judged, At
    <3>4. QED
      BY <3>1, <3>2, <3>3, WhoseStep, ImportJudges, RunStepJudges, UpdateJudges, CrashJudges
         DEF OwnStep
  <2>3. QED
    BY <2>1, <2>2
<1>2. \A r \in Run, a \in Account : ~At(r, a, "idle")' =>
        task'[r][a].stack[Len(task'[r][a].stack)].status = seen'[r][a]
  BY LastFrameStep
<1>3. QED
  BY <1>1, <1>2 DEF RunInv, Judged

(* A step without failures and changes comes after none.                    *)
LEMMA NoNews ==
  ASSUME SyncInv, [SyncNext]_vars, faults' = 0, changes' = 0
  PROVE  faults = 0 /\ changes = 0 /\ directory' = directory
<1>1. faults \in Nat /\ changes \in Nat
  BY DEF SyncInv, SyncTypeOK, TypeOK
<1>2. ~Fault
  BY <1>1 DEF Fault
<1>3. ASSUME NEW p \in Actor, NEW a \in Account, ImportStep(p, a)
      PROVE  UNCHANGED <<faults, changes, directory>>
  BY <1>2, <1>3 DEF ImportStep, FollowManager, LeaveManagerOut, FindProfile, SaveProfile,
     SaveProfileFails, FindUser, SaveUser, SaveUserFails, sourceVars
<1>4. ASSUME NEW p \in Actor, LoginStep(p)
      PROVE  UNCHANGED <<faults, changes, directory>>
  BY <1>4 DEF LoginStep, Login, Answer, sourceVars
<1>5. Environment => UNCHANGED <<faults, changes, directory>>
  BY <1>1 DEF Environment, ChangeDirectory, Replicate, sourceVars
<1>6. ASSUME NEW r \in Run, RunStep(r)
      PROVE  UNCHANGED <<faults, changes, directory>>
  BY <1>2, <1>6 DEF RunStep, SyncGroups, ListDomain, StartImports, NoUsersFound,
     BlockProfiles, BlockUsers, sourceVars, importVars
<1>7. ASSUME NEW r \in Run, UpdateStep(r)
      PROVE  UNCHANGED <<faults, changes, directory>>
  BY <1>7 DEF UpdateStep, UpdateProfile, UpdateUser, sourceVars
<1>8. ~Crash
  BY <1>2 DEF Crash
<1>9. UNCHANGED vars => UNCHANGED <<faults, changes, directory>>
  BY DEF vars, importVars
<1>10. QED
  BY <1>1, <1>3, <1>4, <1>5, <1>6, <1>7, <1>8, <1>9 DEF SyncNext, PortalStep

EnabledProfile(a) == \E i \in Row : profile[a][i] = "enabled"

(* What ListedInv says of a run, and of one account of it.                  *)
Shows(r) ==
  /\ run[r] = "done" /\ answer[r] = "true" =>
       \A a \in Account : seen[r][a] # "absent" => ~At(r, a, "idle")
  /\ \A a \in Account :
       /\ seen[r][a] \in {"absent", directory[a]}
       /\ \A k \in 1..Len(task[r][a].stack) :
            task[r][a].stack[k].status = directory[task[r][a].stack[k].account]

Granted(r, a) ==
  /\ ~At(r, a, "failed")
  /\ a \in UserAccount /\ At(r, a, "userSave") /\ task[r][a].found = 0 => user[a] = "none"
  /\ task[r][a].pc \in {"userFind", "userSave", "saved"} /\ directory[a] = "enabled" =>
       EnabledProfile(a)

(* Frames of a run come from the directory: its searches meet no cache.     *)
LEMMA RunFrames ==
  ASSUME SyncInv, NEW r \in Run, Shows(r), NEW a \in Account, ImportStep(r, a),
         NEW b \in Account, NEW k \in 1..Len(task'[r][b].stack)
  PROVE  task'[r][b].stack[k].status = directory[task'[r][b].stack[k].account]
<1>1. TypeOK /\ StackInv /\ r \in Actor /\ r \notin Portal
  BY RunAssumption DEF SyncInv, ImportInv
<1>2. \A j \in 1..Len(task[r][b].stack) :
        task[r][b].stack[j].status = directory[task[r][b].stack[j].account]
  BY DEF Shows
<1>3. CASE b # a
  <2>1. task'[r][b] = task[r][b]
    BY <1>1, <1>3, NextPc
  <2>2. QED
    BY <1>2, <2>1
<1>4. CASE b = a
  <2>1. FramesFrom(r, task'[r][a], task[r][a])
    BY <1>1, StackOfStep
  <2>2. \/ \E j \in 1..Len(task[r][a].stack) : task'[r][a].stack[k] = task[r][a].stack[j]
        \/ task'[r][a].stack[k].status \in Answers(r, task'[r][a].stack[k].account)
    BY <1>4, <2>1 DEF FramesFrom
  <2>3. QED
    BY <1>1, <1>2, <1>4, <2>2 DEF Answers
<1>5. QED
  BY <1>3, <1>4

LEMMA ShowsStep ==
  ASSUME SyncInv, PhaseInv, NEW r \in Run, Shows(r), [SyncNext]_vars,
         faults' = 0, changes' = 0
  PROVE  Shows(r)'
<1>1. SyncTypeOK /\ TypeOK /\ r \in Actor
  BY RunAssumption DEF SyncInv, ImportInv
<1>2. faults = 0 /\ directory' = directory /\ ~Crash
  BY NoNews DEF Crash, Fault
<1>3. CASE OthersStep(r)
  BY <1>2, <1>3 DEF OthersStep, Shows, At
<1>4. ASSUME NEW b \in Account, ImportStep(r, b), UNCHANGED syncVars
      PROVE  Shows(r)'
  <2>1. task[r][b].pc \notin {"idle", "saved", "failed"}
    BY <1>1, <1>4, StepIsActive
  <2>2. run'[r] = "importing" /\ UNCHANGED seen
    BY <1>1, <1>4, <2>1 DEF PhaseInv, Settled, syncVars
  <2>3. \A a \in Account : \A k \in 1..Len(task'[r][a].stack) :
          task'[r][a].stack[k].status = directory'[task'[r][a].stack[k].account]
    BY <1>2, <1>4, RunFrames
  <2>4. QED
    BY <1>2, <2>2, <2>3 DEF Shows
<1>5. CASE SyncGroups(r) \/ NoUsersFound(r) \/ BlockProfiles(r)
  <2>1. UNCHANGED <<task, seen>>
    BY <1>5 DEF SyncGroups, NoUsersFound, BlockProfiles, importVars
  <2>2. run'[r] # "done" \/ answer'[r] # "true"
    BY <1>1, <1>5 DEF SyncGroups, NoUsersFound, BlockProfiles, Become, Return, SyncTypeOK
  <2>3. QED
    BY <1>2, <2>1, <2>2 DEF Shows
<1>6. CASE BlockUsers(r)
  <2>1. UNCHANGED <<task, seen>> /\ run[r] = "users"
    BY <1>6 DEF BlockUsers
  <2>2. \A a \in Account : seen[r][a] # "absent" => ~At(r, a, "idle")
    BY <2>1 DEF SyncInv, JudgeInv
  <2>3. QED
    BY <1>2, <2>1, <2>2 DEF Shows, At
<1>7. CASE \E d \in Domain : ListDomain(r, d)
  <2>1. /\ UNCHANGED <<task, run>> /\ run[r] = "listing"
        /\ \A a \in Account : seen'[r][a] \in {seen[r][a], directory[a]}
    BY <1>1, <1>7 DEF ListDomain, SyncTypeOK
  <2>2. QED
    BY <1>2, <2>1 DEF Shows
<1>8. CASE StartImports(r)
  <2>1. /\ UNCHANGED seen /\ run'[r] = "importing"
        /\ \A a \in Account : task'[r][a] = IF seen[r][a] = "absent" THEN IdleTask
                                            ELSE Started(a, seen[r][a])
    BY <1>8, ImportsBegin
  <2>2. ASSUME NEW a \in Account, NEW k \in 1..Len(task'[r][a].stack)
        PROVE  task'[r][a].stack[k].status = directory[task'[r][a].stack[k].account]
    <3>1. seen[r][a] # "absent"
      BY <2>1 DEF IdleTask
    <3>2. seen[r][a] = directory[a] /\ task'[r][a] = Started(a, seen[r][a])
      BY <2>1, <3>1 DEF Shows
    <3>3. task'[r][a].stack[k] = [account |-> a, status |-> directory[a]]
      BY <3>2, StartedTask
    <3>4. QED
      BY <3>3
  <2>3. QED
    BY <1>2, <2>1, <2>2 DEF Shows
<1>9. CASE UpdateStep(r)
  <2>1. UNCHANGED <<task, run, answer, seen>>
    BY <1>9 DEF UpdateStep, UpdateProfile, UpdateUser
  <2>2. QED
    BY <1>2, <2>1 DEF Shows, At
<1>10. QED
  BY <1>2, <1>3, <1>4, <1>5, <1>6, <1>7, <1>8, <1>9, WhoseStep DEF OwnStep, RunStep

(* An import of a run writes what the directory shows.                      *)
LEMMA ListedProfiles ==
  ASSUME SyncInv, NEW r \in Run, Shows(r), NEW a \in Account, ImportStep(r, a),
         NEW b \in Account, directory[b] = "enabled",
         EnabledProfile(b) \/ (SaveProfile(r, a) /\ Current(r, a).account = b)
  PROVE  EnabledProfile(b)'
<1>1. r \in Actor /\ TypeOK /\ StackInv
  BY RunAssumption DEF SyncInv, ImportInv
<1>2. CASE SaveProfile(r, a)
  <2> DEFINE x == Current(r, a).account
  <2>1. ~At(r, a, "idle")
    BY <1>2 DEF SaveProfile, At
  <2>2. /\ Current(r, a) \in Frame /\ Current(r, a) = task[r][a].stack[1] /\ x \in Account
        /\ 1 \in 1..Len(task[r][a].stack)
    BY <1>1, <2>1, TaskTyped DEF WellStacked
  <2>3. Current(r, a).status = directory[x]
    BY <2>2 DEF Shows
  <2>4. PICK i \in Row : profile' = [profile EXCEPT ![x][i] = directory[x]]
    BY <1>2, <2>3 DEF SaveProfile
  <2>5. /\ profile'[x][i] = directory[x]
        /\ b # x => profile'[b] = profile[b]
    BY <1>1, <2>2, <2>4 DEF TypeOK
  <2>6. QED
    BY <2>5 DEF EnabledProfile
<1>3. CASE ~SaveProfile(r, a)
  <2>1. profile' = profile
    BY <1>3 DEF ImportStep, FollowManager, LeaveManagerOut, FindProfile, SaveProfileFails,
       FindUser, SaveUser, SaveUserFails, dbVars
  <2>2. QED
    BY <1>3, <2>1 DEF EnabledProfile
<1>4. QED
  BY <1>2, <1>3

LEMMA ImportGrants ==
  ASSUME SyncInv, NEW r \in Run, Shows(r), faults = 0, faults' = 0, directory' = directory,
         NEW a \in Account, Granted(r, a), ~Misread(r, a),
         NEW b \in Account, ImportStep(r, b)
  PROVE  Granted(r, a)'
<1>1. r \in Actor /\ TypeOK /\ StackInv /\ ~Fault
  BY RunAssumption DEF SyncInv, ImportInv, Fault
<1>2. EnabledProfile(a) /\ directory[a] = "enabled" => EnabledProfile(a)'
  BY ListedProfiles
<1>3. CASE b # a
  <2>1. task'[r][a] = task[r][a]
    BY <1>1, <1>3, NextPc
  <2>2. a \in UserAccount => user'[a] = user[a]
    BY <1>1, <1>3 DEF ImportStep, FollowManager, LeaveManagerOut, FindProfile, SaveProfile,
       SaveProfileFails, FindUser, SaveUser, SaveUserFails, dbVars, TypeOK
  <2>3. QED
    BY <1>2, <2>1, <2>2 DEF Granted, At
<1>4. CASE b = a
  <2>1. ~SaveProfileFails(r, a)
    BY <1>1 DEF SaveProfileFails
  <2>2. a \in UserAccount => ~SaveUserFails(r, a)
    BY <1>1 DEF SaveUserFails, Conflicts, Granted
  <2>3. /\ task'[r][a].pc # "failed"
        /\ task'[r][a].pc = "userSave" => a \in UserAccount /\ FindUser(r, a)
        /\ task'[r][a].pc = "userFind" \/ (task'[r][a].pc = "saved" /\ a \notin UserAccount) =>
             SaveProfile(r, a) /\ Current(r, a).account = a
        /\ task'[r][a].pc = "saved" /\ a \in UserAccount => SaveUser(r, a)
    BY <1>1, <1>4, <2>1, <2>2, NextPc
  <2>4. ASSUME a \in UserAccount, task'[r][a].pc = "userSave", task'[r][a].found = 0
        PROVE  user'[a] = "none"
    <3>1. FindUser(r, a) /\ UserRead(a) = user[a]
      BY <2>3, <2>4 DEF FindUser, Misread
    <3>2. Found(r, a, IF user[a] = "none" THEN 0 ELSE 1, "userSave") /\ user' = user
      BY <1>1, <3>1 DEF FindUser, dbVars
    <3>3. task'[r][a].found = IF user[a] = "none" THEN 0 ELSE 1
      BY <1>1, <3>2 DEF Found, TypeOK, Task
    <3>4. QED
      BY <2>4, <3>2, <3>3
  <2>5. ASSUME task'[r][a].pc \in {"userFind", "userSave", "saved"}, directory[a] = "enabled"
        PROVE  EnabledProfile(a)'
    <3>1. \/ SaveProfile(r, a) /\ Current(r, a).account = a
          \/ At(r, a, "userFind") \/ At(r, a, "userSave")
      BY <2>3, <2>5 DEF FindUser, SaveUser
    <3>2. CASE SaveProfile(r, a) /\ Current(r, a).account = a
      BY <1>4, <2>5, <3>2, ListedProfiles
    <3>3. CASE At(r, a, "userFind") \/ At(r, a, "userSave")
      BY <1>2, <2>5, <3>3 DEF Granted, At
    <3>4. QED
      BY <3>1, <3>2, <3>3
  <2>6. QED
    BY <2>3, <2>4, <2>5 DEF Granted, At
<1>5. QED
  BY <1>3, <1>4

LEMMA RunStepGrants ==
  ASSUME SyncInv, NEW r \in Run, directory' = directory,
         NEW a \in Account, Granted(r, a), RunStep(r)
  PROVE  Granted(r, a)'
<1>1. UNCHANGED <<user, profile>>
  BY DEF RunStep, SyncGroups, ListDomain, StartImports, NoUsersFound, BlockProfiles,
     BlockUsers, dbVars, importVars
<1>2. CASE StartImports(r)
  <2>1. task'[r][a].pc \in {"idle", "manager"}
    BY <1>2, ImportsBegin
  <2>2. QED
    BY <2>1 DEF Granted, At
<1>3. CASE ~StartImports(r)
  <2>1. UNCHANGED task
    BY <1>3 DEF RunStep, SyncGroups, ListDomain, NoUsersFound, BlockProfiles, BlockUsers,
       importVars
  <2>2. QED
    BY <1>1, <2>1 DEF Granted, EnabledProfile, At
<1>4. QED
  BY <1>2, <1>3

LEMMA UpdateGrants ==
  ASSUME SyncInv, NEW r \in Run, directory' = directory,
         NEW a \in Account, Granted(r, a), UpdateStep(r)
  PROVE  Granted(r, a)'
<1>1. SyncTypeOK /\ TypeOK /\ UNCHANGED task
  BY DEF SyncInv, ImportInv, UpdateStep, UpdateProfile, UpdateUser
<1>2. Settled(r)
  BY <1>1 DEF SyncInv, JudgeInv, Drained, UpdateStep, UpdateProfile, UpdateUser
<1>3. ASSUME directory[a] = "enabled", task[r][a].pc \in {"userFind", "userSave", "saved"}
      PROVE  EnabledProfile(a)'
  <2>1. EnabledProfile(a) /\ At(r, a, "saved")
    BY <1>2, <1>3 DEF Granted, Settled, At
  <2>2. ASSUME NEW b \in Account, NEW i \in Row, UpdateProfile(r, b, i)
        PROVE  EnabledProfile(a)'
    <3>1. /\ a # b => profile'[a] = profile[a]
          /\ profile'[b][i] = Verdict(r, b)
      BY <1>1, <2>2 DEF UpdateProfile, TypeOK
    <3>2. b = a => profile'[b][i] = "enabled"
      BY <2>1, <3>1 DEF Verdict, Imported
    <3>3. QED
      BY <2>1, <3>1, <3>2 DEF EnabledProfile
  <2>3. (\E b \in UserAccount : UpdateUser(r, b)) => profile' = profile
    BY DEF UpdateUser
  <2>4. QED
    BY <2>1, <2>2, <2>3 DEF UpdateStep, EnabledProfile
<1>4. ~At(r, a, "userSave")
  BY <1>2 DEF Settled, At
<1>5. QED
  BY <1>1, <1>3, <1>4 DEF Granted, At

LEMMA ListedStep ==
  ASSUME SyncInv, PhaseInv, PhaseInv', ListedInv, [SyncNext]_vars, Undisturbed
  PROVE  ListedInv'
<1> SUFFICES ASSUME faults' = 0, changes' = 0, NEW r \in Run
             PROVE  Shows(r)' /\ \A a \in Account \ disturbed'[r] : Granted(r, a)'
  BY DEF ListedInv, Shows, Granted, EnabledProfile
<1>1. faults = 0 /\ changes = 0 /\ directory' = directory /\ ~Crash
  BY NoNews DEF Crash, Fault
<1>2. Shows(r) /\ \A a \in Account \ disturbed[r] : Granted(r, a)
  BY <1>1 DEF ListedInv, Shows, Granted, EnabledProfile
<1>3. Shows(r)'
  BY <1>2, ShowsStep
<1>4. ASSUME NEW a \in Account \ disturbed'[r] PROVE Granted(r, a)'
  <2>1. CASE run'[r] = "idle"
    <3>1. At(r, a, "idle")'
      BY <2>1 DEF PhaseInv
    <3>2. QED
      BY <3>1 DEF Granted, At
  <2>2. CASE run'[r] # "idle"
    <3>1. a \notin disturbed[r] /\ ~Disturbs(r, a) /\ ~Misread(r, a)
      BY <2>2 DEF Undisturbed
    <3>2. Granted(r, a)
      BY <1>2, <3>1
    <3>3. OthersStep(r) => Granted(r, a)'
      BY <1>1, <3>1, <3>2, KeptByOthers DEF OthersStep, Granted, EnabledProfile, At
    <3>4. QED
      BY <1>1, <1>2, <3>1, <3>2, <3>3, WhoseStep, ImportGrants, RunStepGrants, UpdateGrants
         DEF OwnStep
  <2>3. QED
    BY <2>1, <2>2
<1>5. QED
  BY <1>3, <1>4

PromiseInv == SyncInv /\ PhaseInv /\ RunInv /\ ListedInv

LEMMA PromiseInit ==
  ASSUME SyncInit
  PROVE  PromiseInv
<1>1. \A r \in Run, a \in Account : task[r][a] = IdleTask /\ seen[r][a] = "absent"
  <2>1. task = [p \in Actor |-> [a \in Account |-> IdleTask]]
    BY DEF SyncInit, ImportInit
  <2>2. seen = [r \in Run |-> [a \in Account |-> "absent"]]
    BY DEF SyncInit
  <2>3. QED
    BY <2>1, <2>2, RunAssumption
<1>2. \A r \in Run : run[r] = "idle" /\ userUpdates[r] = {}
  BY DEF SyncInit
<1>3. IdleTask.pc = "idle" /\ IdleTask.stack = <<>>
  BY DEF IdleTask
<1>4. PhaseInv
  BY <1>1, <1>3 DEF PhaseInv, Settled, At
<1>5. RunInv
  BY <1>1, <1>2, <1>3 DEF RunInv, At, Account
<1>6. ListedInv
  BY <1>1, <1>2, <1>3 DEF ListedInv, At
<1>7. QED
  BY <1>4, <1>5, <1>6, SyncInitInv DEF PromiseInv

LEMMA PromiseInvariance == SteadySpec => []PromiseInv
<1>1. SteadyInit => PromiseInv
  BY PromiseInit DEF SteadyInit
<1>2. PromiseInv /\ [SteadyNext]_steadyVars => PromiseInv'
  <2> SUFFICES ASSUME PromiseInv, [SteadyNext]_steadyVars PROVE PromiseInv'
    OBVIOUS
  <2>1. [SyncNext]_vars /\ Undisturbed
    BY Watched
  <2>2. SyncInv' /\ PhaseInv'
    BY <2>1, SyncInvStep, PhaseStep DEF PromiseInv
  <2>3. QED
    BY <2>1, <2>2, RunInvStep, ListedStep DEF PromiseInv
<1>3. QED
  BY <1>1, <1>2, PTL DEF SteadySpec

LEMMA PromiseFailsClosed == PromiseInv => FailsClosed
BY DEF PromiseInv, RunInv, FailsClosed, Drained

LEMMA PromiseListed == PromiseInv => ListedHaveAccess
<1> SUFFICES ASSUME PromiseInv, NEW r \in Run, run[r] = "done", answer[r] = "true", Drained(r),
                    NEW a \in Account \ disturbed[r],
                    seen[r][a] = "enabled", faults = 0, changes = 0
             PROVE  /\ a \in UserAccount => user[a] = "enabled"
                    /\ \E i \in Row : profile[a][i] = "enabled"
  BY DEF ListedHaveAccess
<1>1. ~At(r, a, "idle") /\ Settled(r)
  BY DEF PromiseInv, ListedInv, PhaseInv
<1>2. At(r, a, "saved")
  BY <1>1 DEF PromiseInv, ListedInv, Settled, At
<1>3. directory[a] = "enabled"
  BY DEF PromiseInv, ListedInv
<1>4. QED
  BY <1>2, <1>3 DEF PromiseInv, RunInv, ListedInv, At

(* A synchronization that answered true has failed closed once its updates  *)
(* are through, for any logins and synchronizations beside it, with a       *)
(* replica and whatever fails: see FailsClosed.                             *)
THEOREM RunFailsClosed == SteadySpec => []FailsClosed
BY PromiseInvariance, PromiseFailsClosed, PTL

(* ... and without failures and changes of the directory it locks nobody    *)
(* out: see ListedHaveAccess.                                               *)
THEOREM RunLocksNobodyOut == SteadySpec => []ListedHaveAccess
BY PromiseInvariance, PromiseListed, PTL

-----------------------------------------------------------------------------
(* Access is given and taken justly.                                        *)

Remembers == steady' = {a \in steady : directory'[a] = "enabled"}

(* What the portal's cache may say beside the directory was said by it.     *)
LEMMA CacheRemembers ==
  ASSUME [SyncNext]_vars
  PROVE  \/ recent' = recent
         \/ \E x \in Account : recent' = [recent EXCEPT ![x] = @ \cup {directory[x]}]
<1> DEFINE Kept == \/ recent' = recent
                   \/ \E x \in Account : recent' = [recent EXCEPT ![x] = @ \cup {directory[x]}]
<1>1. ASSUME NEW p \in Actor, NEW a \in Account, ImportStep(p, a) PROVE Kept
  BY <1>1 DEF ImportStep, FollowManager, LeaveManagerOut, FindProfile, SaveProfile,
     SaveProfileFails, FindUser, SaveUser, SaveUserFails, sourceVars
<1>2. ASSUME NEW p \in Actor, LoginStep(p) PROVE Kept
  BY <1>2 DEF LoginStep, Login, Answer, sourceVars
<1>3. ASSUME NEW a \in Account, NEW s, ChangeDirectory(a, s) PROVE Kept
  BY <1>3 DEF ChangeDirectory, Says
<1>4. Replicate => Kept
  BY DEF Replicate, sourceVars
<1>5. ASSUME NEW r \in Run, RunStep(r) \/ UpdateStep(r) PROVE Kept
  BY <1>5 DEF RunStep, SyncGroups, ListDomain, StartImports, NoUsersFound,
     BlockProfiles, BlockUsers, importVars, sourceVars, UpdateStep, UpdateProfile, UpdateUser
<1>6. Crash \/ UNCHANGED vars => Kept
  BY DEF Crash, sourceVars, vars, importVars
<1> HIDE DEF Kept
<1>7. Kept
  BY <1>1, <1>2, <1>3, <1>4, <1>5, <1>6 DEF SyncNext, PortalStep, Environment
<1>8. QED
  BY <1>7 DEF Kept

LEMMA SteadyShrinks ==
  ASSUME SyncInv, SteadyInv, Remembers, [SyncNext]_vars
  PROVE  /\ steady' \subseteq steady /\ steady' \subseteq Account
         /\ \A a \in steady' : directory'[a] = "enabled" /\ recent'[a] \subseteq {"enabled"}
<1>1. /\ steady' \subseteq steady /\ steady' \subseteq Account
      /\ \A a \in steady' : directory'[a] = "enabled"
  BY DEF SteadyInv, Remembers
<1>2. TypeOK
  BY DEF SyncInv, ImportInv
<1>3. ASSUME NEW a \in steady PROVE recent'[a] \subseteq {"enabled"}
  <2>1. a \in Account /\ directory[a] = "enabled" /\ recent[a] \subseteq {"enabled"}
    BY DEF SteadyInv, SteadyShown
  <2>2. CASE recent' = recent
    BY <2>1, <2>2
  <2>3. ASSUME NEW x \in Account, recent' = [recent EXCEPT ![x] = @ \cup {directory[x]}]
        PROVE  recent'[a] \subseteq {"enabled"}
    <3>1. recent'[a] = IF x = a THEN recent[a] \cup {directory[a]} ELSE recent[a]
      BY <1>2, <2>1, <2>3 DEF TypeOK
    <3>2. QED
      BY <2>1, <3>1
  <2>4. QED
    BY <2>2, <2>3, CacheRemembers
<1>4. QED
  BY <1>1, <1>3

LEMMA FaultsCount ==
  ASSUME SyncInv, [SyncNext]_vars, faults' = 0
  PROVE  faults = 0 /\ ~Fault
<1>1. faults \in Nat /\ ~Fault
  BY DEF SyncInv, SyncTypeOK, TypeOK, Fault
<1>2. ASSUME NEW p \in Actor, NEW a \in Account, ImportStep(p, a) PROVE faults = 0
  BY <1>1, <1>2 DEF ImportStep, FollowManager, LeaveManagerOut, FindProfile, SaveProfile,
     SaveProfileFails, FindUser, SaveUser, SaveUserFails
<1>3. ASSUME NEW p \in Actor, LoginStep(p) PROVE faults = 0
  BY <1>3 DEF LoginStep, Login, Answer
<1>4. Environment => faults = 0
  BY DEF Environment, ChangeDirectory, Replicate
<1>5. ASSUME NEW r \in Run, RunStep(r) \/ UpdateStep(r) PROVE faults = 0
  BY <1>1, <1>5 DEF RunStep, SyncGroups, ListDomain, StartImports, NoUsersFound,
     BlockProfiles, BlockUsers, importVars, UpdateStep, UpdateProfile, UpdateUser
<1>6. ~Crash /\ (UNCHANGED vars => faults = 0)
  BY <1>1 DEF Crash, vars, importVars
<1>7. QED
  BY <1>1, <1>2, <1>3, <1>4, <1>5, <1>6 DEF SyncNext, PortalStep

(* Rows of the user table stay, and the replica gets what was stored.       *)
LEMMA UserRowsStay ==
  ASSUME SyncInv, [SyncNext]_vars
  PROVE  /\ \A a \in UserAccount : user[a] # "none" => user'[a] # "none"
         /\ userCopy' = userCopy \/ userCopy' = user
<1> DEFINE Stay == /\ \A a \in UserAccount : user[a] # "none" => user'[a] # "none"
                   /\ userCopy' = userCopy \/ userCopy' = user
<1>1. TypeOK /\ StackInv
  BY DEF SyncInv, ImportInv
<1>2. ASSUME NEW p \in Actor, NEW a \in Account, ImportStep(p, a) PROVE Stay
  <2>1. CASE SaveUser(p, a)
    <3>1. Current(p, a).status \in Status
      BY <1>1, <2>1, TaskTyped DEF SaveUser, At
    <3>2. user' = [user EXCEPT ![a] = Current(p, a).status] /\ userCopy' = userCopy
      BY <2>1 DEF SaveUser, copyVars
    <3>3. QED
      BY <1>1, <3>1, <3>2 DEF TypeOK, Status
  <2>2. CASE ~SaveUser(p, a)
    BY <1>2, <2>2 DEF ImportStep, FollowManager, LeaveManagerOut, FindProfile, SaveProfile,
       SaveProfileFails, FindUser, SaveUserFails, dbVars, copyVars
  <2>3. QED
    BY <2>1, <2>2
<1>3. ASSUME NEW p \in Actor, LoginStep(p) PROVE Stay
  BY <1>3 DEF LoginStep, Login, Answer, dbVars, copyVars
<1>4. Environment => Stay
  BY DEF Environment, ChangeDirectory, Replicate, dbVars, copyVars
<1>5. ASSUME NEW r \in Run, RunStep(r) PROVE Stay
  BY <1>5 DEF RunStep, SyncGroups, ListDomain, StartImports, NoUsersFound,
     BlockProfiles, BlockUsers, importVars, dbVars, copyVars
<1>6. ASSUME NEW r \in Run, UpdateStep(r) PROVE Stay
  <2>1. ASSUME NEW a \in UserAccount, UpdateUser(r, a) PROVE Stay
    <3>1. user' = [user EXCEPT ![a] = Verdict(r, a)] /\ userCopy' = userCopy
      BY <2>1 DEF UpdateUser, copyVars
    <3>2. Verdict(r, a) # "none"
      BY DEF Verdict
    <3>3. QED
      BY <1>1, <3>1, <3>2 DEF TypeOK
  <2>2. ASSUME NEW a \in Account, NEW i \in Row, UpdateProfile(r, a, i) PROVE Stay
    BY <2>2 DEF UpdateProfile, copyVars
  <2>3. QED
    BY <1>6, <2>1, <2>2 DEF UpdateStep
<1>7. Crash => Stay
  BY DEF Crash, dbVars, copyVars
<1>8. UNCHANGED vars => Stay
  BY DEF vars, importVars
<1>9. QED
  BY <1>2, <1>3, <1>4, <1>5, <1>6, <1>7, <1>8 DEF SyncNext, PortalStep

(* Whatever a step does to answers and tasks, rows and history keep theirs. *)
LEMMA SteadyKept ==
  ASSUME SyncInv, SteadyInv, Remembers, [SyncNext]_vars,
         SteadyShown', SteadyFrames', SteadyImports'
  PROVE  SteadyInv'
<1>1. SteadyRows'
  BY SteadyShrinks, UserRowsStay DEF SteadyInv, SteadyRows
<1>2. QED
  BY <1>1, SteadyShrinks DEF SteadyInv

(* An import that has just started, from an answer that knows who is steady.*)
FreshSteady(t, a) ==
  t = IdleTask \/ \E s \in Status : (a \in steady => s = "enabled") /\ t = Started(a, s)

LEMMA FreshIsSteady ==
  ASSUME NEW a \in Account, NEW t, FreshSteady(t, a)
  PROVE  /\ t.pc \notin {"failed", "userSave"}
         /\ \A k \in 1..Len(t.stack) :
              t.stack[k].account \in steady => t.stack[k].status = "enabled"
<1> DEFINE Fits == /\ t.pc \notin {"failed", "userSave"}
                   /\ \A k \in 1..Len(t.stack) :
                        t.stack[k].account \in steady => t.stack[k].status = "enabled"
<1>1. ASSUME t = IdleTask PROVE Fits
  <2>1. t.pc = "idle" /\ t.stack = <<>>
    BY <1>1 DEF IdleTask
  <2>2. 1..Len(t.stack) = {}
    BY <2>1
  <2>3. QED
    BY <2>1, <2>2
<1>2. ASSUME NEW s \in Status, a \in steady => s = "enabled", t = Started(a, s)
      PROVE  Fits
  <2> DEFINE f == [account |-> a, status |-> s]
  <2>1. f.account = a /\ f.status = s
    OBVIOUS
  <2> HIDE DEF f
  <2>2. t.pc = "manager" /\ t.stack = <<f>>
    BY <1>2 DEF Started, f
  <2>3. \A k \in 1..Len(<<f>>) : <<f>>[k] = f
    OBVIOUS
  <2>4. QED
    BY <1>2, <2>1, <2>2, <2>3
<1>3. Fits
  <2> HIDE DEF Fits
  <2>1. QED
    BY <1>1, <1>2 DEF FreshSteady
<1>4. QED
  BY <1>3

(* Steps that start and drop imports, and those that leave them alone.      *)
LEMMA SteadyTasks ==
  ASSUME SyncInv, SteadyInv, Remembers, [SyncNext]_vars, UNCHANGED <<listing, seen>>,
         \A p \in Actor, a \in Account :
           task'[p][a] = task[p][a] \/ FreshSteady(task'[p][a], a)
  PROVE  SteadyInv'
<1>1. SteadyShown'
  BY SteadyShrinks DEF SteadyInv, SteadyShown
<1>2. SteadyFrames'
  <2> SUFFICES ASSUME NEW p \in Actor, NEW a \in Account, NEW k \in 1..Len(task'[p][a].stack),
                      task'[p][a].stack[k].account \in steady
               PROVE  task'[p][a].stack[k].status = "enabled"
    BY SteadyShrinks DEF SteadyFrames
  <2>1. CASE task'[p][a] = task[p][a]
    BY <2>1 DEF SteadyInv, SteadyFrames
  <2>2. CASE FreshSteady(task'[p][a], a)
    BY <2>2, FreshIsSteady
  <2>3. QED
    BY <2>1, <2>2
<1>3. SteadyImports'
  <2> SUFFICES ASSUME faults = 0, NEW a \in steady, NEW p \in Actor
               PROVE  ~At(p, a, "failed")' /\ (At(p, a, "userSave")' => task'[p][a].found # 0)
    BY SteadyShrinks, FaultsCount DEF SteadyImports
  <2>1. a \in Account
    BY DEF SteadyInv
  <2>2. CASE task'[p][a] = task[p][a]
    BY <2>2 DEF SteadyInv, SteadyImports, At
  <2>3. CASE FreshSteady(task'[p][a], a)
    BY <2>1, <2>3, FreshIsSteady DEF At
  <2>4. QED
    BY <2>1, <2>2, <2>3
<1>4. QED
  BY <1>1, <1>2, <1>3, SteadyKept

LEMMA SteadyImport ==
  ASSUME SyncInv, SteadyInv, Remembers, [SyncNext]_vars,
         NEW p \in Actor, NEW a \in Account, ImportStep(p, a), UNCHANGED syncVars
  PROVE  SteadyInv'
<1>1. TypeOK /\ StackInv /\ UNCHANGED <<listing, seen>>
  BY DEF SyncInv, ImportInv, syncVars
<1>2. SteadyShown'
  BY <1>1, SteadyShrinks DEF SteadyInv, SteadyShown
<1>3. \A q \in Actor, b \in Account : q # p \/ b # a => task'[q][b] = task[q][b]
  BY <1>1, NextPc
<1>4. SteadyFrames'
  <2> SUFFICES ASSUME NEW q \in Actor, NEW b \in Account, NEW k \in 1..Len(task'[q][b].stack),
                      task'[q][b].stack[k].account \in steady
               PROVE  task'[q][b].stack[k].status = "enabled"
    BY SteadyShrinks DEF SteadyFrames
  <2>1. CASE q # p \/ b # a
    BY <1>3, <2>1 DEF SteadyInv, SteadyFrames
  <2>2. CASE q = p /\ b = a
    <3>1. FramesFrom(p, task'[p][a], task[p][a])
      BY <1>1, StackOfStep
    <3>2. \/ \E j \in 1..Len(task[p][a].stack) : task'[p][a].stack[k] = task[p][a].stack[j]
          \/ task'[p][a].stack[k].status \in Answers(p, task'[p][a].stack[k].account)
      BY <2>2, <3>1 DEF FramesFrom
    <3>3. \A j \in 1..Len(task[p][a].stack) :
            task[p][a].stack[j].account \in steady => task[p][a].stack[j].status = "enabled"
      BY DEF SteadyInv, SteadyFrames
    <3>4. Answers(p, task'[q][b].stack[k].account) \subseteq {"enabled"}
      BY DEF SteadyInv, SteadyShown, Answers
    <3>5. QED
      BY <2>2, <3>2, <3>3, <3>4
  <2>3. QED
    BY <2>1, <2>2
<1>5. SteadyImports'
  <2> SUFFICES ASSUME faults = 0, ~Fault, NEW b \in steady, NEW q \in Actor
               PROVE  ~At(q, b, "failed")' /\ (At(q, b, "userSave")' => task'[q][b].found # 0)
    BY SteadyShrinks, FaultsCount DEF SteadyImports
  <2>1. b \in Account
    BY DEF SteadyInv
  <2>2. CASE q # p \/ b # a
    BY <1>3, <2>1, <2>2 DEF SteadyInv, SteadyImports, At
  <2>3. CASE q = p /\ b = a
    <3>1. ~SaveProfileFails(p, a)
      BY DEF SaveProfileFails
    <3>2. a \in UserAccount => ~SaveUserFails(p, a)
      BY <2>3 DEF SaveUserFails, Conflicts, SteadyInv, SteadyImports
    <3>3. ~At(p, a, "failed")' /\ (At(p, a, "userSave")' => a \in UserAccount /\ FindUser(p, a))
      BY <1>1, <3>1, <3>2, NextPc DEF At
    <3>4. ASSUME a \in UserAccount, FindUser(p, a) PROVE task'[p][a].found = 1
      <4>1. UserRead(a) # "none"
        BY <2>3, <3>4 DEF UserRead, SteadyInv, SteadyRows
      <4>2. Found(p, a, 1, "userSave")
        BY <3>4, <4>1 DEF FindUser
      <4>3. task[p][a] \in [pc : TaskPc, stack : Seq(Frame), found : Nat]
        BY <1>1 DEF TypeOK, Task
      <4>4. QED
        BY <1>1, <4>2, <4>3 DEF Found, TypeOK
    <3>5. QED
      BY <2>3, <3>3, <3>4
  <2>4. QED
    BY <2>2, <2>3
<1>6. QED
  BY <1>2, <1>4, <1>5, SteadyKept

LEMMA SteadyList ==
  ASSUME SyncInv, SteadyInv, Remembers, [SyncNext]_vars,
         NEW r \in Run, NEW d \in Domain, ListDomain(r, d)
  PROVE  SteadyInv'
<1>1. SyncTypeOK /\ task' = task
  BY DEF SyncInv, ListDomain
<1>2. SteadyShown'
  <2> SUFFICES ASSUME NEW a \in steady, NEW q \in Run, listing'[q][DomainOf[a]] = "ok"
               PROVE  seen'[q][a] = "enabled"
    BY SteadyShrinks DEF SteadyShown
  <2>1. a \in Account /\ DomainOf[a] \in Domain /\ directory[a] = "enabled"
    BY DomainAssumption DEF SteadyInv, SteadyShown
  <2>2. CASE q # r \/ DomainOf[a] # d
    <3>1. listing'[q][DomainOf[a]] = listing[q][DomainOf[a]] /\ seen'[q][a] = seen[q][a]
      BY <1>1, <2>1, <2>2 DEF ListDomain, SyncTypeOK
    <3>2. QED
      BY <3>1 DEF SteadyInv, SteadyShown
  <2>3. CASE q = r /\ DomainOf[a] = d
    <3>1. seen' = [seen EXCEPT ![r] =
                     [b \in Account |-> IF DomainOf[b] = d THEN directory[b] ELSE @[b]]]
      BY <1>1, <2>3 DEF ListDomain, SyncTypeOK
    <3>2. QED
      BY <1>1, <2>1, <2>3, <3>1 DEF SyncTypeOK
  <2>4. QED
    BY <2>2, <2>3
<1>3. SteadyFrames'
  BY <1>1, SteadyShrinks DEF SteadyInv, SteadyFrames
<1>4. SteadyImports'
  BY <1>1, SteadyShrinks, FaultsCount DEF SteadyInv, SteadyImports, At
<1>5. QED
  BY <1>2, <1>3, <1>4, SteadyKept

LEMMA SteadyStep ==
  ASSUME SyncInv, SteadyInv, [SteadyNext]_steadyVars
  PROVE  /\ [SyncNext]_vars /\ Remembers
         /\ SteadyInv'
<1>1. [SyncNext]_vars /\ Remembers
  BY DEF SteadyNext, steadyVars, Remembers, vars, importVars, SteadyInv, SteadyShown
<1>2. SyncTypeOK /\ TypeOK
  BY DEF SyncInv, ImportInv
<1>3. CASE PortalStep
  <2>1. UNCHANGED syncVars /\ UNCHANGED <<listing, seen>>
    BY <1>3 DEF PortalStep, syncVars
  <2>2. ASSUME NEW p \in Actor, LoginStep(p) PROVE SteadyInv'
    <3>1. ASSUME NEW a \in Account, Login(p, a) PROVE SteadyInv'
      <4>0. PICK s \in Answers(p, a) \ {"absent"} : task' = [task EXCEPT ![p][a] = Started(a, s)]
        BY <3>1 DEF Login
      <4>1. s \in Status /\ (a \in steady => s = "enabled")
        BY <1>2, AnswerTyped DEF Answers, SteadyInv, SteadyShown
      <4>2. \A q \in Actor, b \in Account : task'[q][b] = task[q][b]
              \/ (b = a /\ task'[q][b] = Started(a, s))
        BY <1>2, <4>0 DEF TypeOK
      <4>3. QED
        BY <1>1, <2>1, <4>1, <4>2, SteadyTasks DEF FreshSteady
    <3>2. ASSUME NEW a \in Account, Answer(p, a) PROVE SteadyInv'
      <4>1. \A q \in Actor, b \in Account : task'[q][b] = task[q][b] \/ task'[q][b] = IdleTask
        BY <1>2, <3>2 DEF Answer, TypeOK
      <4>2. QED
        BY <1>1, <2>1, <4>1, SteadyTasks DEF FreshSteady
    <3>3. QED
      BY <2>2, <3>1, <3>2 DEF LoginStep
  <2>3. ASSUME Environment PROVE SteadyInv'
    <3>1. task' = task
      BY <2>3 DEF Environment, ChangeDirectory, Replicate
    <3>2. QED
      BY <1>1, <2>1, <3>1, SteadyTasks
  <2>4. QED
    BY <1>1, <1>3, <2>1, <2>2, <2>3, SteadyImport DEF PortalStep
<1>4. ASSUME NEW r \in Run, StartImports(r) PROVE SteadyInv'
  <2>1. /\ UNCHANGED <<listing, seen>> /\ IsNormal(r) /\ r \in Actor
        /\ \A q \in Actor, a \in Account : task'[q][a] = task[q][a]
             \/ (q = r /\ task'[q][a] = IF seen[r][a] = "absent" THEN IdleTask
                                       ELSE Started(a, seen[r][a]))
    BY <1>2, <1>4, RunAssumption DEF StartImports, TypeOK
  <2>2. \A a \in Account :
          /\ seen[r][a] # "absent" => seen[r][a] \in Status
          /\ a \in steady => seen[r][a] = "enabled"
    BY <1>2, <2>1, DomainAssumption DEF SyncTypeOK, IsNormal, SteadyInv, SteadyShown
  <2>3. ASSUME NEW q \in Actor, NEW a \in Account, task'[q][a] # task[q][a]
        PROVE  FreshSteady(task'[q][a], a)
    <3>1. CASE seen[r][a] = "absent"
      BY <2>1, <2>3, <3>1, Zenon DEF FreshSteady
    <3>2. CASE seen[r][a] # "absent"
      <4>1. task'[q][a] = Started(a, seen[r][a]) /\ seen[r][a] \in Status
        BY <2>1, <2>2, <2>3, <3>2
      <4>2. a \in steady => seen[r][a] = "enabled"
        BY <2>2
      <4>3. QED
        BY <4>1, <4>2 DEF FreshSteady
    <3>3. QED
      BY <3>1, <3>2
  <2>4. QED
    BY <1>1, <2>1, <2>3, SteadyTasks
<1>5. ASSUME NEW r \in Run, NEW d \in Domain, ListDomain(r, d) PROVE SteadyInv'
  BY <1>1, <1>5, SteadyList
<1>6. ASSUME NEW r \in Run,
             \/ SyncGroups(r) \/ NoUsersFound(r) \/ BlockProfiles(r) \/ BlockUsers(r)
             \/ UpdateStep(r)
      PROVE  SteadyInv'
  <2>1. UNCHANGED <<task, listing, seen>>
    BY <1>6 DEF SyncGroups, NoUsersFound, BlockProfiles, BlockUsers, UpdateStep,
       UpdateProfile, UpdateUser, importVars
  <2>2. QED
    BY <1>1, <2>1, SteadyTasks
<1>7. CASE Crash
  <2>1. \A q \in Actor, b \in Account : task'[q][b] = task[q][b] \/ task'[q][b] = IdleTask
    BY <1>2, <1>7 DEF Crash, TypeOK
  <2>2. UNCHANGED <<listing, seen>>
    BY <1>7 DEF Crash
  <2>3. QED
    BY <1>1, <2>1, <2>2, SteadyTasks DEF FreshSteady
<1>8. CASE UNCHANGED vars
  <2>1. UNCHANGED <<task, listing, seen>>
    BY <1>8 DEF vars, importVars, syncVars
  <2>2. QED
    BY <1>1, <2>1, SteadyTasks
<1>9. QED
  BY <1>1, <1>3, <1>4, <1>5, <1>6, <1>7, <1>8 DEF SyncNext, RunStep

LEMMA SteadyStarts ==
  ASSUME SteadyInit
  PROVE  SyncInv /\ SteadyInv
<1>1. SyncInv
  BY SyncInitInv DEF SteadyInit
<1>2. /\ \A p \in Actor, a \in Account : task[p][a] = IdleTask
      /\ \A r \in Run, d \in Domain : listing[r][d] # "ok"
      /\ userCopy = user
  <2>0. SyncInit
    BY DEF SteadyInit
  <2>1. task = [p \in Actor |-> [a \in Account |-> IdleTask]] /\ userCopy = user
    BY <2>0 DEF SyncInit, ImportInit
  <2>2. listing = [r \in Run |-> [d \in Domain |-> "unread"]]
    BY <2>0 DEF SyncInit
  <2>3. QED
    BY <2>1, <2>2
<1>3. IdleTask.pc = "idle" /\ 1..Len(IdleTask.stack) = {}
  BY DEF IdleTask
<1>4. steady \subseteq Account /\ SteadyShown /\ SteadyRows
  BY <1>2, DomainAssumption DEF SteadyInit, SteadyShown, SteadyRows
<1>5. SteadyFrames /\ SteadyImports
  BY <1>2, <1>3, <1>4 DEF SteadyFrames, SteadyImports, At
<1>6. QED
  BY <1>1, <1>4, <1>5 DEF SteadyInv

(* The refinement.  Steps that store nothing at most teach and excuse.      *)
LEMMA LearningIsJust ==
  ASSUME SyncInv, SyncInv', SteadyInv, SteadyInv', Remembers, [SyncNext]_vars,
         UNCHANGED dbVars, everEnabled \subseteq everEnabled'
  PROVE  Abstract!Learn
<1>1. Admitted' = Admitted
  BY DEF Admitted, dbVars
<1>2. everEnabled' \subseteq Account
  BY DEF SyncInv, SyncTypeOK, TypeOK
<1>3. Excused \subseteq Excused' /\ Excused' \subseteq Account
  BY SteadyShrinks, FaultsCount DEF Excused
<1>4. QED
  BY <1>1, <1>2, <1>3 DEF Abstract!Learn

(* A step that stores one row and teaches nothing.                          *)
StoresOnly(x, s) ==
  \/ /\ x \in UserAccount
     /\ user' = [user EXCEPT ![x] = s] /\ profile' = profile
  \/ /\ \E i \in Row : profile' = [profile EXCEPT ![x][i] = s]
     /\ user' = user

LEMMA StoringIsJust ==
  ASSUME SyncInv, SyncInv', SteadyInv, Remembers,
         NEW x \in Account, NEW s, StoresOnly(x, s),
         x \in steady /\ faults = 0 => s = "enabled",
         UNCHANGED <<directory, everEnabled, faults>>
  PROVE  [Abstract!Next]_<<Admitted, everEnabled, Excused>>
<1>1. steady' = steady
  BY DEF Remembers, SteadyInv, SteadyShown
<1>2. UNCHANGED <<everEnabled, Excused>>
  BY <1>1 DEF Excused
<1>3. TypeOK
  BY DEF SyncInv, ImportInv
<1>4. \A a \in Account \ {x} : a \in Admitted' <=> a \in Admitted
  BY <1>3 DEF StoresOnly, Admitted, TypeOK
<1>5. s = "enabled" /\ x \in Admitted => x \in Admitted'
  BY <1>3 DEF StoresOnly, Admitted, TypeOK
<1>6. Admitted \subseteq Account /\ Admitted' \subseteq Account
  BY DEF Admitted
<1>7. CASE x \in Admitted <=> x \in Admitted'
  BY <1>2, <1>4, <1>6, <1>7
<1>8. CASE x \in Admitted' /\ x \notin Admitted
  <2>1. x \in everEnabled
    BY <1>8 DEF SyncInv, ImportInv, AccessComesFromDirectory, Admitted
  <2>2. Admitted' = Admitted \cup {x}
    BY <1>4, <1>6, <1>8
  <2>3. Abstract!Give(x)
    BY <1>2, <2>1, <2>2 DEF Abstract!Give
  <2>4. QED
    BY <2>3 DEF Abstract!Next
<1>9. CASE x \in Admitted /\ x \notin Admitted'
  <2>1. x \in Excused
    BY <1>5, <1>9 DEF Excused
  <2>2. Admitted' = Admitted \ {x}
    BY <1>4, <1>6, <1>9
  <2>3. Abstract!Take(x)
    BY <1>2, <2>1, <2>2 DEF Abstract!Take
  <2>4. QED
    BY <2>3 DEF Abstract!Next
<1>10. QED
  BY <1>7, <1>8, <1>9

(* An update of a steady account grants it what it has.                     *)
LEMMA SteadyVerdict ==
  ASSUME SyncInv, SteadyInv, faults = 0, NEW r \in Run, ~Drained(r), NEW a \in steady
  PROVE  Verdict(r, a) = "enabled"
<1>1. IsNormal(r) /\ Settled(r) /\ a \in Account /\ (seen[r][a] # "absent" => ~At(r, a, "idle"))
  BY DEF SyncInv, JudgeInv, SteadyInv
<1>2. seen[r][a] = "enabled"
  BY <1>1, DomainAssumption DEF IsNormal, SteadyInv, SteadyShown
<1>3. ~At(r, a, "failed")
  BY RunAssumption DEF SteadyInv, SteadyImports
<1>4. QED
  BY <1>1, <1>2, <1>3 DEF Settled, At, Verdict, Imported

LEMMA JustStep ==
  ASSUME SyncInv, SyncInv', SteadyInv, SteadyInv', Remembers, [SyncNext]_vars
  PROVE  [Abstract!Next]_<<Admitted, everEnabled, Excused>>
<1>1. TypeOK /\ StackInv
  BY DEF SyncInv, ImportInv
<1>2. ASSUME UNCHANGED dbVars, everEnabled \subseteq everEnabled'
      PROVE  [Abstract!Next]_<<Admitted, everEnabled, Excused>>
  BY <1>2, LearningIsJust DEF Abstract!Next
<1>3. ASSUME NEW p \in Actor, NEW a \in Account, ImportStep(p, a)
      PROVE  [Abstract!Next]_<<Admitted, everEnabled, Excused>>
  <2>1. CASE SaveProfile(p, a) \/ (a \in UserAccount /\ SaveUser(p, a))
    <3> DEFINE x == Current(p, a).account
               s == Current(p, a).status
    <3>1. /\ Current(p, a) = task[p][a].stack[1] /\ x \in Account
          /\ Len(task[p][a].stack) \in Nat /\ Len(task[p][a].stack) >= 1
          /\ WellStacked(task[p][a], a)
      BY <1>1, <2>1, TaskTyped DEF SaveProfile, SaveUser, At, WellStacked
    <3>2. x \in steady => s = "enabled"
      <4>1. 1 \in 1..Len(task[p][a].stack)
        BY <3>1
      <4>2. QED
        BY <3>1, <4>1 DEF SteadyInv, SteadyFrames
    <3>3. UNCHANGED <<directory, everEnabled, faults>>
      BY <2>1 DEF SaveProfile, SaveUser, sourceVars
    <3>4. StoresOnly(x, s)
      <4>1. CASE SaveProfile(p, a)
        BY <4>1 DEF SaveProfile, StoresOnly
      <4>2. CASE a \in UserAccount /\ SaveUser(p, a)
        <5>1. Len(task[p][a].stack) = 1
          BY <4>2, <3>1 DEF SaveUser, At, WellStacked
        <5>2. x = a
          BY <3>1, <5>1 DEF WellStacked
        <5>3. QED
          BY <4>2, <5>2 DEF SaveUser, StoresOnly
      <4>3. QED
        BY <2>1, <4>1, <4>2
    <3> HIDE DEF x, s
    <3>5. x \in Account
      BY <3>1 DEF x
    <3>6. QED
      BY <3>2, <3>3, <3>4, <3>5, StoringIsJust
  <2>2. CASE ~(SaveProfile(p, a) \/ (a \in UserAccount /\ SaveUser(p, a)))
    <3>1. UNCHANGED dbVars /\ everEnabled' = everEnabled
      BY <1>3, <2>2 DEF ImportStep, FollowManager, LeaveManagerOut, FindProfile,
         SaveProfileFails, FindUser, SaveUserFails, sourceVars
    <3>2. QED
      BY <1>2, <3>1
  <2>3. QED
    BY <2>1, <2>2
<1>4. ASSUME NEW p \in Actor, LoginStep(p)
      PROVE  [Abstract!Next]_<<Admitted, everEnabled, Excused>>
  BY <1>2, <1>4 DEF LoginStep, Login, Answer, sourceVars
<1>5. ASSUME Environment
      PROVE  [Abstract!Next]_<<Admitted, everEnabled, Excused>>
  BY <1>2, <1>5 DEF Environment, ChangeDirectory, Says, Replicate, sourceVars
<1>6. ASSUME NEW r \in Run, RunStep(r)
      PROVE  [Abstract!Next]_<<Admitted, everEnabled, Excused>>
  BY <1>2, <1>6 DEF RunStep, SyncGroups, ListDomain, StartImports, NoUsersFound,
     BlockProfiles, BlockUsers, importVars, dbVars, sourceVars
<1>7. ASSUME NEW r \in Run, UpdateStep(r)
      PROVE  [Abstract!Next]_<<Admitted, everEnabled, Excused>>
  <2>1. PICK a \in Account : /\ StoresOnly(a, Verdict(r, a)) /\ ~Drained(r)
                             /\ UNCHANGED <<directory, everEnabled, faults>>
    BY <1>7 DEF UpdateStep, UpdateProfile, UpdateUser, StoresOnly, Drained, sourceVars, Account
  <2>2. a \in steady /\ faults = 0 => Verdict(r, a) = "enabled"
    BY <2>1, SteadyVerdict
  <2>3. QED
    BY <2>1, <2>2, StoringIsJust
<1>8. ASSUME Crash PROVE [Abstract!Next]_<<Admitted, everEnabled, Excused>>
  BY <1>2, <1>8 DEF Crash, sourceVars
<1>9. ASSUME UNCHANGED vars PROVE [Abstract!Next]_<<Admitted, everEnabled, Excused>>
  BY <1>2, <1>9 DEF vars, importVars, dbVars
<1>10. QED
  BY <1>3, <1>4, <1>5, <1>6, <1>7, <1>8, <1>9 DEF SyncNext, PortalStep

(* Synchronizations and logins, whatever overlaps and however stale what    *)
(* they read, implement Access: see AccessIsJust.                           *)
THEOREM AccessJust == SteadySpec => AccessIsJust
<1>1. SteadyInit => SyncInv /\ SteadyInv /\ Abstract!Init
  <2> SUFFICES ASSUME SteadyInit PROVE SyncInv /\ SteadyInv /\ Abstract!Init
    OBVIOUS
  <2>1. SyncInv /\ SteadyInv
    BY SteadyStarts
  <2>2. Admitted \subseteq everEnabled /\ everEnabled \subseteq Account
    BY <2>1 DEF SyncInv, ImportInv, TypeOK, AccessComesFromDirectory, Admitted
  <2>3. QED
    BY <2>1, <2>2 DEF Abstract!Init, Excused
<1>2. SyncInv /\ SteadyInv /\ [SteadyNext]_steadyVars =>
        SyncInv' /\ SteadyInv' /\ [Abstract!Next]_<<Admitted, everEnabled, Excused>>
  BY SteadyStep, SyncInvStep, JustStep
<1>3. QED
  BY <1>1, <1>2, PTL DEF SteadySpec, AccessIsJust, Abstract!Spec, Abstract!accessVars
=============================================================================

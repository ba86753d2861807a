------------------------------ MODULE GroupSync ------------------------------
(***************************************************************************)
(* The groups of the directory in the portal's database, and the rights    *)
(* they give: GroupService, the groups phase of the synchronization        *)
(* (SyncService.syncGroup), and the part of UserService.fromLdap that      *)
(* attaches a person to groups and decides on isAdmin.                     *)
(*                                                                         *)
(* A group is written by a lookup, an await and a save, by the groups      *)
(* phase and by every import of a member; the indexes of the table are not *)
(* unique (group.entity.ts:15-16), so a group is a set of numbered rows.   *)
(* Deleting a group deletes all of them with their memberships (ON DELETE  *)
(* CASCADE), and a membership in a row that is gone cannot be saved.       *)
(*                                                                         *)
(* The imports of LdapImport around this part, the accounts that are       *)
(* blocked, and the settings that a session saves with the row (see        *)
(* SessionUser) are reduced to the groups and isAdmin they write.          *)
(***************************************************************************)
EXTENDS Naturals

CONSTANTS
  Person, Group,
  Admin,      \* the group that ADMIN_GROUP names
  Domain, DomainOf,
  Run,        \* synchronizations
  Login,      \* login requests
  All,        \* what a run writes before the people: every listed group
  NoSession,
  MaxRows,    \* bound: rows ever inserted for one group
  Replica,    \* TRUE: lookups read a replica that may lag behind
  MaxChanges, MaxFaults

Actor == Run \cup Login
Job   == Person \cup {All}
Row   == 1..MaxRows

ASSUME GroupAssumption ==
  /\ Admin \in Group /\ DomainOf \in [Group -> Domain]
  /\ All \notin Person /\ Run \cap Login = {}
ASSUME BoundAssumption ==
  MaxRows \in Nat \ {0} /\ MaxChanges \in Nat /\ MaxFaults \in Nat /\ Replica \in BOOLEAN

VARIABLES
  exists,    \* the groups of the directory
  member,    \* the groups of each person there
  rows,      \* the group table: the rows of each group
  born,      \* the rows inserted for each group so far
  user,      \* the user table: the memberships, and isAdmin
  session,   \* the copy of the row in the session of a person
  run,       \* how far each synchronization is
  listing,   \* the answer of each domain's group search
  listed,    \* the groups found
  doomed,    \* groups whose deletion has been started
  importing, \* the people each actor imports
  job,       \* the groups being written, for them and for the run itself
  changes, faults,
  everMember,  \* history: every pair of a person and a group that was shown
  steady,      \* history: the pairs the directory has shown all the time
  older,       \* history: whose session was opened before all this
  undone       \* history: whose row was last written from such a session

dbVars      == <<rows, born, user>>
sessionVars == <<session, older, undone>>
sourceVars  == <<exists, member, changes, everMember, steady>>
runVars     == <<run, listing, listed, doomed>>
vars == <<dbVars, sessionVars, sourceVars, runVars, importing, job, faults>>

Membership == Group \X Row
Rights     == [groups : SUBSET Membership, isAdmin : BOOLEAN]
Part       == [pc : {"idle", "find", "save", "saved", "failed"}, row : 0..MaxRows]
RunPc      == {"listing", "deleting", "groups", "listPeople", "people", "done"}

TypeOK ==
  /\ exists \in SUBSET Group /\ member \in [Person -> SUBSET Group]
  /\ rows \in [Group -> SUBSET Row]
  /\ born \in [Group -> 0..MaxRows]
  /\ user \in [Person -> Rights] /\ session \in [Person -> Rights \cup {NoSession}]
  /\ run \in [Run -> RunPc]
  /\ listing \in [Run -> [Domain -> {"unread", "ok", "error"}]]
  /\ listed \in [Run -> SUBSET Group] /\ doomed \in [Run -> SUBSET Group]
  /\ importing \in [Actor -> SUBSET Person]
  /\ job \in [Actor -> [Job -> [Group -> Part]]]
  /\ changes \in Nat /\ faults \in Nat
  /\ everMember \in SUBSET (Person \X Group) /\ steady \in SUBSET (Person \X Group)
  /\ older \in SUBSET Person /\ undone \in SUBSET Person

Idle  == [pc |-> "idle", row |-> 0]
NoJob == [g \in Group |-> Idle]

(* The people and groups a synchronization left behind, and the sessions    *)
(* that have been opened at some time, whatever the directory and the table *)
(* have become since.                                                       *)
RightsIn(groups) == [groups |-> groups \X {1}, isAdmin |-> Admin \in groups]

Init ==
  /\ exists \in SUBSET Group
  /\ member \in [Person -> SUBSET exists]
  /\ older \in SUBSET Person /\ undone = {}
  /\ \E had \in SUBSET Group,
        was \in [Person -> SUBSET Group], held \in [older -> SUBSET Group] :
       /\ \A p \in Person : was[p] \subseteq had
       /\ rows = [g \in Group |-> IF g \in had THEN {1} ELSE {}]
       /\ born = [g \in Group |->
            IF g \in had \/ \E p \in older : g \in held[p] THEN 1 ELSE 0]
       /\ user = [p \in Person |-> RightsIn(was[p])]
       /\ session = [p \in Person |-> IF p \in older THEN RightsIn(held[p]) ELSE NoSession]
       /\ everMember = {m \in Person \X Group :
            \/ m[2] \in member[m[1]] \cup was[m[1]]
            \/ m[1] \in older /\ m[2] \in held[m[1]]}
  /\ run = [r \in Run |-> "listing"]
  /\ listing = [r \in Run |-> [d \in Domain |-> "unread"]]
  /\ listed = [r \in Run |-> {}] /\ doomed = [r \in Run |-> {}]
  /\ importing = [a \in Actor |-> {}]
  /\ job = [a \in Actor |-> [k \in Job |-> NoJob]]
  /\ changes = 0 /\ faults = 0
  /\ steady = {m \in Person \X Group : m[2] \in member[m[1]]}

Fault == faults < MaxFaults /\ faults' = faults + 1

Become(r, pc) == run' = [run EXCEPT ![r] = pc]

-----------------------------------------------------------------------------
(* GroupService.fromLdap and fromLdapUser: the groups of one job are written*)
(* side by side, and Promise.allSettled waits for all of them.              *)

Start(groups) == [g \in Group |-> IF g \in groups THEN [pc |-> "find", row |-> 0] ELSE Idle]

Settled(a, k)      == \A g \in Group : job[a][k][g].pc \notin {"find", "save"}
SavedGroups(a, k)  == {g \in Group : job[a][k][g].pc = "saved"}

SetPart(a, k, g, pc, row) == job' = [job EXCEPT ![a][k][g] = [pc |-> pc, row |-> row]]

(* What a lookup may find, 0 for nothing: a row of the group, or, on a      *)
(* replica that lags behind, the table as it was at any time before.        *)
Found(g) == CASE Replica      -> 0..born[g]
              [] rows[g] = {} -> {0}
              [] OTHER        -> rows[g]

FindGroup(a, k, g) ==
  /\ job[a][k][g].pc = "find"
  /\ \/ /\ \E i \in Found(g) : SetPart(a, k, g, "save", i)
        /\ UNCHANGED faults
     \/ SetPart(a, k, g, "failed", 0) /\ Fault
  /\ UNCHANGED <<dbVars, sessionVars, sourceVars, runVars, importing>>

(* A row that was found is updated, or inserted again under its old id when *)
(* it has been deleted in the meantime; none found means a new one.         *)
SaveGroup(a, k, g) ==
  LET found == job[a][k][g].row
      i     == IF found = 0 THEN born[g] + 1 ELSE found
  IN
  /\ job[a][k][g].pc = "save"
  /\ i <= MaxRows
  /\ rows' = [rows EXCEPT ![g] = @ \cup {i}]
  /\ born' = [born EXCEPT ![g] = IF found = 0 THEN i ELSE @]
  /\ SetPart(a, k, g, "saved", i)
  /\ UNCHANGED <<user, sessionVars, sourceVars, runVars, importing, faults>>

SaveGroupFails(a, k, g) ==
  /\ job[a][k][g].pc = "save"
  /\ SetPart(a, k, g, "failed", 0) /\ Fault
  /\ UNCHANGED <<dbVars, sessionVars, sourceVars, runVars, importing>>

-----------------------------------------------------------------------------
(* UserService.fromLdap, from the groups on: the groups that could be saved *)
(* become the person's groups, and ADMIN_GROUP among them makes isAdmin.    *)

(* Mutants: isAdmin unless the group failed; isAdmin of the row is kept.     *)
Earned_UnlessFailed(a, p) ==
  [groups |-> {<<g, job[a][p][g].row>> : g \in SavedGroups(a, p)},
   isAdmin |-> job[a][p][Admin].pc # "failed"]

Earned_Kept(a, p) ==
  [groups |-> {<<g, job[a][p][g].row>> : g \in SavedGroups(a, p)},
   isAdmin |-> user[p].isAdmin]

Earned(a, p) ==
  [groups |-> {<<g, job[a][p][g].row>> : g \in SavedGroups(a, p)},
   isAdmin |-> Admin \in SavedGroups(a, p)]

(* Saving memberships: those that are new must name rows that exist.        *)
Storable(p, rights) ==
  \A m \in rights.groups \ user[p].groups : m[2] \in rows[m[1]]

SaveUser(a, p) ==
  /\ p \in importing[a] /\ Settled(a, p) /\ Storable(p, Earned(a, p))
  /\ user' = [user EXCEPT ![p] = Earned(a, p)]
  /\ IF a \in Login
     THEN session' = [session EXCEPT ![p] = Earned(a, p)] /\ older' = older \ {p}
     ELSE UNCHANGED <<session, older>>
  /\ undone' = undone \ {p}
  /\ importing' = [importing EXCEPT ![a] = @ \ {p}]
  /\ job' = [job EXCEPT ![a][p] = NoJob]
  /\ UNCHANGED <<rows, born, sourceVars, runVars, faults>>

(* The row cannot be saved, or the import has failed before, at the profile.*)
SaveUserFails(a, p) ==
  /\ p \in importing[a] /\ Settled(a, p)
  /\ IF Storable(p, Earned(a, p)) THEN Fault ELSE UNCHANGED faults
  /\ importing' = [importing EXCEPT ![a] = @ \ {p}]
  /\ job' = [job EXCEPT ![a][p] = NoJob]
  /\ UNCHANGED <<dbVars, sessionVars, sourceVars, runVars>>

WriteStep(a) ==
  \/ \E k \in Job, g \in Group :
       FindGroup(a, k, g) \/ SaveGroup(a, k, g) \/ SaveGroupFails(a, k, g)
  \/ \E p \in Person : SaveUser(a, p) \/ SaveUserFails(a, p)

-----------------------------------------------------------------------------
(* SyncService.syncGroup; a run that has not begun is one whose searches    *)
(* have not been answered.                                                  *)
ListGroups(r, d) ==
  /\ run[r] = "listing" /\ listing[r][d] = "unread"
  /\ \/ /\ listing' = [listing EXCEPT ![r][d] = "ok"]
        /\ listed' = [listed EXCEPT ![r] = @ \cup {g \in exists : DomainOf[g] = d}]
        /\ UNCHANGED faults
     \/ /\ listing' = [listing EXCEPT ![r][d] = "error"]
        /\ UNCHANGED listed /\ Fault
  /\ UNCHANGED <<dbVars, sessionVars, sourceVars, run, doomed, importing, job>>

(* A mutant: the domains that answered are enough.                          *)
IsNormal_Some(r) == \E d \in Domain : listing[r][d] = "ok"

Listed(r)   == \A d \in Domain : listing[r][d] # "unread"
IsNormal(r) == \A d \in Domain : listing[r][d] = "ok"

(* A domain has failed: the groups stay as they are, the people are next.   *)
LeaveGroups(r) ==
  /\ run[r] = "listing" /\ Listed(r) /\ ~IsNormal(r)
  /\ Become(r, "listPeople")
  /\ UNCHANGED <<dbVars, sessionVars, sourceVars, listing, listed, doomed,
                 importing, job, faults>>

(* allGroups, and a deletion for each row that no domain has listed; when   *)
(* the rows cannot be read the run ends.                                    *)
FindDoomed(r) ==
  /\ run[r] = "listing" /\ Listed(r) /\ IsNormal(r)
  /\ \/ /\ Become(r, "deleting")
        /\ \E found \in [Group -> 0..MaxRows] :
             /\ \A g \in Group : found[g] \in Found(g)
             /\ doomed' = [doomed EXCEPT ![r] =
                             {g \in Group : found[g] # 0} \ listed[r]]
        /\ UNCHANGED faults
     \/ Become(r, "done") /\ Fault /\ UNCHANGED doomed
  /\ UNCHANGED <<dbVars, sessionVars, sourceVars, listing, listed, importing, job>>

(* deleteLoginGUID: every row of the group, with its memberships.           *)
DeleteGroup(r, g) ==
  /\ g \in doomed[r]
  /\ \/ /\ rows' = [rows EXCEPT ![g] = {}]
        /\ user' = [p \in Person |->
             [user[p] EXCEPT !.groups = {m \in user[p].groups : m[1] # g}]]
        /\ UNCHANGED faults
     \/ UNCHANGED <<rows, user>> /\ Fault
  /\ doomed' = [doomed EXCEPT ![r] = @ \ {g}]
  /\ UNCHANGED <<born, sessionVars, sourceVars, run, listing, listed,
                 importing, job>>

WriteGroups(r) ==
  /\ run[r] = "deleting" /\ doomed[r] = {}
  /\ Become(r, "groups")
  /\ job' = [job EXCEPT ![r][All] = Start(listed[r])]
  /\ UNCHANGED <<dbVars, sessionVars, sourceVars, listing, listed, doomed,
                 importing, faults>>

GroupsWritten(r) ==
  /\ run[r] = "groups" /\ Settled(r, All)
  /\ Become(r, "listPeople")
  /\ job' = [job EXCEPT ![r][All] = NoJob]
  /\ UNCHANGED <<dbVars, sessionVars, sourceVars, listing, listed, doomed,
                 importing, faults>>

(* syncUser: one import per person, with the groups the directory shows now.*)
ListPeople(r) ==
  /\ run[r] = "listPeople"
  /\ \/ /\ Become(r, "people")
        /\ importing' = [importing EXCEPT ![r] = Person]
        /\ job' = [job EXCEPT ![r] = [k \in Job |->
             IF k \in Person THEN Start(member[k]) ELSE NoJob]]
        /\ UNCHANGED faults
     \/ Become(r, "done") /\ Fault /\ UNCHANGED <<importing, job>>
  /\ UNCHANGED <<dbVars, sessionVars, sourceVars, listing, listed, doomed>>

PeopleImported(r) ==
  /\ run[r] = "people" /\ importing[r] = {}
  /\ Become(r, "done")
  /\ UNCHANGED <<dbVars, sessionVars, sourceVars, listing, listed, doomed,
                 importing, job, faults>>

RunStep(r) ==
  \/ (\E d \in Domain : ListGroups(r, d))
  \/ LeaveGroups(r) \/ FindDoomed(r) \/ (\E g \in Group : DeleteGroup(r, g))
  \/ WriteGroups(r) \/ GroupsWritten(r) \/ ListPeople(r) \/ PeopleImported(r)

-----------------------------------------------------------------------------
(* AuthService.login: the directory's answer is imported.                   *)
LogIn(l, p) ==
  /\ importing[l] = {}
  /\ importing' = [importing EXCEPT ![l] = {p}]
  /\ job' = [job EXCEPT ![l][p] = Start(member[p])]
  /\ UNCHANGED <<dbVars, sessionVars, sourceVars, runVars, faults>>

(* UserResolver.userSettings: the copy in the session is saved as it is.    *)
SaveSettings(p) ==
  /\ session[p] # NoSession /\ Storable(p, session[p])
  /\ user' = [user EXCEPT ![p] = session[p]]
  /\ undone' = IF p \in older THEN undone \cup {p} ELSE undone \ {p}
  /\ UNCHANGED <<rows, born, session, older, sourceVars, runVars, importing, job, faults>>

LogOut(p) ==
  /\ session[p] # NoSession
  /\ session' = [session EXCEPT ![p] = NoSession]
  /\ older' = older \ {p}
  /\ UNCHANGED <<dbVars, undone, sourceVars, runVars, importing, job, faults>>

(* The environment: administrators of the directory.                        *)
ChangeMember(p, groups) ==
  /\ changes < MaxChanges /\ groups # member[p]
  /\ member' = [member EXCEPT ![p] = groups]
  /\ everMember' = everMember \cup ({p} \X groups)
  /\ steady' = {m \in steady : m[1] # p \/ m[2] \in groups}
  /\ changes' = changes + 1
  /\ UNCHANGED <<dbVars, sessionVars, exists, runVars, importing, job, faults>>

ChangeGroup(g) ==
  /\ changes < MaxChanges
  /\ exists' = IF g \in exists THEN exists \ {g} ELSE exists \cup {g}
  /\ member' = [p \in Person |-> member[p] \ {g}]
  /\ steady' = {m \in steady : m[2] # g}
  /\ changes' = changes + 1
  /\ UNCHANGED <<dbVars, sessionVars, everMember, runVars, importing, job, faults>>

Next ==
  \/ \E a \in Actor : WriteStep(a)
  \/ \E r \in Run : RunStep(r)
  \/ \E l \in Login, p \in Person : LogIn(l, p)
  \/ \E p \in Person : SaveSettings(p) \/ LogOut(p)
  \/ \E p \in Person, groups \in SUBSET exists : ChangeMember(p, groups)
  \/ \E g \in Group : ChangeGroup(g)

Spec == Init /\ [][Next]_vars

-----------------------------------------------------------------------------
(* Properties.                                                              *)

GroupsOf(p) == {m[1] : m \in user[p].groups}

(* Nobody is an administrator, or a member of a group, whom the directory   *)
(* (or the database it left) has never shown as one: not after failures, on *)
(* a stale replica, through duplicate rows of a group, or through the copy  *)
(* of a row in a session.                                                   *)
RightsComeFromDirectory ==
  \A p \in Person :
    /\ user[p].isAdmin => <<p, Admin>> \in everMember
    /\ \A g \in GroupsOf(p) : <<p, g>> \in everMember

(* A person whom the directory has shown in a group all the time: the rows  *)
(* of the group are never deleted, whichever domain does not answer; and,   *)
(* while no call fails, nothing takes the membership away, nor isAdmin,     *)
(* except the settings that a session older than all this saves.            *)
SteadyRightsKept ==
  [][\A p \in Person, g \in Group : <<p, g>> \in steady =>
       /\ rows[g] \subseteq rows'[g]
       /\ faults' = 0 /\ p \notin undone' =>
            /\ g \in GroupsOf(p) => g \in GroupsOf(p)'
            /\ g = Admin /\ user[p].isAdmin => user'[p].isAdmin]_vars

(* A synchronization during which no call failed and nothing changed sets   *)
(* everybody's rights: everyone has the groups of the directory's answer    *)
(* and is administrator accordingly, however many rows a group has, and     *)
(* whoever logs in or saves settings, before the run ends or after. The     *)
(* exception is who saves the settings of a session that is older than the  *)
(* directory's last change: until the next import of the person the rights  *)
(* of that session are back.                                                *)
RightsAfterRun ==
  \A r \in Run : run[r] = "done" /\ faults = 0 /\ changes = 0 =>
    \A p \in Person \ undone :
      /\ GroupsOf(p) = member[p]
      /\ user[p].isAdmin = (Admin \in member[p])

-----------------------------------------------------------------------------
(* The inductive invariants behind the three properties.                    *)

(* A group that was saved has a row.                                        *)
SavedInv ==
  \A a \in Actor, k \in Job, g \in Group :
    job[a][k][g].pc = "saved" => job[a][k][g].row \in Row

TypesInv == TypeOK /\ SavedInv

(* What the directory shows is part of its history; while it is not changed *)
(* everything it shows has been there all the time.                         *)
HistoryInv ==
  \A p \in Person, g \in Group :
    /\ g \in member[p] => <<p, g>> \in everMember
    /\ <<p, g>> \in steady => g \in member[p] /\ g \in exists
    /\ changes = 0 /\ g \in member[p] => <<p, g>> \in steady
    /\ changes = 0 /\ g \in member[p] => g \in exists

(* A right on its way to the row of a person, in an import or in a session, *)
(* has been shown by the directory.                                         *)
OriginInv ==
  \A p \in Person :
    /\ \A a \in Actor, g \in Group :
         job[a][p][g].pc # "idle" => <<p, g>> \in everMember
    /\ session[p] # NoSession =>
         /\ session[p].isAdmin => <<p, Admin>> \in everMember
         /\ \A m \in session[p].groups : <<p, m[1]>> \in everMember

RightsInv == TypesInv /\ HistoryInv /\ OriginInv /\ RightsComeFromDirectory

(* A group with a steady member is in the answer of its domain, so that no  *)
(* run deletes it, and the rows that were saved for it stay.                *)
SteadyGroup(g) == \E p \in Person : <<p, g>> \in steady

GroupKeptInv ==
  \A g \in Group : SteadyGroup(g) =>
    /\ \A r \in Run : listing[r][DomainOf[g]] = "ok" => g \in listed[r]
    /\ \A r \in Run : g \notin doomed[r]
    /\ \A a \in Actor, k \in Job :
         job[a][k][g].pc = "saved" => job[a][k][g].row \in rows[g]

(* While no call fails, an import of a person writes every steady group,    *)
(* and a session that has been opened since has them.                       *)
SteadyInv ==
  faults = 0 => \A p \in Person, g \in Group : <<p, g>> \in steady =>
    /\ \A a \in Actor : p \in importing[a] =>
         job[a][p][g].pc \in {"find", "save", "saved"}
    /\ session[p] # NoSession /\ p \notin older =>
         /\ \E m \in session[p].groups : m[1] = g
         /\ g = Admin => session[p].isAdmin

KeptInv == TypesInv /\ HistoryInv /\ GroupKeptInv /\ SteadyInv

(* While nothing changes and no call fails, an import of a person writes    *)
(* the groups of the directory and no others, a session that has been opened*)
(* since has just these, and who has been imported by a run keeps them,     *)
(* unless an older session writes its own.                                  *)
Agrees(p, rights) ==
  /\ {m[1] : m \in rights.groups} = member[p]
  /\ rights.isAdmin = (Admin \in member[p])

SetInv ==
  faults = 0 /\ changes = 0 => \A p \in Person :
    /\ \A a \in Actor, g \in Group : p \in importing[a] =>
         job[a][p][g].pc # "failed" /\ (job[a][p][g].pc # "idle" => g \in member[p])
    /\ session[p] # NoSession /\ p \notin older => Agrees(p, session[p])
    /\ \A r \in Run :
         /\ run[r] = "done" \/ (run[r] = "people" /\ p \notin importing[r])
         /\ p \notin undone
         => Agrees(p, user[p])

AfterRunInv == KeptInv /\ SetInv
=============================================================================

--------------------------- MODULE GroupSync_proofs ---------------------------
(***************************************************************************)
(* Proofs about GroupSync, for any people, groups, domains, logins and     *)
(* synchronizations: rights come from the directory (RightsInv), steady    *)
(* ones are kept (KeptInv), and a run that nothing disturbs sets them all  *)
(* (AfterRunInv).                                                          *)
(***************************************************************************)
EXTENDS GroupSync, TLAPS

USE DEF Row, sessionVars

LEMMA Actors == Run \subseteq Actor /\ Login \subseteq Actor
BY DEF Actor

LEMMA Jobs == Person \subseteq Job /\ All \in Job
BY DEF Job

-----------------------------------------------------------------------------
(* What single definitions return.                                          *)

LEMMA FoundTypes ==
  ASSUME TypeOK, NEW g \in Group
  PROVE  Found(g) \subseteq 0..MaxRows
<1>1. rows[g] \subseteq 1..MaxRows /\ born[g] \in 0..MaxRows
  BY DEF TypeOK
<1>2. QED
  BY <1>1, BoundAssumption DEF Found

LEMMA StartTypes ==
  ASSUME NEW groups \in SUBSET Group
  PROVE  /\ Start(groups) \in [Group -> Part]
         /\ \A g \in Group : Start(groups)[g].pc \in {"idle", "find"}
         /\ \A g \in Group : Start(groups)[g].pc = "find" <=> g \in groups
BY BoundAssumption DEF Start, Idle, Part

LEMMA NoJobTypes ==
  /\ NoJob \in [Group -> Part]
  /\ \A g \in Group : NoJob[g].pc = "idle"
BY BoundAssumption DEF NoJob, Idle, Part

LEMMA PartTypes ==
  ASSUME TypeOK, NEW a \in Actor, NEW k \in Job, NEW g \in Group
  PROVE  job[a][k][g] \in Part
BY DEF TypeOK

LEMMA EarnedTypes ==
  ASSUME TypesInv, NEW a \in Actor, NEW p \in Person
  PROVE  Earned(a, p) \in Rights
<1>1. \A g \in SavedGroups(a, p) : g \in Group /\ job[a][p][g].row \in Row
  BY Jobs DEF TypesInv, SavedInv, SavedGroups
<1>2. {<<g, job[a][p][g].row>> : g \in SavedGroups(a, p)} \in SUBSET Membership
  BY <1>1 DEF Membership
<1>3. QED
  BY <1>2 DEF Earned, Rights

LEMMA EarnedGroups ==
  ASSUME NEW a \in Actor, NEW p \in Person
  PROVE  /\ {m[1] : m \in Earned(a, p).groups} = SavedGroups(a, p)
         /\ \A m \in Earned(a, p).groups :
              m[1] \in SavedGroups(a, p) /\ m[2] = job[a][p][m[1]].row
         /\ Earned(a, p).isAdmin = (Admin \in SavedGroups(a, p))
<1>1. Earned(a, p).groups = {<<g, job[a][p][g].row>> : g \in SavedGroups(a, p)}
  BY DEF Earned
<1>2. \A m \in Earned(a, p).groups :
        m[1] \in SavedGroups(a, p) /\ m[2] = job[a][p][m[1]].row
  BY <1>1
<1>3. \A g \in SavedGroups(a, p) : \E m \in Earned(a, p).groups : m[1] = g
  <2> TAKE g \in SavedGroups(a, p)
  <2>1. <<g, job[a][p][g].row>> \in Earned(a, p).groups
    BY <1>1
  <2>2. QED
    BY <2>1
<1>4. QED
  BY <1>2, <1>3 DEF Earned

(* The parts of a job after one of them has been set.                       *)
LEMMA SetPartTypes ==
  ASSUME TypeOK, NEW a \in Actor, NEW k \in Job, NEW g \in Group,
         NEW pc \in {"idle", "find", "save", "saved", "failed"}, NEW row \in 0..MaxRows,
         SetPart(a, k, g, pc, row)
  PROVE  /\ job' \in [Actor -> [Job -> [Group -> Part]]]
         /\ job'[a][k][g] = [pc |-> pc, row |-> row]
         /\ \A b \in Actor, l \in Job, h \in Group :
              (b # a \/ l # k \/ h # g) => job'[b][l][h] = job[b][l][h]
<1> DEFINE x == [pc |-> pc, row |-> row]
<1>1. x \in Part
  BY DEF Part
<1>2. job' = [job EXCEPT ![a][k][g] = x]
  BY DEF SetPart
<1>3. job \in [Actor -> [Job -> [Group -> Part]]]
  BY DEF TypeOK
<1> HIDE DEF x
<1>4. job' \in [Actor -> [Job -> [Group -> Part]]]
  BY <1>1, <1>2, <1>3
<1>5. job'[a][k][g] = x
  BY <1>2, <1>3
<1>6. \A b \in Actor, l \in Job, h \in Group :
        (b # a \/ l # k \/ h # g) => job'[b][l][h] = job[b][l][h]
  BY <1>2, <1>3
<1>7. QED
  BY <1>4, <1>5, <1>6 DEF x

LEMMA SetPartKeeps ==
  ASSUME TypesInv, NEW a \in Actor, NEW k \in Job, NEW g \in Group,
         NEW pc \in {"idle", "find", "save", "saved", "failed"}, NEW row \in 0..MaxRows,
         SetPart(a, k, g, pc, row), pc = "saved" => row \in Row
  PROVE  job' \in [Actor -> [Job -> [Group -> Part]]] /\ SavedInv'
<1>1. TypeOK /\ SavedInv
  BY DEF TypesInv
<1>2. /\ job' \in [Actor -> [Job -> [Group -> Part]]]
      /\ job'[a][k][g] = [pc |-> pc, row |-> row]
      /\ \A b \in Actor, l \in Job, h \in Group :
           (b # a \/ l # k \/ h # g) => job'[b][l][h] = job[b][l][h]
  BY <1>1, SetPartTypes
<1>3. ASSUME NEW b \in Actor, NEW l \in Job, NEW h \in Group,
             job'[b][l][h].pc = "saved"
      PROVE  job'[b][l][h].row \in Row
  <2>1. CASE b = a /\ l = k /\ h = g
    BY <1>2, <1>3, <2>1
  <2>2. CASE b # a \/ l # k \/ h # g
    <3>1. job'[b][l][h] = job[b][l][h]
      BY <1>2, <2>2
    <3>2. job[b][l][h].pc = "saved" => job[b][l][h].row \in Row
      BY <1>1 DEF SavedInv
    <3>3. QED
      BY <1>3, <3>1, <3>2
  <2>3. QED
    BY <2>1, <2>2
<1>4. QED
  BY <1>2, <1>3 DEF SavedInv

-----------------------------------------------------------------------------
(* Types.                                                                   *)

LEMMA InitTypes == Init => TypesInv
<1> SUFFICES ASSUME Init PROVE TypesInv
  OBVIOUS
<1>1. PICK had \in SUBSET Group, was \in [Person -> SUBSET Group],
            held \in [older -> SUBSET Group] :
        /\ \A p \in Person : was[p] \subseteq had
        /\ rows = [g \in Group |-> IF g \in had THEN {1} ELSE {}]
        /\ born = [g \in Group |->
             IF g \in had \/ \E p \in older : g \in held[p] THEN 1 ELSE 0]
        /\ user = [p \in Person |-> RightsIn(was[p])]
        /\ session = [p \in Person |-> IF p \in older THEN RightsIn(held[p]) ELSE NoSession]
        /\ everMember = {m \in Person \X Group :
             \/ m[2] \in member[m[1]] \cup was[m[1]]
             \/ m[1] \in older /\ m[2] \in held[m[1]]}
  BY DEF Init
<1>2. {1} \in SUBSET Row /\ 1 \in 0..MaxRows /\ 0 \in 0..MaxRows
  BY BoundAssumption
<1>3. rows \in [Group -> SUBSET Row] /\ born \in [Group -> 0..MaxRows]
  BY <1>1, <1>2 DEF Init
<1>4. \A groups \in SUBSET Group : RightsIn(groups) \in Rights
  <2> TAKE groups \in SUBSET Group
  <2>1. groups \X {1} \in SUBSET Membership
    BY <1>2 DEF Membership
  <2>2. QED
    BY <2>1 DEF Rights, RightsIn
<1>5. user \in [Person -> Rights] /\ session \in [Person -> Rights \cup {NoSession}]
  BY <1>1, <1>4
<1>6. job \in [Actor -> [Job -> [Group -> Part]]] /\ SavedInv
  BY NoJobTypes DEF Init, SavedInv
<1>7. member \in [Person -> SUBSET Group] /\ exists \in SUBSET Group
  BY DEF Init
<1>8. QED
  BY <1>1, <1>3, <1>5, <1>6, <1>7 DEF Init, TypesInv, TypeOK, RunPc

(* A step of a write that ends a part without a row.                        *)
LEMMA WriteTypes ==
  ASSUME TypesInv, NEW a \in Actor, WriteStep(a)
  PROVE  TypesInv'
<1> USE DEF TypesInv
<1>1. ASSUME NEW k \in Job, NEW g \in Group, FindGroup(a, k, g)
      PROVE  TypesInv'
  <2>1. PICK pc \in {"save", "failed"}, i \in 0..MaxRows : SetPart(a, k, g, pc, i)
    BY <1>1, FoundTypes, BoundAssumption DEF FindGroup
  <2>2. job' \in [Actor -> [Job -> [Group -> Part]]] /\ SavedInv'
    BY <2>1, SetPartKeeps
  <2>3. faults' \in Nat
    BY <1>1 DEF FindGroup, Fault, TypeOK
  <2>4. QED
    BY <1>1, <2>2, <2>3 DEF FindGroup, TypeOK, dbVars, sourceVars, runVars
<1>2. ASSUME NEW k \in Job, NEW g \in Group, SaveGroup(a, k, g)
      PROVE  TypesInv'
  <2> DEFINE found == job[a][k][g].row
             i     == IF found = 0 THEN born[g] + 1 ELSE found
  <2>1. found \in 0..MaxRows /\ born[g] \in 0..MaxRows
    BY PartTypes DEF Part, TypeOK
  <2>2. i \in Row
    BY <1>2, <2>1, BoundAssumption DEF SaveGroup
  <2>3. SetPart(a, k, g, "saved", i)
    BY <1>2 DEF SaveGroup
  <2>4. i \in 0..MaxRows
    BY <2>2, BoundAssumption
  <2> HIDE DEF i, found
  <2>5. job' \in [Actor -> [Job -> [Group -> Part]]] /\ SavedInv'
    BY <2>2, <2>3, <2>4, SetPartKeeps
  <2>6. rows' = [rows EXCEPT ![g] = @ \cup {i}]
    BY <1>2 DEF SaveGroup, i, found
  <2>7. rows' \in [Group -> SUBSET Row]
    BY <2>2, <2>6 DEF TypeOK
  <2>8. born' \in [Group -> 0..MaxRows]
    BY <1>2, <2>4 DEF SaveGroup, i, found, TypeOK
  <2>9. QED
    BY <1>2, <2>5, <2>7, <2>8 DEF SaveGroup, TypeOK, sourceVars, runVars
<1>3. ASSUME NEW k \in Job, NEW g \in Group, SaveGroupFails(a, k, g)
      PROVE  TypesInv'
  <2>1. 0 \in 0..MaxRows /\ SetPart(a, k, g, "failed", 0)
    BY <1>3, BoundAssumption DEF SaveGroupFails
  <2>2. job' \in [Actor -> [Job -> [Group -> Part]]] /\ SavedInv'
    BY <2>1, SetPartKeeps
  <2>3. QED
    BY <1>3, <2>2 DEF SaveGroupFails, Fault, TypeOK, dbVars, sourceVars, runVars
<1>4. ASSUME NEW p \in Person, SaveUser(a, p)
      PROVE  TypesInv'
  <2>1. job' \in [Actor -> [Job -> [Group -> Part]]] /\ SavedInv'
    BY <1>4, NoJobTypes DEF SaveUser, TypeOK, SavedInv
  <2>2. Earned(a, p) \in Rights
    BY EarnedTypes
  <2>3. user' \in [Person -> Rights] /\ session' \in [Person -> Rights \cup {NoSession}]
    BY <1>4, <2>2 DEF SaveUser, TypeOK
  <2>4. QED
    BY <1>4, <2>1, <2>3 DEF SaveUser, TypeOK, sourceVars, runVars
<1>5. ASSUME NEW p \in Person, SaveUserFails(a, p)
      PROVE  TypesInv'
  <2>1. job' \in [Actor -> [Job -> [Group -> Part]]] /\ SavedInv'
    BY <1>5, NoJobTypes DEF SaveUserFails, TypeOK, SavedInv
  <2>2. faults' \in Nat
    BY <1>5 DEF SaveUserFails, Fault, TypeOK
  <2>3. QED
    BY <1>5, <2>1, <2>2 DEF SaveUserFails, TypeOK, dbVars, sourceVars, runVars
<1>6. QED
  BY <1>1, <1>2, <1>3, <1>4, <1>5 DEF WriteStep

LEMMA RunTypes ==
  ASSUME TypesInv, NEW r \in Run, RunStep(r)
  PROVE  TypesInv'
<1> USE DEF TypesInv, Become, Fault
<1>1. ASSUME NEW d \in Domain, ListGroups(r, d) PROVE TypesInv'
  <2>1. listing' \in [Run -> [Domain -> {"unread", "ok", "error"}]]
    <3>1. PICK result \in {"ok", "error"} : listing' = [listing EXCEPT ![r][d] = result]
      BY <1>1 DEF ListGroups
    <3>2. listing \in [Run -> [Domain -> {"unread", "ok", "error"}]]
      BY DEF TypeOK
    <3>3. QED
      BY <3>1, <3>2
  <2>2. {g \in exists : DomainOf[g] = d} \in SUBSET Group
    BY DEF TypeOK
  <2>3. listed' \in [Run -> SUBSET Group]
    <3>1. \/ UNCHANGED listed
          \/ listed' = [listed EXCEPT ![r] = @ \cup {g \in exists : DomainOf[g] = d}]
      BY <1>1 DEF ListGroups
    <3>2. listed \in [Run -> SUBSET Group]
      BY DEF TypeOK
    <3>3. QED
      BY <2>2, <3>1, <3>2
  <2>4. faults' \in Nat
    BY <1>1 DEF ListGroups, TypeOK
  <2>5. QED
    BY <1>1, <2>1, <2>3, <2>4 DEF ListGroups, TypeOK, SavedInv, dbVars, sourceVars
<1>2. CASE LeaveGroups(r)
  BY <1>2 DEF LeaveGroups, TypeOK, SavedInv, RunPc, dbVars, sourceVars
<1>3. CASE FindDoomed(r)
  <2>1. doomed' \in [Run -> SUBSET Group]
    BY <1>3 DEF FindDoomed, TypeOK
  <2>2. QED
    BY <1>3, <2>1, SMTT(30) DEF FindDoomed, TypeOK, SavedInv, RunPc, dbVars, sourceVars
<1>4. ASSUME NEW g \in Group, DeleteGroup(r, g) PROVE TypesInv'
  <2>1. \A p \in Person :
          [user[p] EXCEPT !.groups = {m \in user[p].groups : m[1] # g}] \in Rights
    BY DEF TypeOK, Rights
  <2>2. user' \in [Person -> Rights]
    BY <1>4, <2>1 DEF DeleteGroup, TypeOK
  <2>5. rows' \in [Group -> SUBSET Row]
    BY <1>4 DEF DeleteGroup, TypeOK
  <2>3. doomed' \in [Run -> SUBSET Group]
    BY <1>4 DEF DeleteGroup, TypeOK
  <2>4. QED
    BY <1>4, <2>2, <2>3, <2>5 DEF DeleteGroup, TypeOK, SavedInv, sourceVars
<1>5. CASE WriteGroups(r)
  <2>1. Start(listed[r]) \in [Group -> Part]
        /\ \A g \in Group : Start(listed[r])[g].pc # "saved"
    <3>1. listed[r] \in SUBSET Group
      BY DEF TypeOK
    <3>2. QED
      BY <3>1, StartTypes
  <2>2. job' \in [Actor -> [Job -> [Group -> Part]]] /\ SavedInv'
    BY <1>5, <2>1 DEF WriteGroups, TypeOK, SavedInv
  <2>3. QED
    BY <1>5, <2>2 DEF WriteGroups, TypeOK, RunPc, dbVars, sourceVars
<1>6. CASE GroupsWritten(r)
  <2>1. job' \in [Actor -> [Job -> [Group -> Part]]] /\ SavedInv'
    BY <1>6, NoJobTypes DEF GroupsWritten, TypeOK, SavedInv
  <2>2. QED
    BY <1>6, <2>1 DEF GroupsWritten, TypeOK, RunPc, dbVars, sourceVars
<1>7. CASE ListPeople(r)
  <2>1. \A k \in Person : member[k] \in SUBSET Group
    BY DEF TypeOK
  <2> DEFINE jobs == [k \in Job |-> IF k \in Person THEN Start(member[k]) ELSE NoJob]
  <2>2. /\ jobs \in [Job -> [Group -> Part]]
        /\ \A k \in Job, g \in Group : jobs[k][g].pc # "saved"
    BY <2>1, StartTypes, NoJobTypes
  <2>3. job' = [job EXCEPT ![r] = jobs] \/ UNCHANGED job
    BY <1>7 DEF ListPeople
  <2> HIDE DEF jobs
  <2>4. job' \in [Actor -> [Job -> [Group -> Part]]] /\ SavedInv'
    BY <2>2, <2>3 DEF TypeOK, SavedInv
  <2>5. importing' \in [Actor -> SUBSET Person]
    BY <1>7 DEF ListPeople, TypeOK
  <2>7. run' \in [Run -> RunPc]
    BY <1>7 DEF ListPeople, TypeOK, RunPc
  <2>8. faults' \in Nat
    BY <1>7 DEF ListPeople, TypeOK
  <2>6. QED
    BY <1>7, <2>4, <2>5, <2>7, <2>8 DEF ListPeople, TypeOK, dbVars, sourceVars
<1>8. CASE PeopleImported(r)
  BY <1>8 DEF PeopleImported, TypeOK, SavedInv, RunPc, dbVars, sourceVars
<1>9. QED
  BY <1>1, <1>2, <1>3, <1>4, <1>5, <1>6, <1>7, <1>8 DEF RunStep

LEMMA OtherTypes ==
  ASSUME TypesInv,
         \/ \E l \in Login, p \in Person : LogIn(l, p)
         \/ \E p \in Person : SaveSettings(p) \/ LogOut(p)
         \/ \E p \in Person, groups \in SUBSET exists : ChangeMember(p, groups)
         \/ \E g \in Group : ChangeGroup(g)
  PROVE  TypesInv'
<1> USE DEF TypesInv
<1>1. ASSUME NEW l \in Login, NEW p \in Person, LogIn(l, p) PROVE TypesInv'
  <2>1. /\ Start(member[p]) \in [Group -> Part]
        /\ \A g \in Group : Start(member[p])[g].pc # "saved"
    <3>1. member[p] \in SUBSET Group
      BY DEF TypeOK
    <3>2. QED
      BY <3>1, StartTypes
  <2>2. job' \in [Actor -> [Job -> [Group -> Part]]] /\ SavedInv'
    BY <1>1, <2>1 DEF LogIn, TypeOK, SavedInv
  <2>3. QED
    BY <1>1, <2>2 DEF LogIn, TypeOK, dbVars, sourceVars, runVars
<1>2. ASSUME NEW p \in Person, SaveSettings(p) PROVE TypesInv'
  BY <1>2 DEF SaveSettings, TypeOK, SavedInv, sourceVars, runVars
<1>3. ASSUME NEW p \in Person, LogOut(p) PROVE TypesInv'
  BY <1>3 DEF LogOut, TypeOK, SavedInv, dbVars, sourceVars, runVars
<1>4. ASSUME NEW p \in Person, NEW groups \in SUBSET exists, ChangeMember(p, groups)
      PROVE  TypesInv'
  <2>1. {p} \X groups \in SUBSET (Person \X Group)
    BY DEF TypeOK
  <2>2. everMember' \in SUBSET (Person \X Group) /\ steady' \in SUBSET (Person \X Group)
    BY <1>4, <2>1 DEF ChangeMember, TypeOK
  <2>3. member' \in [Person -> SUBSET Group] /\ changes' \in Nat
    BY <1>4 DEF ChangeMember, TypeOK
  <2>4. QED
    BY <1>4, <2>2, <2>3 DEF ChangeMember, TypeOK, SavedInv, dbVars, runVars
<1>5. ASSUME NEW g \in Group, ChangeGroup(g) PROVE TypesInv'
  <2>1. exists' \in SUBSET Group /\ member' \in [Person -> SUBSET Group] /\ changes' \in Nat
    BY <1>5 DEF ChangeGroup, TypeOK
  <2>2. steady' \in SUBSET (Person \X Group)
    BY <1>5 DEF ChangeGroup, TypeOK
  <2>3. QED
    BY <1>5, <2>1, <2>2 DEF ChangeGroup, TypeOK, SavedInv, dbVars, runVars
<1>6. QED
  BY <1>1, <1>2, <1>3, <1>4, <1>5

LEMMA TypesInvariance == Spec => []TypesInv
<1>1. TypesInv /\ [Next]_vars => TypesInv'
  <2>1. CASE UNCHANGED vars
    BY <2>1 DEF vars, dbVars, sourceVars, runVars, TypesInv, TypeOK, SavedInv
  <2>2. QED
    BY <2>1, WriteTypes, RunTypes, OtherTypes DEF Next
<1>2. QED
  BY <1>1, InitTypes, PTL DEF Spec

(* Every variable keeps its type, rows that are found and saved included.   *)
THEOREM GroupTypes == Spec => []TypeOK
BY TypesInvariance, PTL DEF TypesInv

-----------------------------------------------------------------------------
(* What a step does to one part of one job, and to the rights of one person.*)

PartKept(a, k, g) ==
  /\ job'[a][k][g] = job[a][k][g]
  /\ k \in importing'[a] => k \in importing[a]

PartMoved(a, k, g) ==
  /\ importing' = importing
  /\ \/ job[a][k][g].pc = "find" /\ job'[a][k][g].pc = "save"
     \/ /\ job[a][k][g].pc \in {"find", "save"} /\ job'[a][k][g].pc = "failed"
        /\ faults' # 0
     \/ /\ job[a][k][g].pc = "save" /\ job'[a][k][g].pc = "saved"
        /\ job'[a][k][g].row \in rows'[g]

PartStarted(a, k, g) ==
  \/ /\ k \in Person
     /\ job'[a][k][g].pc = IF g \in member[k] THEN "find" ELSE "idle"
  \/ k = All /\ job'[a][k][g].pc \in {"idle", "find"}

PartEnded(a, k, g) == job'[a][k][g].pc = "idle" /\ k \notin importing'[a]

PartStep(a, k, g) ==
  PartKept(a, k, g) \/ PartMoved(a, k, g) \/ PartStarted(a, k, g) \/ PartEnded(a, k, g)

LEMMA WriteParts ==
  ASSUME TypesInv, NEW a \in Actor, WriteStep(a), NEW b \in Actor, NEW l \in Job, NEW h \in Group
  PROVE  PartStep(b, l, h)
<1> USE DEF TypesInv
<1>1. ASSUME NEW k \in Job, NEW g \in Group, FindGroup(a, k, g) PROVE PartStep(b, l, h)
  <2>1. importing' = importing /\ job[a][k][g].pc = "find"
    BY <1>1 DEF FindGroup
  <2>2. PICK pc \in {"save", "failed"}, i \in 0..MaxRows :
          SetPart(a, k, g, pc, i) /\ (pc = "failed" => faults' # 0)
    BY <1>1, FoundTypes, BoundAssumption DEF FindGroup, Fault, TypeOK
  <2>3. /\ job'[a][k][g] = [pc |-> pc, row |-> i]
        /\ (b # a \/ l # k \/ h # g) => job'[b][l][h] = job[b][l][h]
    BY <2>2, SetPartTypes
  <2>4. QED
    BY <2>1, <2>2, <2>3 DEF PartStep, PartKept, PartMoved
<1>2. ASSUME NEW k \in Job, NEW g \in Group, SaveGroup(a, k, g) PROVE PartStep(b, l, h)
  <2>1. importing' = importing /\ job[a][k][g].pc = "save"
    BY <1>2 DEF SaveGroup
  <2>2. PICK i \in Row : SetPart(a, k, g, "saved", i) /\ rows' = [rows EXCEPT ![g] = @ \cup {i}]
    <3>1. job[a][k][g].row \in 0..MaxRows /\ born[g] \in 0..MaxRows
      BY PartTypes DEF Part, TypeOK
    <3>2. PICK i : /\ i = IF job[a][k][g].row = 0 THEN born[g] + 1 ELSE job[a][k][g].row
                   /\ i <= MaxRows
                   /\ SetPart(a, k, g, "saved", i)
                   /\ rows' = [rows EXCEPT ![g] = @ \cup {i}]
      BY <1>2 DEF SaveGroup
    <3>3. i \in Row
      BY <3>1, <3>2, BoundAssumption
    <3>4. QED
      BY <3>2, <3>3
  <2>3. i \in 0..MaxRows /\ i \in rows'[g]
    BY <2>2, BoundAssumption DEF TypeOK
  <2>4. /\ job'[a][k][g] = [pc |-> "saved", row |-> i]
        /\ (b # a \/ l # k \/ h # g) => job'[b][l][h] = job[b][l][h]
    BY <2>2, <2>3, SetPartTypes
  <2>5. QED
    BY <2>1, <2>3, <2>4 DEF PartStep, PartKept, PartMoved
<1>3. ASSUME NEW k \in Job, NEW g \in Group, SaveGroupFails(a, k, g) PROVE PartStep(b, l, h)
  <2>1. importing' = importing /\ job[a][k][g].pc = "save" /\ faults' # 0
    BY <1>3 DEF SaveGroupFails, Fault, TypeOK
  <2>2. SetPart(a, k, g, "failed", 0) /\ 0 \in 0..MaxRows
    BY <1>3, BoundAssumption DEF SaveGroupFails
  <2>3. /\ job'[a][k][g] = [pc |-> "failed", row |-> 0]
        /\ (b # a \/ l # k \/ h # g) => job'[b][l][h] = job[b][l][h]
    BY <2>2, SetPartTypes
  <2>4. QED
    BY <2>1, <2>3 DEF PartStep, PartKept, PartMoved
<1>4. ASSUME NEW p \in Person, SaveUser(a, p) \/ SaveUserFails(a, p) PROVE PartStep(b, l, h)
  <2>1. /\ importing' = [importing EXCEPT ![a] = @ \ {p}]
        /\ job' = [job EXCEPT ![a][p] = NoJob]
    BY <1>4 DEF SaveUser, SaveUserFails
  <2>2. CASE b = a /\ l = p
    BY <2>1, <2>2, NoJobTypes DEF TypeOK, PartStep, PartEnded
  <2>3. CASE b # a \/ l # p
    <3>1. job'[b][l][h] = job[b][l][h]
      BY <2>1, <2>3 DEF TypeOK
    <3>2. importing'[b] \subseteq importing[b]
      BY <2>1 DEF TypeOK
    <3>3. QED
      BY <3>1, <3>2 DEF PartStep, PartKept
  <2>4. QED
    BY <2>2, <2>3
<1>5. QED
  BY <1>1, <1>2, <1>3, <1>4 DEF WriteStep

LEMMA RunParts ==
  ASSUME TypesInv, NEW r \in Run, RunStep(r), NEW b \in Actor, NEW l \in Job, NEW h \in Group
  PROVE  PartStep(b, l, h)
<1> USE DEF TypesInv
<1>1. CASE UNCHANGED <<importing, job>>
  BY <1>1 DEF PartStep, PartKept
<1>2. CASE WriteGroups(r)
  <2>1. listed[r] \in SUBSET Group
    BY DEF TypeOK
  <2>2. Start(listed[r])[h].pc \in {"idle", "find"}
    BY <2>1, StartTypes
  <2>3. job' = [job EXCEPT ![r][All] = Start(listed[r])] /\ importing' = importing
    BY <1>2 DEF WriteGroups
  <2>4. CASE b = r /\ l = All
    BY <2>2, <2>3, <2>4 DEF TypeOK, PartStep, PartStarted
  <2>5. CASE b # r \/ l # All
    BY <2>3, <2>5 DEF TypeOK, PartStep, PartKept
  <2>6. QED
    BY <2>4, <2>5
<1>3. CASE GroupsWritten(r)
  <2>1. job' = [job EXCEPT ![r][All] = NoJob] /\ importing' = importing
    BY <1>3 DEF GroupsWritten
  <2>2. CASE b = r /\ l = All
    BY <2>1, <2>2, NoJobTypes DEF TypeOK, PartStep, PartStarted
  <2>3. CASE b # r \/ l # All
    BY <2>1, <2>3 DEF TypeOK, PartStep, PartKept
  <2>4. QED
    BY <2>2, <2>3
<1>4. CASE ListPeople(r) /\ ~UNCHANGED <<importing, job>>
  <2> DEFINE jobs == [k \in Job |-> IF k \in Person THEN Start(member[k]) ELSE NoJob]
  <2>1. /\ importing' = [importing EXCEPT ![r] = Person]
        /\ job' = [job EXCEPT ![r] = jobs]
    BY <1>4 DEF ListPeople
  <2>2. CASE b = r
    <3>1. job'[b][l] = IF l \in Person THEN Start(member[l]) ELSE NoJob
      BY <2>1, <2>2 DEF TypeOK
    <3>2. CASE l \in Person
      <4>1. member[l] \in SUBSET Group
        BY <3>2 DEF TypeOK
      <4>2. job'[b][l][h].pc = IF h \in member[l] THEN "find" ELSE "idle"
        BY <3>1, <3>2, <4>1, StartTypes
      <4>3. QED
        BY <3>2, <4>2 DEF PartStep, PartStarted
    <3>3. CASE l = All
      BY <3>1, <3>3, NoJobTypes, GroupAssumption DEF PartStep, PartStarted
    <3>4. QED
      BY <3>2, <3>3 DEF Job
  <2> HIDE DEF jobs
  <2>3. CASE b # r
    BY <2>1, <2>3 DEF TypeOK, PartStep, PartKept
  <2>4. QED
    BY <2>2, <2>3
<1>5. QED
  BY <1>1, <1>2, <1>3, <1>4 DEF RunStep, ListGroups, LeaveGroups, FindDoomed, DeleteGroup,
     PeopleImported

LEMMA Parts ==
  ASSUME TypesInv, [Next]_vars, NEW b \in Actor, NEW l \in Job, NEW h \in Group
  PROVE  PartStep(b, l, h)
<1>1. CASE UNCHANGED <<importing, job>>
  BY <1>1 DEF PartStep, PartKept
<1>2. ASSUME NEW a \in Login, NEW p \in Person, LogIn(a, p) PROVE PartStep(b, l, h)
  <2>1. /\ importing' = [importing EXCEPT ![a] = {p}]
        /\ job' = [job EXCEPT ![a][p] = Start(member[p])]
        /\ member[p] \in SUBSET Group
    BY <1>2 DEF LogIn, TypesInv, TypeOK
  <2>2. CASE b = a /\ l = p
    <3>1. job'[b][l] = Start(member[p])
      BY <2>1, <2>2 DEF TypesInv, TypeOK
    <3>2. QED
      BY <2>1, <2>2, <3>1, StartTypes DEF PartStep, PartStarted
  <2>3. CASE b # a \/ l # p
    <3>1. job'[b][l][h] = job[b][l][h]
      BY <2>1, <2>3 DEF TypesInv, TypeOK
    <3>2. l \in importing'[b] => l \in importing[b]
      BY <2>1, <2>3 DEF TypesInv, TypeOK
    <3>3. QED
      BY <3>1, <3>2 DEF PartStep, PartKept
  <2>4. QED
    BY <2>2, <2>3
<1>3. QED
  BY <1>1, <1>2, WriteParts, RunParts
     DEF Next, vars, SaveSettings, LogOut, ChangeMember, ChangeGroup

(* The rights of a person after a step: as they were, without the rows of a *)
(* group that is deleted, or those of an import or of a session.            *)
RightsFrom(p) ==
  \/ user'[p] = user[p] /\ (p \in undone => p \in undone')
  \/ \E r \in Run, g \in Group :
       /\ DeleteGroup(r, g) /\ undone' = undone
       /\ user'[p] = [user[p] EXCEPT !.groups = {m \in user[p].groups : m[1] # g}]
  \/ \E a \in Actor : SaveUser(a, p) /\ user'[p] = Earned(a, p)
  \/ session[p] # NoSession /\ user'[p] = session[p] /\ (p \in older => p \in undone')

SessionFrom(p) ==
  \/ session'[p] = session[p] /\ (p \in older => p \in older')
  \/ session'[p] = NoSession
  \/ \E a \in Actor : SaveUser(a, p) /\ session'[p] = Earned(a, p)

LEMMA RightsOfStep ==
  ASSUME TypesInv, [Next]_vars, NEW p \in Person
  PROVE  RightsFrom(p) /\ SessionFrom(p)
<1> USE DEF TypesInv
<1>1. CASE UNCHANGED <<user, session, older, undone>>
  BY <1>1 DEF RightsFrom, SessionFrom
<1>2. ASSUME NEW a \in Actor, NEW q \in Person, SaveUser(a, q)
      PROVE  RightsFrom(p) /\ SessionFrom(p)
  <2>1. /\ user' = [user EXCEPT ![q] = Earned(a, q)]
        /\ \/ session' = [session EXCEPT ![q] = Earned(a, q)] /\ older' = older \ {q}
           \/ UNCHANGED <<session, older>>
        /\ undone' = undone \ {q}
    BY <1>2 DEF SaveUser
  <2>2. user'[p] = IF p = q THEN Earned(a, q) ELSE user[p]
    BY <2>1 DEF TypeOK
  <2>3. \/ session'[p] = session[p] /\ (p \in older => p \in older')
        \/ p = q /\ session'[p] = Earned(a, q)
    BY <2>1 DEF TypeOK
  <2>4. p # q => (p \in undone => p \in undone')
    BY <2>1
  <2>5. QED
    BY <1>2, <2>2, <2>3, <2>4 DEF RightsFrom, SessionFrom
<1>3. ASSUME NEW r \in Run, NEW g \in Group, DeleteGroup(r, g)
      PROVE  RightsFrom(p) /\ SessionFrom(p)
  BY <1>3 DEF DeleteGroup, RightsFrom, SessionFrom
<1>4. ASSUME NEW q \in Person, SaveSettings(q) PROVE RightsFrom(p) /\ SessionFrom(p)
  BY <1>4 DEF SaveSettings, RightsFrom, SessionFrom, TypeOK
<1>5. ASSUME NEW q \in Person, LogOut(q) PROVE RightsFrom(p) /\ SessionFrom(p)
  BY <1>5 DEF LogOut, RightsFrom, SessionFrom, TypeOK, dbVars
<1>6. ASSUME NEW a \in Actor, WriteStep(a), \A q \in Person : ~SaveUser(a, q)
      PROVE  UNCHANGED <<user, session, older, undone>>
  BY <1>6 DEF WriteStep, FindGroup, SaveGroup, SaveGroupFails, SaveUserFails, dbVars
<1>7. ASSUME NEW r \in Run, RunStep(r), \A g \in Group : ~DeleteGroup(r, g)
      PROVE  UNCHANGED <<user, session, older, undone>>
  BY <1>7 DEF RunStep, ListGroups, LeaveGroups, FindDoomed, WriteGroups,
     GroupsWritten, ListPeople, PeopleImported, dbVars
<1>8. QED
  BY <1>1, <1>2, <1>3, <1>4, <1>5, <1>6, <1>7
     DEF Next, vars, dbVars, LogIn, ChangeMember, ChangeGroup

(* A row of a group goes away only with the group.                          *)
LEMMA RowsOfStep ==
  ASSUME TypesInv, [Next]_vars, NEW g \in Group
  PROVE  rows[g] \subseteq rows'[g] \/ \E r \in Run : DeleteGroup(r, g)
<1> USE DEF TypesInv
<1>1. ASSUME NEW a \in Actor, WriteStep(a) PROVE rows[g] \subseteq rows'[g]
  <2>1. UNCHANGED rows \/ \E h \in Group : \E i : rows' = [rows EXCEPT ![h] = @ \cup {i}]
    BY <1>1 DEF WriteStep, FindGroup, SaveGroup, SaveGroupFails, SaveUser, SaveUserFails, dbVars
  <2>2. rows \in [Group -> SUBSET Row]
    BY DEF TypeOK
  <2>3. QED
    BY <2>1, <2>2
<1>2. ASSUME NEW r \in Run, NEW h \in Group, DeleteGroup(r, h)
      PROVE  rows[g] \subseteq rows'[g] \/ h = g
  BY <1>2 DEF DeleteGroup, TypeOK
<1>3. ASSUME NEW r \in Run, RunStep(r), \A h \in Group : ~DeleteGroup(r, h)
      PROVE  UNCHANGED rows
  BY <1>3 DEF RunStep, ListGroups, LeaveGroups, FindDoomed, WriteGroups,
     GroupsWritten, ListPeople, PeopleImported, dbVars
<1>4. ASSUME NEW r \in Run, RunStep(r)
      PROVE  rows[g] \subseteq rows'[g] \/ DeleteGroup(r, g)
  BY <1>2, <1>3, <1>4
<1>5. QED
  BY <1>1, <1>4 DEF Next, vars, dbVars, LogIn, SaveSettings, LogOut, ChangeMember, ChangeGroup

-----------------------------------------------------------------------------
(* Rights come from the directory.                                          *)

(* Only its administrators change the directory and what is said of it.     *)
LEMMA SourcesKept ==
  ASSUME [Next]_vars
  PROVE  \/ UNCHANGED sourceVars
         \/ \E p \in Person, groups \in SUBSET exists : ChangeMember(p, groups)
         \/ \E g \in Group : ChangeGroup(g)
<1>1. ASSUME NEW a \in Actor, WriteStep(a) PROVE UNCHANGED sourceVars
  BY <1>1 DEF WriteStep, FindGroup, SaveGroup, SaveGroupFails, SaveUser, SaveUserFails
<1>2. ASSUME NEW r \in Run, RunStep(r) PROVE UNCHANGED sourceVars
  BY <1>2 DEF RunStep, ListGroups, LeaveGroups, FindDoomed, DeleteGroup, WriteGroups,
     GroupsWritten, ListPeople, PeopleImported
<1>3. ASSUME \/ \E l \in Login, p \in Person : LogIn(l, p)
             \/ \E p \in Person : SaveSettings(p) \/ LogOut(p)
      PROVE  UNCHANGED sourceVars
  BY <1>3 DEF LogIn, SaveSettings, LogOut
<1>4. QED
  BY <1>1, <1>2, <1>3 DEF Next, vars

LEMMA HistoryStep ==
  ASSUME TypesInv, HistoryInv, [Next]_vars
  PROVE  /\ HistoryInv'
         /\ everMember \subseteq everMember'
         /\ steady' \subseteq steady
<1> USE DEF TypesInv
<1>1. CASE UNCHANGED sourceVars
  BY <1>1 DEF HistoryInv, sourceVars
<1>2. ASSUME NEW p \in Person, NEW groups \in SUBSET exists, ChangeMember(p, groups)
      PROVE  /\ HistoryInv'
             /\ everMember \subseteq everMember'
             /\ steady' \subseteq steady
  <2>1. /\ everMember \subseteq everMember'
        /\ steady' \subseteq steady
        /\ \A q \in Person : member'[q] = IF q = p THEN groups ELSE member[q]
        /\ \A g \in groups : <<p, g>> \in everMember'
        /\ \A g \in Group : <<p, g>> \in steady' => g \in groups
        /\ changes' # 0 /\ exists' = exists
    BY <1>2 DEF ChangeMember, TypeOK
  <2>2. QED
    BY <2>1 DEF HistoryInv
<1>3. ASSUME NEW x \in Group, ChangeGroup(x)
      PROVE  /\ HistoryInv'
             /\ everMember \subseteq everMember'
             /\ steady' \subseteq steady
  <2>1. /\ everMember' = everMember
        /\ steady' \subseteq steady
        /\ \A q \in Person : member'[q] = member[q] \ {x}
        /\ \A q \in Person : <<q, x>> \notin steady'
        /\ exists \ {x} \subseteq exists'
        /\ changes' # 0
    BY <1>3 DEF ChangeGroup, TypeOK
  <2>2. QED
    BY <2>1 DEF HistoryInv
<1>4. QED
  BY <1>1, <1>2, <1>3, SourcesKept

LEMMA InitRights == Init => RightsInv
<1> SUFFICES ASSUME Init PROVE RightsInv
  OBVIOUS
<1>1. TypesInv
  BY InitTypes
<1>2. PICK was \in [Person -> SUBSET Group], held \in [older -> SUBSET Group] :
        /\ user = [p \in Person |-> RightsIn(was[p])]
        /\ session = [p \in Person |-> IF p \in older THEN RightsIn(held[p]) ELSE NoSession]
        /\ everMember = {m \in Person \X Group :
             \/ m[2] \in member[m[1]] \cup was[m[1]]
             \/ m[1] \in older /\ m[2] \in held[m[1]]}
  BY DEF Init
<1>3. HistoryInv
  BY <1>2 DEF Init, HistoryInv
<1>4. OriginInv
  BY <1>2, NoJobTypes, Jobs, GroupAssumption DEF Init, OriginInv, RightsIn
<1>5. RightsComeFromDirectory
  BY <1>2, GroupAssumption DEF RightsComeFromDirectory, GroupsOf, RightsIn
<1>6. QED
  BY <1>1, <1>3, <1>4, <1>5 DEF RightsInv

(* What an import earns has been shown.                                     *)
LEMMA EarnedOrigin ==
  ASSUME OriginInv, NEW a \in Actor, NEW p \in Person
  PROVE  /\ Earned(a, p).isAdmin => <<p, Admin>> \in everMember
         /\ \A m \in Earned(a, p).groups : <<p, m[1]>> \in everMember
<1>1. \A g \in SavedGroups(a, p) : g \in Group /\ <<p, g>> \in everMember
  BY DEF OriginInv, SavedGroups
<1>2. QED
  BY <1>1, EarnedGroups

LEMMA RightsStep ==
  ASSUME RightsInv, [Next]_vars
  PROVE  RightsInv'
<1>1. TypesInv /\ TypeOK /\ HistoryInv /\ OriginInv /\ RightsComeFromDirectory
  BY DEF RightsInv, TypesInv
<1>2. HistoryInv' /\ everMember \subseteq everMember'
  BY <1>1, HistoryStep
<1>3. TypesInv'
  BY <1>1, WriteTypes, RunTypes, OtherTypes
     DEF Next, vars, dbVars, sourceVars, runVars, TypesInv, TypeOK, SavedInv
<1> DEFINE Shown(p, rights) ==
      /\ rights.isAdmin => <<p, Admin>> \in everMember'
      /\ \A m \in rights.groups : <<p, m[1]>> \in everMember'
<1>4. \A p \in Person : Shown(p, user[p])
  BY <1>1, <1>2 DEF RightsComeFromDirectory, GroupsOf
<1>5. \A p \in Person : session[p] # NoSession => Shown(p, session[p])
  BY <1>1, <1>2 DEF OriginInv
<1>6. \A a \in Actor, p \in Person : Shown(p, Earned(a, p))
  BY <1>1, <1>2, EarnedOrigin
<1>7. \A a \in Actor, p \in Person, g \in Group :
        job[a][p][g].pc # "idle" => <<p, g>> \in everMember'
  BY <1>1, <1>2 DEF OriginInv
<1>8. \A p \in Person, g \in Group : g \in member[p] => <<p, g>> \in everMember'
  BY <1>1, <1>2 DEF HistoryInv
<1>9. ASSUME NEW p \in Person
      PROVE  Shown(p, user'[p]) /\ (session'[p] # NoSession => Shown(p, session'[p]))
  <2>1. RightsFrom(p) /\ SessionFrom(p)
    BY <1>1, RightsOfStep
  <2>2. Shown(p, user[p]) /\ (session[p] # NoSession => Shown(p, session[p]))
    BY <1>4, <1>5
  <2>3. \A a \in Actor : Shown(p, Earned(a, p))
    BY <1>6
  <2>4. ASSUME NEW g \in Group,
               user'[p] = [user[p] EXCEPT !.groups = {m \in user[p].groups : m[1] # g}]
        PROVE  Shown(p, user'[p])
    <3>1. user[p] \in Rights
      BY <1>1 DEF TypeOK
    <3>2. /\ user'[p].isAdmin = user[p].isAdmin
          /\ user'[p].groups \subseteq user[p].groups
      BY <2>4, <3>1 DEF Rights
    <3>3. QED
      BY <2>2, <3>2
  <2> HIDE DEF Shown
  <2>5. QED
    BY <2>1, <2>2, <2>3, <2>4 DEF RightsFrom, SessionFrom
<1>10. ASSUME NEW a \in Actor, NEW p \in Person, NEW g \in Group, job'[a][p][g].pc # "idle"
       PROVE  <<p, g>> \in everMember'
  <2>1. PartStep(a, p, g)
    BY <1>1, Parts, Jobs
  <2>2. p # All
    BY GroupAssumption
  <2>3. QED
    BY <1>7, <1>8, <1>10, <2>1, <2>2
       DEF PartStep, PartKept, PartMoved, PartStarted, PartEnded
<1>11. OriginInv' /\ RightsComeFromDirectory'
  BY <1>9, <1>10 DEF OriginInv, RightsComeFromDirectory, GroupsOf
<1>12. QED
  BY <1>2, <1>3, <1>11 DEF RightsInv

(* Nobody gets a group, or isAdmin, that the directory has never shown:     *)
(* not from failed saves, duplicate rows, or a session that is saved.       *)
THEOREM GroupRights == Spec => []RightsComeFromDirectory
BY InitRights, RightsStep, PTL DEF Spec, RightsInv

-----------------------------------------------------------------------------
(* Steady rights are kept.                                                  *)

LEMMA FaultsOfStep ==
  ASSUME TypesInv, [Next]_vars, faults' = 0
  PROVE  faults = 0
<1>1. faults' = faults \/ faults' = faults + 1
  <2>1. ASSUME NEW a \in Actor, WriteStep(a) PROVE faults' = faults \/ faults' = faults + 1
    BY <2>1 DEF WriteStep, FindGroup, SaveGroup, SaveGroupFails, SaveUser, SaveUserFails, Fault
  <2>2. ASSUME NEW r \in Run, RunStep(r) PROVE faults' = faults \/ faults' = faults + 1
    BY <2>2 DEF RunStep, ListGroups, LeaveGroups, FindDoomed, DeleteGroup, WriteGroups,
       GroupsWritten, ListPeople, PeopleImported, Fault
  <2>3. QED
    BY <2>1, <2>2 DEF Next, vars, LogIn, SaveSettings, LogOut, ChangeMember, ChangeGroup
<1>2. QED
  BY <1>1 DEF TypesInv, TypeOK

LEMMA InitKept == Init => AfterRunInv
<1> SUFFICES ASSUME Init PROVE AfterRunInv
  OBVIOUS
<1>1. TypesInv /\ HistoryInv
  BY InitTypes, InitRights DEF RightsInv
<1>2. GroupKeptInv
  BY NoJobTypes, GroupAssumption DEF Init, GroupKeptInv
<1>3. SteadyInv /\ SetInv
  BY Actors DEF Init, SteadyInv, SetInv
<1>4. QED
  BY <1>1, <1>2, <1>3 DEF AfterRunInv, KeptInv

(* The groups that are found and not deleted include those of the steady.   *)
LEMMA SearchKeepsSteady ==
  ASSUME TypesInv, HistoryInv, GroupKeptInv, [Next]_vars,
         NEW g \in Group, SteadyGroup(g), NEW r \in Run
  PROVE  /\ listing'[r][DomainOf[g]] = "ok" => g \in listed'[r]
         /\ g \notin doomed'[r]
<1> USE DEF TypesInv
<1>1. /\ listing[r][DomainOf[g]] = "ok" => g \in listed[r]
      /\ g \notin doomed[r]
      /\ DomainOf[g] \in Domain
      /\ g \in exists
  BY GroupAssumption DEF GroupKeptInv, HistoryInv, SteadyGroup
<1>2. CASE UNCHANGED <<listing, listed, doomed>>
  BY <1>1, <1>2
<1>3. ASSUME NEW q \in Run, NEW d \in Domain, ListGroups(q, d)
      PROVE  listing'[r][DomainOf[g]] = "ok" => g \in listed'[r]
  <2>1. CASE q = r /\ DomainOf[g] = d
    <3>1. CASE listed' = [listed EXCEPT ![q] = @ \cup {h \in exists : DomainOf[h] = d}]
      BY <1>1, <2>1, <3>1 DEF TypeOK
    <3>2. CASE listing' = [listing EXCEPT ![q][d] = "error"]
      BY <1>1, <2>1, <3>2 DEF TypeOK
    <3>3. QED
      BY <1>3, <3>1, <3>2 DEF ListGroups
  <2>2. CASE q # r \/ DomainOf[g] # d
    <3>1. listing'[r][DomainOf[g]] = listing[r][DomainOf[g]]
      <4>1. PICK result \in {"ok", "error"} : listing' = [listing EXCEPT ![q][d] = result]
        BY <1>3 DEF ListGroups
      <4>2. QED
        BY <1>1, <2>2, <4>1 DEF TypeOK
    <3>2. listed[r] \subseteq listed'[r]
      BY <1>3 DEF ListGroups, TypeOK
    <3>3. QED
      BY <1>1, <3>1, <3>2
  <2>3. QED
    BY <2>1, <2>2
<1>4. ASSUME NEW q \in Run, FindDoomed(q)
      PROVE  g \notin doomed'[r]
  <2>1. IsNormal(q) => g \in listed[q]
    BY <1>1 DEF IsNormal, GroupKeptInv
  <2>2. g \notin doomed'[q]
    BY <1>1, <1>4, <2>1 DEF FindDoomed, TypeOK, GroupKeptInv
  <2>3. q # r => doomed'[r] = doomed[r]
    BY <1>4 DEF FindDoomed, TypeOK
  <2>4. QED
    BY <1>1, <2>2, <2>3
<1>5. ASSUME NEW q \in Run, NEW h \in Group, DeleteGroup(q, h)
      PROVE  g \notin doomed'[r]
  BY <1>1, <1>5 DEF DeleteGroup, TypeOK
<1>6. ASSUME NEW q \in Run, RunStep(q)
      PROVE  /\ listing'[r][DomainOf[g]] = "ok" => g \in listed'[r]
             /\ g \notin doomed'[r]
  <2>1. CASE \E d \in Domain : ListGroups(q, d)
    BY <1>1, <1>3, <2>1 DEF ListGroups
  <2>2. CASE FindDoomed(q)
    BY <1>1, <1>4, <2>2 DEF FindDoomed
  <2>3. CASE \E h \in Group : DeleteGroup(q, h)
    BY <1>1, <1>5, <2>3 DEF DeleteGroup
  <2>4. QED
    BY <1>2, <1>6, <2>1, <2>2, <2>3
       DEF RunStep, LeaveGroups, WriteGroups, GroupsWritten, ListPeople, PeopleImported
<1>7. ASSUME NEW a \in Actor, WriteStep(a) PROVE UNCHANGED <<listing, listed, doomed>>
  BY <1>7 DEF WriteStep, FindGroup, SaveGroup, SaveGroupFails, SaveUser, SaveUserFails, runVars
<1>8. QED
  BY <1>2, <1>6, <1>7
     DEF Next, vars, runVars, LogIn, SaveSettings, LogOut, ChangeMember, ChangeGroup

LEMMA SteadyRows ==
  ASSUME TypesInv, GroupKeptInv, [Next]_vars, NEW g \in Group, SteadyGroup(g)
  PROVE  rows[g] \subseteq rows'[g]
BY RowsOfStep DEF GroupKeptInv, DeleteGroup

(* What an import without failures earns includes what is steady.           *)
LEMMA EarnedSteady ==
  ASSUME SteadyInv, faults = 0, NEW a \in Actor, NEW p \in Person, SaveUser(a, p),
         NEW g \in Group, <<p, g>> \in steady
  PROVE  /\ g \in SavedGroups(a, p)
         /\ \E m \in Earned(a, p).groups : m[1] = g
         /\ g = Admin => Earned(a, p).isAdmin
<1>1. job[a][p][g].pc = "saved"
  BY DEF SteadyInv, SaveUser, Settled
<1>2. g \in SavedGroups(a, p)
  BY <1>1 DEF SavedGroups
<1>3. QED
  BY <1>2, EarnedGroups

LEMMA KeptStep ==
  ASSUME KeptInv, [Next]_vars
  PROVE  KeptInv'
<1>1. TypesInv /\ TypeOK /\ HistoryInv /\ GroupKeptInv /\ SteadyInv
  BY DEF KeptInv, TypesInv
<1>2. HistoryInv' /\ steady' \subseteq steady
  BY <1>1, HistoryStep
<1>3. TypesInv'
  BY <1>1, WriteTypes, RunTypes, OtherTypes
     DEF Next, vars, dbVars, sourceVars, runVars, TypesInv, TypeOK, SavedInv
<1>4. GroupKeptInv'
  <2> SUFFICES ASSUME NEW g \in Group, SteadyGroup(g)
               PROVE  /\ \A r \in Run : listing'[r][DomainOf[g]] = "ok" => g \in listed'[r]
                      /\ \A r \in Run : g \notin doomed'[r]
                      /\ \A a \in Actor, k \in Job :
                           job'[a][k][g].pc = "saved" => job'[a][k][g].row \in rows'[g]
    BY <1>2 DEF GroupKeptInv, SteadyGroup
  <2>1. \A r \in Run : /\ listing'[r][DomainOf[g]] = "ok" => g \in listed'[r]
                       /\ g \notin doomed'[r]
    BY <1>1, SearchKeepsSteady
  <2>2. ASSUME NEW a \in Actor, NEW k \in Job, job'[a][k][g].pc = "saved"
        PROVE  job'[a][k][g].row \in rows'[g]
    <3>1. PartStep(a, k, g)
      BY <1>1, Parts
    <3>2. rows[g] \subseteq rows'[g]
      BY <1>1, SteadyRows
    <3>3. job[a][k][g].pc = "saved" => job[a][k][g].row \in rows[g]
      BY <1>1 DEF GroupKeptInv
    <3>4. QED
      BY <2>2, <3>1, <3>2, <3>3 DEF PartStep, PartKept, PartMoved, PartStarted, PartEnded
  <2>3. QED
    BY <2>1, <2>2
<1>5. SteadyInv'
  <2> SUFFICES ASSUME faults' = 0, NEW p \in Person, NEW g \in Group, <<p, g>> \in steady
               PROVE  /\ \A a \in Actor : p \in importing'[a] =>
                           job'[a][p][g].pc \in {"find", "save", "saved"}
                      /\ session'[p] # NoSession /\ p \notin older' =>
                           /\ \E m \in session'[p].groups : m[1] = g
                           /\ g = Admin => session'[p].isAdmin
    BY <1>2 DEF SteadyInv
  <2>1. faults = 0
    BY <1>1, FaultsOfStep
  <2>2. g \in member[p]
    BY <1>1 DEF HistoryInv
  <2>3. ASSUME NEW a \in Actor, p \in importing'[a]
        PROVE  job'[a][p][g].pc \in {"find", "save", "saved"}
    <3>1. PartStep(a, p, g)
      BY <1>1, Parts, Jobs
    <3>2. p \in importing[a] => job[a][p][g].pc \in {"find", "save", "saved"}
      BY <1>1, <2>1 DEF SteadyInv
    <3>3. p # All
      BY GroupAssumption
    <3>4. QED
      BY <2>2, <2>3, <3>1, <3>2, <3>3
         DEF PartStep, PartKept, PartMoved, PartStarted, PartEnded
  <2>4. ASSUME session'[p] # NoSession, p \notin older'
        PROVE  /\ \E m \in session'[p].groups : m[1] = g
               /\ g = Admin => session'[p].isAdmin
    <3>1. SessionFrom(p)
      BY <1>1, RightsOfStep
    <3>2. session[p] # NoSession /\ p \notin older =>
            /\ \E m \in session[p].groups : m[1] = g
            /\ g = Admin => session[p].isAdmin
      BY <1>1, <2>1 DEF SteadyInv
    <3>3. \A a \in Actor : SaveUser(a, p) => /\ \E m \in Earned(a, p).groups : m[1] = g
                                             /\ g = Admin => Earned(a, p).isAdmin
      BY <1>1, <2>1, EarnedSteady
    <3>4. QED
      BY <2>4, <3>1, <3>2, <3>3 DEF SessionFrom
  <2>5. QED
    BY <2>3, <2>4
<1>6. QED
  BY <1>2, <1>3, <1>4, <1>5 DEF KeptInv

(* What one step does to the steady rights of a person.                     *)
LEMMA SteadyStep ==
  ASSUME KeptInv, [Next]_vars, NEW p \in Person, NEW g \in Group, <<p, g>> \in steady
  PROVE  /\ rows[g] \subseteq rows'[g]
         /\ faults' = 0 /\ p \notin undone' =>
              /\ g \in GroupsOf(p) => g \in GroupsOf(p)'
              /\ g = Admin /\ user[p].isAdmin => user'[p].isAdmin
<1>1. TypesInv /\ TypeOK /\ GroupKeptInv /\ SteadyInv /\ SteadyGroup(g)
  BY DEF KeptInv, TypesInv, SteadyGroup
<1>2. rows[g] \subseteq rows'[g]
  BY <1>1, SteadyRows
<1>3. ASSUME faults' = 0, p \notin undone'
      PROVE  /\ (\E m \in user[p].groups : m[1] = g) => \E m \in user'[p].groups : m[1] = g
             /\ g = Admin /\ user[p].isAdmin => user'[p].isAdmin
  <2>1. faults = 0
    BY <1>1, <1>3, FaultsOfStep
  <2>2. RightsFrom(p)
    BY <1>1, RightsOfStep
  <2>3. \A a \in Actor : SaveUser(a, p) => /\ \E m \in Earned(a, p).groups : m[1] = g
                                           /\ g = Admin => Earned(a, p).isAdmin
    BY <1>1, <2>1, EarnedSteady
  <2>4. session[p] # NoSession /\ p \notin older =>
          /\ \E m \in session[p].groups : m[1] = g
          /\ g = Admin => session[p].isAdmin
    BY <1>1, <2>1 DEF SteadyInv
  <2>5. ASSUME NEW r \in Run, NEW h \in Group, DeleteGroup(r, h),
               user'[p] = [user[p] EXCEPT !.groups = {m \in user[p].groups : m[1] # h}]
        PROVE  /\ (\E m \in user[p].groups : m[1] = g) => \E m \in user'[p].groups : m[1] = g
               /\ g = Admin /\ user[p].isAdmin => user'[p].isAdmin
    <3>1. h # g
      BY <1>1, <2>5 DEF GroupKeptInv, DeleteGroup
    <3>2. user[p] \in Rights
      BY <1>1 DEF TypeOK
    <3>3. /\ user'[p].isAdmin = user[p].isAdmin
          /\ user'[p].groups = {m \in user[p].groups : m[1] # h}
      BY <2>5, <3>2 DEF Rights
    <3>4. QED
      BY <3>1, <3>3
  <2>6. QED
    BY <1>3, <2>2, <2>3, <2>4, <2>5 DEF RightsFrom
<1>4. QED
  BY <1>2, <1>3 DEF GroupsOf

(* Whatever is shown all the time survives: no failing domain, second row,  *)
(* late import or session takes a group or isAdmin from who has them.       *)
THEOREM SteadyRights == Spec => SteadyRightsKept
<1>1. KeptInv /\ [Next]_vars => KeptInv'
  BY KeptStep
<1>2. Init => KeptInv
  BY InitKept DEF AfterRunInv
<1>3. KeptInv /\ [Next]_vars =>
        [\A p \in Person, g \in Group : <<p, g>> \in steady =>
           /\ rows[g] \subseteq rows'[g]
           /\ faults' = 0 /\ p \notin undone' =>
                /\ g \in GroupsOf(p) => g \in GroupsOf(p)'
                /\ g = Admin /\ user[p].isAdmin => user'[p].isAdmin]_vars
  BY SteadyStep
<1>4. QED
  BY <1>1, <1>2, <1>3, PTL DEF Spec, SteadyRightsKept

-----------------------------------------------------------------------------
(* A run that nothing disturbed sets everybody's rights.                    *)

(* Who leaves the people of an actor has been saved, or could not be.       *)
LEMMA ImportsOfStep ==
  ASSUME TypesInv, [Next]_vars, NEW a \in Actor, NEW p \in importing[a], p \notin importing'[a]
  PROVE  SaveUser(a, p) \/ SaveUserFails(a, p)
<1> USE DEF TypesInv
<1>1. CASE UNCHANGED importing
  BY <1>1
<1>2. ASSUME NEW b \in Actor, NEW q \in Person, SaveUser(b, q) \/ SaveUserFails(b, q)
      PROVE  b = a /\ q = p
  <2>1. importing' = [importing EXCEPT ![b] = @ \ {q}]
    BY <1>2 DEF SaveUser, SaveUserFails
  <2>2. QED
    BY <2>1 DEF TypeOK
<1>3. ASSUME NEW b \in Actor, WriteStep(b) PROVE SaveUser(a, p) \/ SaveUserFails(a, p)
  BY <1>1, <1>2, <1>3 DEF WriteStep, FindGroup, SaveGroup, SaveGroupFails
<1>4. ASSUME NEW r \in Run, ListPeople(r) PROVE UNCHANGED importing
  <2>1. p \in Person
    BY DEF TypeOK
  <2>2. UNCHANGED importing \/ importing' = [importing EXCEPT ![r] = Person]
    BY <1>4 DEF ListPeople
  <2>3. QED
    BY <2>1, <2>2 DEF TypeOK
<1>5. ASSUME NEW l \in Login, NEW q \in Person, LogIn(l, q) PROVE FALSE
  BY <1>5 DEF LogIn, TypeOK
<1>6. ASSUME NEW r \in Run, RunStep(r) PROVE UNCHANGED importing
  BY <1>4, <1>6 DEF RunStep, ListGroups, LeaveGroups, FindDoomed, DeleteGroup, WriteGroups,
     GroupsWritten, PeopleImported
<1>7. QED
  BY <1>1, <1>3, <1>5, <1>6
     DEF Next, vars, SaveSettings, LogOut, ChangeMember, ChangeGroup

(* Without failures a run gets to its people, and ends when all are done.   *)
LEMMA RunOfStep ==
  ASSUME TypesInv, [Next]_vars, faults' = 0, NEW r \in Run, run'[r] \in {"people", "done"}
  PROVE  \/ run'[r] = run[r]
         \/ run'[r] = "people" /\ importing'[r] = Person
         \/ run[r] = "people" /\ importing[r] = {}
<1> USE DEF TypesInv
<1>1. ASSUME NEW q \in Run, LeaveGroups(q) \/ WriteGroups(q) \/ GroupsWritten(q)
      PROVE  run'[r] = run[r]
  BY <1>1 DEF LeaveGroups, WriteGroups, GroupsWritten, Become, TypeOK
<1>2. ASSUME NEW q \in Run, FindDoomed(q)
      PROVE  run'[r] = run[r]
  BY <1>2 DEF FindDoomed, Become, Fault, TypeOK
<1>3. ASSUME NEW q \in Run, ListPeople(q)
      PROVE  run'[r] = run[r] \/ (run'[r] = "people" /\ importing'[r] = Person)
  <2>1. /\ run' = [run EXCEPT ![q] = "people"]
        /\ importing' = [importing EXCEPT ![q] = Person]
    BY <1>3 DEF ListPeople, Become, Fault, TypeOK
  <2>2. QED
    BY <2>1, Actors DEF TypeOK
<1>4. ASSUME NEW q \in Run, PeopleImported(q)
      PROVE  run'[r] = run[r] \/ (run[r] = "people" /\ importing[r] = {})
  BY <1>4 DEF PeopleImported, Become, TypeOK
<1>5. ASSUME NEW q \in Run, RunStep(q)
      PROVE  \/ run'[r] = run[r]
             \/ run'[r] = "people" /\ importing'[r] = Person
             \/ run[r] = "people" /\ importing[r] = {}
  BY <1>1, <1>2, <1>3, <1>4, <1>5 DEF RunStep, ListGroups, DeleteGroup
<1>6. ASSUME NEW a \in Actor, WriteStep(a) PROVE UNCHANGED run
  BY <1>6 DEF WriteStep, FindGroup, SaveGroup, SaveGroupFails, SaveUser, SaveUserFails, runVars
<1>7. QED
  BY <1>5, <1>6
     DEF Next, vars, runVars, LogIn, SaveSettings, LogOut, ChangeMember, ChangeGroup

(* An import that nothing disturbs earns the groups of the directory, whose *)
(* rows are all there.                                                      *)
LEMMA EarnedAgrees ==
  ASSUME AfterRunInv, faults = 0, changes = 0, NEW a \in Actor, NEW p \in importing[a],
         Settled(a, p)
  PROVE  Agrees(p, Earned(a, p)) /\ Storable(p, Earned(a, p))
<1>1. TypesInv /\ TypeOK /\ HistoryInv /\ GroupKeptInv /\ SteadyInv /\ SetInv
  BY DEF AfterRunInv, KeptInv, TypesInv
<1>2. p \in Person /\ p \in Job
  BY <1>1, Jobs DEF TypeOK
<1>3. \A g \in Group : g \in member[p] <=> job[a][p][g].pc = "saved"
  <2> TAKE g \in Group
  <2>1. g \in member[p] => job[a][p][g].pc \in {"find", "save", "saved"}
    BY <1>1, <1>2 DEF HistoryInv, SteadyInv
  <2>2. job[a][p][g].pc = "saved" => g \in member[p]
    BY <1>1, <1>2 DEF SetInv
  <2>3. job[a][p][g].pc \notin {"find", "save"}
    BY DEF Settled
  <2>4. QED
    BY <2>1, <2>2, <2>3
<1>4. SavedGroups(a, p) = member[p]
  BY <1>1, <1>2, <1>3 DEF SavedGroups, TypeOK
<1>5. Agrees(p, Earned(a, p))
  BY <1>2, <1>4, EarnedGroups DEF Agrees
<1>6. \A m \in Earned(a, p).groups : m[2] \in rows[m[1]]
  <2> TAKE m \in Earned(a, p).groups
  <2>1. /\ m[1] \in Group /\ m[1] \in member[p]
        /\ m[2] = job[a][p][m[1]].row /\ job[a][p][m[1]].pc = "saved"
    BY <1>2, <1>4, EarnedGroups DEF SavedGroups
  <2>2. SteadyGroup(m[1])
    BY <1>1, <1>2, <2>1 DEF HistoryInv, SteadyGroup
  <2>3. QED
    BY <1>1, <1>2, <2>1, <2>2 DEF GroupKeptInv
<1>7. QED
  BY <1>5, <1>6 DEF Storable

LEMMA SetStep ==
  ASSUME AfterRunInv, [Next]_vars
  PROVE  SetInv'
<1> SUFFICES ASSUME faults' = 0, changes' = 0, NEW p \in Person
             PROVE  /\ \A a \in Actor, g \in Group : p \in importing'[a] =>
                         /\ job'[a][p][g].pc # "failed"
                         /\ job'[a][p][g].pc # "idle" => g \in member'[p]
                    /\ session'[p] # NoSession /\ p \notin older' => Agrees(p, session[p])'
                    /\ \A r \in Run :
                         /\ run'[r] = "done" \/ (run'[r] = "people" /\ p \notin importing'[r])
                         /\ p \notin undone'
                         => Agrees(p, user[p])'
  BY DEF SetInv
<1>1. TypesInv /\ TypeOK /\ HistoryInv /\ GroupKeptInv /\ SetInv
  BY DEF AfterRunInv, KeptInv, TypesInv
<1>2. faults = 0 /\ changes = 0 /\ UNCHANGED sourceVars
  <2>1. faults = 0
    BY <1>1, FaultsOfStep
  <2>2. UNCHANGED sourceVars
    BY <1>1, SourcesKept DEF ChangeMember, ChangeGroup, TypeOK
  <2>3. QED
    BY <2>1, <2>2 DEF sourceVars
<1>3. member' = member
  BY <1>2 DEF sourceVars
<1> DEFINE Right(rights) == /\ {m[1] : m \in rights.groups} = member[p]
                            /\ rights.isAdmin = (Admin \in member[p])
<1>4. /\ Agrees(p, session[p])' <=> Right(session'[p])
      /\ Agrees(p, user[p])' <=> Right(user'[p])
  BY <1>3 DEF Agrees
<1>5. \A a \in Actor : p \in importing[a] /\ Settled(a, p) =>
        Right(Earned(a, p)) /\ Storable(p, Earned(a, p))
  BY <1>2, EarnedAgrees DEF Agrees
<1>6. session[p] # NoSession /\ p \notin older => Right(session[p])
  BY <1>1, <1>2 DEF SetInv, Agrees
<1>7. ASSUME NEW a \in Actor, NEW g \in Group, p \in importing'[a]
      PROVE  job'[a][p][g].pc # "failed" /\ (job'[a][p][g].pc # "idle" => g \in member[p])
  <2>1. PartStep(a, p, g)
    BY <1>1, Parts, Jobs
  <2>2. p \in importing[a] =>
          job[a][p][g].pc # "failed" /\ (job[a][p][g].pc # "idle" => g \in member[p])
    BY <1>1, <1>2 DEF SetInv
  <2>3. p # All
    BY GroupAssumption
  <2>4. QED
    BY <1>7, <2>1, <2>2, <2>3
       DEF PartStep, PartKept, PartMoved, PartStarted, PartEnded
<1>8. ASSUME session'[p] # NoSession, p \notin older' PROVE Right(session'[p])
  <2>1. SessionFrom(p)
    BY <1>1, RightsOfStep
  <2>2. \A a \in Actor : SaveUser(a, p) => Right(Earned(a, p))
    BY <1>5 DEF SaveUser
  <2> HIDE DEF Right
  <2>3. QED
    BY <1>6, <1>8, <2>1, <2>2 DEF SessionFrom
<1>9. ASSUME p \notin undone => Right(user[p]), p \notin undone'
      PROVE  Right(user'[p])
  <2>1. RightsFrom(p)
    BY <1>1, RightsOfStep
  <2>2. \A a \in Actor : SaveUser(a, p) => Right(Earned(a, p))
    BY <1>5 DEF SaveUser
  <2>3. ASSUME NEW r \in Run, NEW h \in Group, DeleteGroup(r, h), undone' = undone,
               user'[p] = [user[p] EXCEPT !.groups = {m \in user[p].groups : m[1] # h}]
        PROVE  Right(user'[p])
    <3>1. h \notin member[p]
      BY <1>1, <1>2, <2>3 DEF HistoryInv, SteadyGroup, GroupKeptInv, DeleteGroup
    <3>2. user[p] \in Rights
      BY <1>1 DEF TypeOK
    <3>3. /\ user'[p].isAdmin = user[p].isAdmin
          /\ user'[p].groups = {m \in user[p].groups : m[1] # h}
      BY <2>3, <3>2 DEF Rights
    <3>4. user'[p].groups = user[p].groups
      BY <1>9, <2>3, <3>1, <3>3
    <3>5. QED
      BY <1>9, <2>3, <3>3, <3>4
  <2> HIDE DEF Right
  <2>4. QED
    BY <1>6, <1>9, <2>1, <2>2, <2>3 DEF RightsFrom
<1>10. ASSUME NEW r \in Run, p \notin undone',
              run'[r] = "done" \/ (run'[r] = "people" /\ p \notin importing'[r])
       PROVE  Right(user'[p])
  <2>1. run[r] = "done" \/ (run[r] = "people" /\ p \notin importing[r]) =>
          (p \notin undone => Right(user[p]))
    BY <1>1, <1>2 DEF SetInv, Agrees
  <2>2. CASE run[r] = "people" /\ p \in importing[r] /\ p \notin importing'[r]
    <3>1. SaveUser(r, p)
      <4>1. SaveUser(r, p) \/ SaveUserFails(r, p)
        BY <1>1, <2>2, ImportsOfStep, Actors
      <4>2. ~SaveUserFails(r, p)
        BY <1>2, <1>5, Actors DEF SaveUserFails, Fault
      <4>3. QED
        BY <4>1, <4>2
    <3>2. user'[p] = Earned(r, p)
      BY <1>1, <3>1 DEF SaveUser, TypeOK
    <3>3. QED
      BY <1>5, <3>1, <3>2, Actors DEF SaveUser
  <2>3. \/ run'[r] = run[r]
        \/ run'[r] = "people" /\ importing'[r] = Person
        \/ run[r] = "people" /\ importing[r] = {}
    BY <1>1, <1>10, RunOfStep
  <2> HIDE DEF Right
  <2>4. QED
    BY <1>9, <1>10, <2>1, <2>2, <2>3
<1>11. QED
  BY <1>3, <1>4, <1>7, <1>8, <1>10

(* A run that met no failure and no change ends with everybody in the groups*)
(* of the directory and administrator accordingly, whoever logged in or     *)
(* saved settings meanwhile, and however many rows a group has: everybody   *)
(* but those whose row was last saved from a session older than all this.   *)
THEOREM RunSetsRights == Spec => []RightsAfterRun
<1>1. Init => AfterRunInv
  BY InitKept
<1>2. AfterRunInv /\ [Next]_vars => AfterRunInv'
  BY KeptStep, SetStep DEF AfterRunInv
<1>3. AfterRunInv => RightsAfterRun
  BY DEF AfterRunInv, SetInv, Agrees, RightsAfterRun, GroupsOf
<1>4. QED
  BY <1>1, <1>2, <1>3, PTL DEF Spec
=============================================================================

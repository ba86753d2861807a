--------------------------- MODULE LdapImport_proofs ---------------------------
(***************************************************************************)
(* Proofs about LdapImport, for any accounts, managers and actors: the     *)
(* invariant ImportInv is inductive, hence access comes from the directory *)
(* and no user exists without a profile.  DirectorySync_proofs uses the    *)
(* lemmas on single steps again.                                           *)
(***************************************************************************)
EXTENDS NewUser, SequenceTheorems, TLAPS

-----------------------------------------------------------------------------
(* Sequences of frames.                                                     *)

(* Pushing a manager keeps the frames below it, the last one included.      *)
LEMMA PushFrame ==
  ASSUME NEW S, NEW s \in Seq(S), Len(s) >= 1, NEW f \in S
  PROVE  /\ <<f>> \o s \in Seq(S)
         /\ Len(<<f>> \o s) = Len(s) + 1
         /\ (<<f>> \o s)[Len(<<f>> \o s)] = s[Len(s)]
         /\ \A k \in 1..Len(<<f>> \o s) :
              (<<f>> \o s)[k] = f \/ \E j \in 1..Len(s) : (<<f>> \o s)[k] = s[j]
<1>1. <<f>> \in Seq(S) /\ Len(<<f>>) = 1 /\ <<f>>[1] = f /\ Len(s) \in Nat
  OBVIOUS
<1>2. /\ <<f>> \o s \in Seq(S)
      /\ Len(<<f>> \o s) = Len(s) + 1
      /\ \A k \in 1..(Len(s) + 1) :
           (<<f>> \o s)[k] = IF k <= 1 THEN <<f>>[k] ELSE s[k - 1]
  BY <1>1, ConcatProperties
<1>3. ASSUME NEW k \in 1..(Len(s) + 1), k > 1
      PROVE  k - 1 \in 1..Len(s) /\ (<<f>> \o s)[k] = s[k - 1]
  BY <1>1, <1>2, <1>3
<1>4. QED
  BY <1>1, <1>2, <1>3

(* Popping a manager keeps the frames below it, the last one included.      *)
LEMMA PopFrame ==
  ASSUME NEW S, NEW s \in Seq(S), Len(s) > 1
  PROVE  /\ Tail(s) \in Seq(S)
         /\ Len(Tail(s)) = Len(s) - 1
         /\ Tail(s)[Len(Tail(s))] = s[Len(s)]
         /\ \A k \in 1..Len(Tail(s)) : \E j \in 1..Len(s) : Tail(s)[k] = s[j]
<1>1. Len(s) \in Nat /\ s # <<>>
  OBVIOUS
<1>2. /\ Tail(s) \in Seq(S)
      /\ Len(Tail(s)) = Len(s) - 1
      /\ \A k \in 1..(Len(s) - 1) : Tail(s)[k] = s[k + 1]
  BY <1>1, HeadTailProperties
<1>3. QED
  BY <1>1, <1>2

-----------------------------------------------------------------------------
(* What one step of an import does to the tasks.                            *)

LEMMA SetTask ==
  ASSUME TypeOK, NEW p \in Actor, NEW a \in Account, NEW t \in Task,
         task' = [task EXCEPT ![p][a] = t]
  PROVE  /\ task'[p][a] = t
         /\ \A q \in Actor, b \in Account :
              q # p \/ b # a => task'[q][b] = task[q][b]
         /\ task' \in [Actor -> [Account -> Task]]
BY DEF TypeOK

(* A frame keeps its place on the stack or is an answer to p's search.      *)
FramesFrom(p, t, old) ==
  \A k \in 1..Len(t.stack) :
    \/ \E j \in 1..Len(old.stack) : t.stack[k] = old.stack[j]
    \/ t.stack[k].status \in Answers(p, t.stack[k].account)

(* A task of account a as StackInv wants it.                                *)
WellStacked(t, a) ==
  /\ t \in Task /\ t.pc # "idle"
  /\ Len(t.stack) >= 1 /\ t.stack[Len(t.stack)].account = a
  /\ t.pc \in {"userFind", "userSave"} => Len(t.stack) = 1

LEMMA TaskTyped ==
  ASSUME TypeOK, StackInv, NEW p \in Actor, NEW a \in Account, ~At(p, a, "idle")
  PROVE  /\ task[p][a] \in Task
         /\ task[p][a].stack \in Seq(Frame)
         /\ Len(task[p][a].stack) \in Nat
         /\ WellStacked(task[p][a], a)
         /\ Current(p, a) \in Frame
         /\ Current(p, a) = task[p][a].stack[1]
         /\ Current(p, a).account \in Account
         /\ Current(p, a).status \in Status
<1>1. task[p][a] \in Task /\ task[p][a].stack \in Seq(Frame)
  BY DEF TypeOK, Task
<1>2. Len(task[p][a].stack) \in Nat /\ Len(task[p][a].stack) >= 1
  BY <1>1 DEF StackInv
<1>3. Current(p, a) = task[p][a].stack[1] /\ Current(p, a) \in Frame
  BY <1>1, <1>2 DEF Current
<1>4. QED
  BY <1>1, <1>2, <1>3 DEF StackInv, At, WellStacked, Frame

(* Steps that only move the task on.                                        *)
LEMMA MovedTask ==
  ASSUME TypeOK, StackInv, NEW p \in Actor, NEW a \in Account, ~At(p, a, "idle"),
         NEW pc \in TaskPc \ {"idle"}, NEW found \in Nat,
         pc \in {"userFind", "userSave"} => Len(task[p][a].stack) = 1
  PROVE  LET t == [task[p][a] EXCEPT !.pc = pc, !.found = found]
         IN  WellStacked(t, a) /\ FramesFrom(p, t, task[p][a])
<1> DEFINE t == [task[p][a] EXCEPT !.pc = pc, !.found = found]
<1>1. /\ task[p][a] \in [pc : TaskPc, stack : Seq(Frame), found : Nat]
      /\ WellStacked(task[p][a], a) /\ Len(task[p][a].stack) \in Nat
  BY TaskTyped DEF Task
<1>2. t.pc = pc /\ t.found = found /\ t.stack = task[p][a].stack
  BY <1>1
<1>3. t \in Task
  BY <1>1 DEF Task
<1>4. WellStacked(t, a)
  BY <1>1, <1>2, <1>3 DEF WellStacked
<1>5. FramesFrom(p, t, task[p][a])
  BY <1>2 DEF FramesFrom
<1>6. QED
  BY <1>4, <1>5

(* NextAfterProfile: the manager is popped, or the profile half is over.    *)
LEMMA AfterProfileTask ==
  ASSUME TypeOK, StackInv, NEW p \in Actor, NEW a \in Account,
         At(p, a, "profileSave")
  PROVE  /\ WellStacked(NextAfterProfile(p, a), a)
         /\ FramesFrom(p, NextAfterProfile(p, a), task[p][a])
<1> DEFINE s == task[p][a].stack
<1>0. Len(s) \in Nat /\ Len(s) >= 1
  BY TaskTyped DEF WellStacked, At
<1>1. s \in Seq(Frame) /\ Len(s) \in Nat /\ Len(s) >= 1 /\ s[Len(s)].account = a
  BY TaskTyped DEF WellStacked, At
<1>2. CASE Len(s) > 1
  <2>1. /\ Tail(s) \in Seq(Frame) /\ Len(Tail(s)) = Len(s) - 1
        /\ Tail(s)[Len(Tail(s))] = s[Len(s)]
        /\ \A k \in 1..Len(Tail(s)) : \E j \in 1..Len(s) : Tail(s)[k] = s[j]
    BY <1>1, <1>2, PopFrame
  <2>2. NextAfterProfile(p, a) = [pc |-> "profileFind", stack |-> Tail(s), found |-> 0]
    BY <1>2 DEF NextAfterProfile
  <2>3. QED
    BY <1>1, <1>2, <2>1, <2>2 DEF WellStacked, FramesFrom, Task, TaskPc
<1>3. CASE Len(s) = 1
  <2>1. PICK pc \in {"userFind", "saved"} :
          NextAfterProfile(p, a) = [pc |-> pc, stack |-> s, found |-> 0]
    BY <1>3 DEF NextAfterProfile
  <2>2. NextAfterProfile(p, a) \in Task
    BY <1>1, <2>1 DEF Task, TaskPc
  <2>3. FramesFrom(p, NextAfterProfile(p, a), task[p][a])
    BY <2>1 DEF FramesFrom
  <2>4. QED
    BY <1>1, <1>3, <2>1, <2>2, <2>3 DEF WellStacked
<1>4. Len(s) > 1 \/ Len(s) = 1
  <2>1. \A n \in Nat : n >= 1 => n > 1 \/ n = 1
    OBVIOUS
  <2>2. QED
    BY <1>0, <2>1, Zenon
<1>5. QED
  BY <1>2, <1>3, <1>4

(* What a search is told is a state of the account, or that it has none.    *)
LEMMA AnswerTyped ==
  ASSUME TypeOK, NEW p \in Actor, NEW a \in Account, NEW s \in Answers(p, a) \ {"absent"}
  PROVE  s \in Status
BY DEF TypeOK, Answers, Status

(* Every step of an import replaces its task by a well stacked one.         *)
LEMMA ImportStepTask ==
  ASSUME TypeOK, StackInv, NEW p \in Actor, NEW a \in Account, ImportStep(p, a)
  PROVE  \E t : /\ task' = [task EXCEPT ![p][a] = t]
               /\ WellStacked(t, a) /\ FramesFrom(p, t, task[p][a])
<1> DEFINE New(t) == /\ task' = [task EXCEPT ![p][a] = t]
                     /\ WellStacked(t, a) /\ FramesFrom(p, t, task[p][a])
           old == task[p][a]
<1> SUFFICES \E t : New(t)
  OBVIOUS
<1> USE DEF TaskPc
<1>0. /\ ~At(p, a, "idle") /\ old \in [pc : TaskPc, stack : Seq(Frame), found : Nat]
      /\ WellStacked(old, a)
  <2>1. ~At(p, a, "idle")
    BY DEF ImportStep, FollowManager, LeaveManagerOut, FindProfile, SaveProfile,
           SaveProfileFails, FindUser, SaveUser, SaveUserFails, At
  <2>2. QED
    BY <2>1, TaskTyped DEF Task
<1>n. old.found \in Nat
  BY <1>0
<1>g. \A pc : [old EXCEPT !.pc = pc] = [old EXCEPT !.pc = pc, !.found = old.found]
  BY <1>0
<1>1. ASSUME NEW pc \in {"profileFind", "profileSave", "userSave", "saved", "failed"},
             NEW found \in Nat, pc = "userSave" => Len(old.stack) = 1,
             task' = [task EXCEPT ![p][a] = [old EXCEPT !.pc = pc, !.found = found]]
      PROVE  \E t : New(t)
  <2> DEFINE t == [old EXCEPT !.pc = pc, !.found = found]
  <2>1. WellStacked(t, a) /\ FramesFrom(p, t, old)
    BY <1>0, <1>1, MovedTask
  <2>2. task' = [task EXCEPT ![p][a] = t]
    BY <1>1
  <2> HIDE DEF t
  <2>3. QED
    BY <2>1, <2>2
<1>2. CASE FollowManager(p, a)
  <2> DEFINE m == Manager[Current(p, a).account]
  <2>0. PICK s \in Answers(p, m) \ {"absent"} :
          task' = [task EXCEPT ![p][a].stack = <<[account |-> m, status |-> s]>> \o @]
    BY <1>2 DEF FollowManager
  <2> DEFINE f == [account |-> m, status |-> s]
             t == [old EXCEPT !.stack = <<f>> \o @]
  <2>1. f \in Frame /\ f.status \in Answers(p, m) /\ f.account = m
    <3>1. m \in Account
      BY <1>0, <1>2, TaskTyped, ManagerAssumption DEF FollowManager, HasManager
    <3>2. QED
      BY <2>0, <3>1, AnswerTyped DEF Frame
  <2>2. /\ t.pc = "manager" /\ t.stack = <<f>> \o old.stack /\ t.found = old.found
        /\ task' = [task EXCEPT ![p][a] = t]
    BY <1>0, <1>2, <2>0 DEF FollowManager, At
  <2>3. /\ <<f>> \o old.stack \in Seq(Frame)
        /\ Len(<<f>> \o old.stack) = Len(old.stack) + 1
        /\ (<<f>> \o old.stack)[Len(<<f>> \o old.stack)] = old.stack[Len(old.stack)]
        /\ \A k \in 1..Len(<<f>> \o old.stack) :
             \/ (<<f>> \o old.stack)[k] = f
             \/ \E j \in 1..Len(old.stack) : (<<f>> \o old.stack)[k] = old.stack[j]
    BY <1>0, <2>1, PushFrame DEF WellStacked
  <2>4. t \in Task
    BY <1>0, <2>2, <2>3 DEF Task
  <2> HIDE DEF t
  <2>5. WellStacked(t, a)
    BY <1>0, <2>2, <2>3, <2>4, SMTT(30) DEF WellStacked
  <2>6. FramesFrom(p, t, old)
    BY <2>1, <2>2, <2>3, Zenon DEF FramesFrom
  <2>7. QED
    BY <2>2, <2>5, <2>6
<1>3. CASE LeaveManagerOut(p, a)
  <2>1. task' = [task EXCEPT ![p][a] = [old EXCEPT !.pc = "profileFind", !.found = old.found]]
    BY <1>g, <1>3 DEF LeaveManagerOut, Goto
  <2> HIDE DEF New, old
  <2>2. QED
    BY <1>n, <1>1, <2>1
<1>4. CASE FindProfile(p, a)
  <2>1. PICK i \in Nat : Found(p, a, i, "profileSave")
    BY <1>4, BoundAssumption DEF FindProfile, RowsRead, Row
  <2>2. task' = [task EXCEPT ![p][a] = [old EXCEPT !.pc = "profileSave", !.found = i]]
    BY <2>1 DEF Found
  <2> HIDE DEF New, old
  <2>3. QED
    BY <1>1, <2>2
<1>5. CASE SaveProfile(p, a)
  BY <1>5, AfterProfileTask DEF SaveProfile
<1>6. CASE SaveProfileFails(p, a)
  <2>1. CASE Len(old.stack) > 1
    BY <1>6, <2>1, AfterProfileTask DEF SaveProfileFails
  <2>2. CASE ~(Len(old.stack) > 1)
    <3>1. task' = [task EXCEPT ![p][a] = [old EXCEPT !.pc = "failed", !.found = old.found]]
      BY <1>g, <1>6, <2>2 DEF SaveProfileFails, Goto
    <3> HIDE DEF New, old
    <3>2. QED
      BY <1>n, <1>1, <3>1
  <2>3. QED
    BY <2>1, <2>2
<1>7. CASE FindUser(p, a)
  <2>1. PICK i \in Nat : Found(p, a, i, "userSave")
    BY <1>7 DEF FindUser
  <2>2. task' = [task EXCEPT ![p][a] = [old EXCEPT !.pc = "userSave", !.found = i]]
    BY <2>1 DEF Found
  <2>3. Len(old.stack) = 1
    BY <1>7 DEF FindUser, StackInv
  <2> HIDE DEF New, old
  <2>4. QED
    BY <1>1, <2>2, <2>3
<1>8. CASE SaveUser(p, a)
  <2>1. task' = [task EXCEPT ![p][a] = [old EXCEPT !.pc = "saved", !.found = old.found]]
    BY <1>g, <1>8 DEF SaveUser, Goto
  <2> HIDE DEF New, old
  <2>2. QED
    BY <1>n, <1>1, <2>1
<1>9. CASE SaveUserFails(p, a)
  <2>1. task' = [task EXCEPT ![p][a] = [old EXCEPT !.pc = "failed", !.found = old.found]]
    BY <1>g, <1>9 DEF SaveUserFails, Goto
  <2> HIDE DEF New, old
  <2>2. QED
    BY <1>n, <1>1, <2>1
<1>10. QED
  BY <1>2, <1>3, <1>4, <1>5, <1>6, <1>7, <1>8, <1>9 DEF ImportStep

-----------------------------------------------------------------------------
(* The steps of an import keep ImportInv, part by part.                     *)

LEMMA StoredTyped ==
  ASSUME TypeOK, StackInv, NEW p \in Actor, NEW a \in Account, ImportStep(p, a)
  PROVE  TypeOK'
<1> USE DEF TypeOK
<1>1. PICK t : task' = [task EXCEPT ![p][a] = t] /\ WellStacked(t, a)
  BY ImportStepTask
<1>2. task' \in [Actor -> [Account -> Task]]
  BY <1>1, SetTask DEF WellStacked
<1>3. UNCHANGED <<copyVars, sourceVars>>
  BY DEF ImportStep, FollowManager, LeaveManagerOut, FindProfile, SaveProfile,
         SaveProfileFails, FindUser, SaveUser, SaveUserFails
<1>4. faults' \in Nat
  BY DEF ImportStep, FollowManager, LeaveManagerOut, FindProfile, SaveProfile,
         SaveProfileFails, FindUser, SaveUser, SaveUserFails, Fault
<1>5. profile' \in [Account -> [Row -> Status \cup {"none"}]]
  <2>1. CASE SaveProfile(p, a)
    <3>1. Current(p, a).status \in Status /\ Current(p, a).account \in Account
      BY <2>1, TaskTyped DEF SaveProfile, At
    <3>2. QED
      BY <2>1, <3>1 DEF SaveProfile
  <2>2. CASE UNCHANGED profile
    BY <2>2
  <2>3. QED
    BY <2>1, <2>2 DEF ImportStep, FollowManager, LeaveManagerOut, FindProfile,
       SaveProfileFails, FindUser, SaveUser, SaveUserFails, dbVars
<1>6. user' \in [UserAccount -> Status \cup {"none"}]
  <2>1. CASE SaveUser(p, a)
    <3>1. Current(p, a).status \in Status
      BY <2>1, TaskTyped DEF SaveUser, At
    <3>2. QED
      BY <2>1, <3>1 DEF SaveUser
  <2>2. CASE UNCHANGED user
    BY <2>2
  <2>3. QED
    BY <2>1, <2>2 DEF ImportStep, FollowManager, LeaveManagerOut, FindProfile,
       SaveProfile, SaveProfileFails, FindUser, SaveUserFails, dbVars
<1>7. QED
  BY <1>2, <1>3, <1>4, <1>5, <1>6 DEF copyVars, sourceVars

LEMMA StackKept ==
  ASSUME TypeOK, StackInv, NEW p \in Actor, NEW a \in Account, ImportStep(p, a)
  PROVE  StackInv'
<1>1. PICK t : task' = [task EXCEPT ![p][a] = t] /\ WellStacked(t, a)
  BY ImportStepTask
<1>2. /\ task'[p][a] = t
      /\ \A q \in Actor, b \in Account : q # p \/ b # a => task'[q][b] = task[q][b]
  <2>1. TypeOK /\ t \in Task /\ task' = [task EXCEPT ![p][a] = t]
    BY <1>1 DEF WellStacked
  <2>2. QED
    BY ONLY <2>1, SetTask, ZenonT(30)
<1>3. QED
  BY <1>1, <1>2 DEF StackInv, At, WellStacked

LEMMA OriginKept ==
  ASSUME TypeOK, StackInv, OriginInv,
         NEW p \in Actor, NEW a \in Account, ImportStep(p, a)
  PROVE  OriginInv'
<1>1. PICK t : /\ task' = [task EXCEPT ![p][a] = t] /\ WellStacked(t, a)
               /\ FramesFrom(p, t, task[p][a])
  BY ImportStepTask
<1>2. /\ task'[p][a] = t
      /\ \A q \in Actor, b \in Account : q # p \/ b # a => task'[q][b] = task[q][b]
  <2>1. TypeOK /\ t \in Task /\ task' = [task EXCEPT ![p][a] = t]
    BY <1>1 DEF WellStacked
  <2>2. QED
    BY ONLY <2>1, SetTask, ZenonT(30)
<1>3. UNCHANGED <<copyVars, sourceVars>>
  BY DEF ImportStep, FollowManager, LeaveManagerOut, FindProfile, SaveProfile,
         SaveProfileFails, FindUser, SaveUser, SaveUserFails
<1>4. ASSUME NEW k \in 1..Len(t.stack), t.stack[k].status = "enabled"
      PROVE  t.stack[k].account \in everEnabled
  <2>1. t.stack[k].account \in Account
    <3>1. t.stack \in Seq(Frame)
      BY <1>1 DEF WellStacked, Task
    <3>2. t.stack[k] \in Frame
      BY <3>1
    <3>3. QED
      BY <3>2 DEF Frame
  <2>2. QED
    BY <1>1, <1>4, <2>1 DEF FramesFrom, OriginInv, Answers
<1>5. QED
  BY <1>2, <1>3, <1>4 DEF OriginInv, copyVars, sourceVars

(* What is stored is stored from a frame, whose account the directory has   *)
(* shown with that status.                                                  *)
LEMMA AccessKept ==
  ASSUME TypeOK, StackInv, OriginInv, AccessComesFromDirectory,
         NEW p \in Actor, NEW a \in Account, ImportStep(p, a)
  PROVE  AccessComesFromDirectory'
<1> USE DEF AccessComesFromDirectory
<1>1. everEnabled' = everEnabled
  BY DEF ImportStep, FollowManager, LeaveManagerOut, FindProfile, SaveProfile,
         SaveProfileFails, FindUser, SaveUser, SaveUserFails, sourceVars
<1>2. CASE SaveProfile(p, a)
  <2>1. ~At(p, a, "idle")
    BY <1>2 DEF SaveProfile, At
  <2>2. /\ Current(p, a).account \in Account
        /\ Current(p, a).status = "enabled" => Current(p, a).account \in everEnabled
    BY <2>1, TaskTyped DEF OriginInv, WellStacked
  <2>3. QED
    BY <1>1, <1>2, <2>2 DEF SaveProfile, TypeOK
<1>3. CASE SaveUser(p, a)
  <2>1. ~At(p, a, "idle") /\ Len(task[p][a].stack) = 1
    BY <1>3 DEF SaveUser, At, StackInv
  <2>2. Current(p, a).account = a
    BY <2>1, TaskTyped DEF WellStacked
  <2>3. Current(p, a).status = "enabled" => a \in everEnabled
    BY <2>1, <2>2, TaskTyped DEF OriginInv
  <2>4. QED
    BY <1>1, <1>3, <2>3 DEF SaveUser, TypeOK
<1>4. CASE UNCHANGED dbVars
  BY <1>1, <1>4 DEF dbVars
<1>5. QED
  BY <1>2, <1>3, <1>4 DEF ImportStep, FollowManager, LeaveManagerOut, FindProfile,
     SaveProfileFails, FindUser, SaveUserFails

LEMMA RowsStay ==
  ASSUME TypeOK, StackInv, NEW p \in Actor, NEW a \in Account, ImportStep(p, a)
  PROVE  \A x \in Account, i \in Row :
           profile[x][i] # "none" => profile'[x][i] # "none"
<1>1. CASE SaveProfile(p, a)
  <2>1. Current(p, a).status \in Status /\ Current(p, a).account \in Account
    BY <1>1, TaskTyped DEF SaveProfile, At
  <2>2. QED
    BY <1>1, <2>1 DEF SaveProfile, TypeOK, Status
<1>2. CASE UNCHANGED profile
  BY <1>2
<1>3. QED
  BY <1>1, <1>2 DEF ImportStep, FollowManager, LeaveManagerOut, FindProfile,
     SaveProfileFails, FindUser, SaveUser, SaveUserFails, dbVars

(* The import that leaves the profile half has written a row of its account.*)
LEMMA ProfileFirstKept ==
  ASSUME TypeOK, StackInv, ProfileFirstInv,
         NEW p \in Actor, NEW a \in Account, ImportStep(p, a)
  PROVE  ProfileFirstInv'
<1> DEFINE Past(t) == t.pc = "userFind" \/ t.pc = "userSave"
           HasRow(b) == \E i \in Row : profile[b][i] # "none"
<1>1. PICK t : task' = [task EXCEPT ![p][a] = t] /\ WellStacked(t, a)
  BY ImportStepTask
<1>2. /\ task'[p][a] = t
      /\ \A q \in Actor, b \in Account : q # p \/ b # a => task'[q][b] = task[q][b]
  <2>1. TypeOK /\ t \in Task /\ task' = [task EXCEPT ![p][a] = t]
    BY <1>1 DEF WellStacked
  <2>2. QED
    BY ONLY <2>1, SetTask, ZenonT(30)
<1>3. \A b \in Account : HasRow(b) => HasRow(b)'
  BY RowsStay
<1>4. ASSUME Past(t), a \in UserAccount PROVE HasRow(a)'
  <2>1. CASE SaveProfile(p, a)
    <3>1. ~At(p, a, "idle") /\ Len(task[p][a].stack) \in Nat
          /\ Current(p, a).status \in Status
      BY <2>1, TaskTyped DEF SaveProfile, At
    <3>2. t = NextAfterProfile(p, a)
      BY <1>2, <2>1 DEF SaveProfile, TypeOK
    <3>3. Len(task[p][a].stack) = 1
      <4>1. ~(Len(task[p][a].stack) > 1)
        BY <1>4, <3>2 DEF NextAfterProfile
      <4>2. Len(task[p][a].stack) >= 1
        BY <3>1 DEF StackInv
      <4>3. \A n \in Nat : n >= 1 => n > 1 \/ n = 1
        OBVIOUS
      <4>4. QED
        BY <3>1, <4>1, <4>2, <4>3, Zenon
    <3>4. Current(p, a).account = a
      BY <3>1, <3>3, TaskTyped DEF WellStacked
    <3>5. QED
      BY <2>1, <3>1, <3>4 DEF SaveProfile, TypeOK, Status
  <2>2. CASE FindUser(p, a)
    <3>1. HasRow(a)
      BY <1>4, <2>2 DEF FindUser, ProfileFirstInv
    <3>2. QED
      BY <1>3, <3>1
  <2>3. CASE ~SaveProfile(p, a) /\ ~FindUser(p, a)
    <3>1. t.pc \notin {"userFind", "userSave"}
      <4> USE DEF TypeOK, Task
      <4>1. FollowManager(p, a) => t.pc = "manager"
        BY <1>2 DEF FollowManager, At
      <4>2. LeaveManagerOut(p, a) => t.pc = "profileFind"
        BY <1>2 DEF LeaveManagerOut, Goto
      <4>2a. SaveProfileFails(p, a) /\ Len(task[p][a].stack) > 1 => t.pc = "profileFind"
        <5>1. Len(task[p][a].stack) > 1 => NextAfterProfile(p, a).pc = "profileFind"
          BY DEF NextAfterProfile
        <5>2. SaveProfileFails(p, a) /\ Len(task[p][a].stack) > 1
                => task'[p][a] = NextAfterProfile(p, a)
          BY DEF SaveProfileFails
        <5>3. QED
          BY <1>2, <5>1, <5>2
      <4>3. FindProfile(p, a) => t.pc = "profileSave"
        <5>1. FindProfile(p, a) => \E i : Found(p, a, i, "profileSave")
          BY DEF FindProfile
        <5>2. ASSUME NEW i, Found(p, a, i, "profileSave") PROVE t.pc = "profileSave"
          <6>1. task[p][a] \in [pc : TaskPc, stack : Seq(Frame), found : Nat]
            OBVIOUS
          <6>2. task'[p][a] = [task[p][a] EXCEPT !.pc = "profileSave", !.found = i]
            BY <5>2, <6>1 DEF Found
          <6>3. QED
            BY <1>2, <6>1, <6>2
        <5>3. QED
          BY <5>1, <5>2
      <4>4. (SaveProfileFails(p, a) /\ ~(Len(task[p][a].stack) > 1)) \/ SaveUserFails(p, a)
              => t.pc = "failed"
        BY <1>2 DEF SaveProfileFails, SaveUserFails, Goto
      <4>5. SaveUser(p, a) => t.pc = "saved"
        BY <1>2 DEF SaveUser, Goto
      <4>6. QED
        BY <2>3, <4>1, <4>2, <4>2a, <4>3, <4>4, <4>5 DEF ImportStep
    <3>2. QED
      BY <1>4, <3>1
  <2>4. QED
    BY <2>1, <2>2, <2>3
<1>5. QED
  BY <1>2, <1>3, <1>4 DEF ProfileFirstInv, At, Account

LEMMA UserHasProfileKept ==
  ASSUME TypeOK, StackInv, ProfileFirstInv, UserHasProfile,
         NEW p \in Actor, NEW a \in Account, ImportStep(p, a)
  PROVE  UserHasProfile'
<1> DEFINE HasRow(b) == \E i \in Row : profile[b][i] # "none"
<1>1. \A b \in Account : HasRow(b) => HasRow(b)'
  BY RowsStay
<1>2. CASE SaveUser(p, a) /\ a \in UserAccount
  <2>1. HasRow(a)
    BY <1>2 DEF SaveUser, ProfileFirstInv
  <2>2. \A b \in UserAccount : b # a => user'[b] = user[b]
    BY <1>2 DEF SaveUser, TypeOK
  <2>3. QED
    BY <1>1, <2>1, <2>2 DEF UserHasProfile, Account
<1>3. CASE UNCHANGED user
  BY <1>1, <1>3 DEF UserHasProfile, Account
<1>4. QED
  BY <1>2, <1>3 DEF ImportStep, FollowManager, LeaveManagerOut, FindProfile,
     SaveProfile, SaveProfileFails, FindUser, SaveUserFails, dbVars

LEMMA ImportStepKeeps ==
  ASSUME ImportInv, NEW p \in Actor, NEW a \in Account, ImportStep(p, a)
  PROVE  ImportInv'
BY StoredTyped, StackKept, OriginKept, AccessKept, ProfileFirstKept,
   UserHasProfileKept DEF ImportInv

-----------------------------------------------------------------------------
(* Logins, answers and the environment.                                     *)

(* A task no step has been taken of: an import started for an account with  *)
(* a status some source has shown, or none.                                 *)
FreshTask(t, a) ==
  t = IdleTask \/ \E s \in Status : (s = "enabled" => a \in everEnabled) /\ t = Started(a, s)

LEMMA FreshIsSound ==
  ASSUME NEW a \in Account, NEW t, FreshTask(t, a)
  PROVE  /\ t \in Task
         /\ t.pc # "idle" => Len(t.stack) = 1 /\ t.stack[1].account = a
         /\ t.pc \notin {"userFind", "userSave"}
         /\ \A k \in 1..Len(t.stack) :
              t.stack[k].status = "enabled" => t.stack[k].account \in everEnabled
<1> DEFINE Sound == /\ t \in Task
                    /\ t.pc # "idle" => Len(t.stack) = 1 /\ t.stack[1].account = a
                    /\ t.pc \notin {"userFind", "userSave"}
                    /\ \A k \in 1..Len(t.stack) :
                         t.stack[k].status = "enabled" => t.stack[k].account \in everEnabled
<1>1. ASSUME t = IdleTask PROVE Sound
  <2>1. t.pc = "idle" /\ t.stack = <<>> /\ t.found = 0
    BY <1>1 DEF IdleTask
  <2>2. t \in Task
    BY <1>1 DEF IdleTask, Task, TaskPc
  <2>3. 1..Len(t.stack) = {}
    BY <2>1
  <2>4. QED
    BY <2>1, <2>2, <2>3
<1>2. ASSUME NEW s \in Status, s = "enabled" => a \in everEnabled, t = Started(a, s)
      PROVE  Sound
  <2> DEFINE f == [account |-> a, status |-> s]
  <2>1. f \in Frame /\ f.account = a /\ f.status = s
    BY DEF Frame
  <2> HIDE DEF f
  <2>2. t = [pc |-> "manager", stack |-> <<f>>, found |-> 0]
    BY <1>2 DEF Started, f
  <2>3. /\ <<f>> \in Seq(Frame) /\ Len(<<f>>) = 1 /\ <<f>>[1] = f
        /\ \A k \in 1..Len(<<f>>) : <<f>>[k] = f
    BY <2>1
  <2>4. QED
    BY <1>2, <2>1, <2>2, <2>3 DEF Task, TaskPc
<1>3. Sound
  <2> HIDE DEF Sound
  <2>1. QED
    BY <1>1, <1>2 DEF FreshTask
<1>4. QED
  BY <1>3

(* Nothing but the fault counter of the import changed.                     *)
LEMMA OnlyFaults ==
  ASSUME ImportInv, UNCHANGED <<dbVars, copyVars, sourceVars, task>>, faults' \in Nat
  PROVE  ImportInv'
BY DEF ImportInv, TypeOK, StackInv, AccessComesFromDirectory, OriginInv,
       UserHasProfile, ProfileFirstInv, At, dbVars, copyVars, sourceVars

(* A step of an import is a step of one that is under way.                  *)
LEMMA StepIsActive ==
  ASSUME NEW p, NEW a, ImportStep(p, a)
  PROVE  task[p][a].pc \notin {"idle", "saved", "failed"}
BY DEF ImportStep, FollowManager, LeaveManagerOut, FindProfile, SaveProfile,
       SaveProfileFails, FindUser, SaveUser, SaveUserFails, At

(* Starting and dropping imports changes nothing that is stored.            *)
LEMMA TasksReplaced ==
  ASSUME ImportInv,
         task' \in [Actor -> [Account -> Task]],
         \A p \in Actor, a \in Account :
           task'[p][a] = task[p][a] \/ FreshTask(task'[p][a], a),
         UNCHANGED <<dbVars, copyVars, sourceVars>>, faults' \in Nat
  PROVE  ImportInv'
<1> USE DEF ImportInv
<1>1. TypeOK'
  BY DEF TypeOK, dbVars, copyVars, sourceVars
<1>2. StackInv'
  <2>1. ASSUME NEW p \in Actor, NEW a \in Account, FreshTask(task'[p][a], a)
        PROVE  /\ task'[p][a].pc # "idle" =>
                    /\ Len(task'[p][a].stack) >= 1
                    /\ task'[p][a].stack[Len(task'[p][a].stack)].account = a
               /\ task'[p][a].pc \notin {"userFind", "userSave"}
    BY <2>1, FreshIsSound
  <2>2. \A p \in Actor, a \in Account : task'[p][a] = task[p][a] =>
          /\ task'[p][a].pc # "idle" =>
                    /\ Len(task'[p][a].stack) >= 1
                    /\ task'[p][a].stack[Len(task'[p][a].stack)].account = a
          /\ task'[p][a].pc \in {"userFind", "userSave"} => Len(task'[p][a].stack) = 1
    BY DEF StackInv, At
  <2>3. QED
    BY <2>1, <2>2 DEF StackInv, At
<1>3. OriginInv'
  <2>1. everEnabled' = everEnabled /\ UNCHANGED <<directory, recent, copyVars>>
    BY DEF sourceVars
  <2>2. ASSUME NEW p \in Actor, NEW a \in Account, NEW k \in 1..Len(task'[p][a].stack),
               task'[p][a].stack[k].status = "enabled"
        PROVE  task'[p][a].stack[k].account \in everEnabled
    <3>1. CASE task'[p][a] = task[p][a]
      BY <2>2, <3>1 DEF OriginInv
    <3>2. CASE FreshTask(task'[p][a], a)
      BY <2>2, <3>2, FreshIsSound
    <3>3. QED
      BY <3>1, <3>2
  <2>3. QED
    BY <2>1, <2>2 DEF OriginInv, copyVars
<1>4. ProfileFirstInv'
  <2>1. ASSUME NEW p \in Actor, NEW a \in Account, FreshTask(task'[p][a], a)
        PROVE  ~At(p, a, "userFind")' /\ ~At(p, a, "userSave")'
    BY <2>1, FreshIsSound DEF At
  <2>2. QED
    BY <2>1 DEF ProfileFirstInv, At, dbVars, Account
<1>5. AccessComesFromDirectory' /\ UserHasProfile'
  BY DEF AccessComesFromDirectory, UserHasProfile, dbVars, sourceVars
<1>6. QED
  BY <1>1, <1>2, <1>3, <1>4, <1>5

(* The same for a single import.                                            *)
LEMMA TaskReplaced ==
  ASSUME ImportInv, NEW p \in Actor, NEW a \in Account, NEW t, FreshTask(t, a),
         task' = [task EXCEPT ![p][a] = t],
         UNCHANGED <<dbVars, copyVars, sourceVars, faults>>
  PROVE  ImportInv'
<1>1. TypeOK
  BY DEF ImportInv
<1>2. /\ task'[p][a] = t
      /\ \A q \in Actor, b \in Account : q # p \/ b # a => task'[q][b] = task[q][b]
      /\ task' \in [Actor -> [Account -> Task]]
  BY <1>1, FreshIsSound, SetTask
<1>3. faults' \in Nat
  BY <1>1 DEF TypeOK
<1>4. QED
  BY <1>2, <1>3, TasksReplaced

(* What a search is told has a source.                                      *)
LEMMA AnswerIsFresh ==
  ASSUME ImportInv, NEW p \in Actor, NEW a \in Account,
         NEW s \in Answers(p, a) \ {"absent"}
  PROVE  FreshTask(Started(a, s), a)
<1>1. s \in Status
  BY AnswerTyped DEF ImportInv
<1>2. s = "enabled" => a \in everEnabled
  BY DEF Answers, ImportInv, OriginInv
<1>3. QED
  BY <1>1, <1>2 DEF FreshTask

LEMMA LoginStepKeeps ==
  ASSUME ImportInv, NEW p \in Actor, LoginStep(p)
  PROVE  ImportInv'
<1>1. ASSUME NEW a \in Account, Login(p, a) PROVE ImportInv'
  <2>1. PICK s \in Answers(p, a) \ {"absent"} : task' = [task EXCEPT ![p][a] = Started(a, s)]
    BY <1>1 DEF Login
  <2>2. FreshTask(Started(a, s), a)
    BY AnswerIsFresh
  <2>3. QED
    BY <1>1, <2>1, <2>2, TaskReplaced DEF Login
<1>2. ASSUME NEW a \in Account, Answer(p, a) PROVE ImportInv'
  BY <1>2, TaskReplaced DEF Answer, FreshTask
<1>3. QED
  BY <1>1, <1>2 DEF LoginStep

(* What the directory says, and what the cache may go on saying.            *)
LEMMA SaysTyped ==
  ASSUME TypeOK, NEW a \in Account, NEW s \in Status \cup {"absent"}, Says(a, s)
  PROVE  /\ directory' \in [Account -> Status \cup {"absent"}]
         /\ recent' \in [Account -> SUBSET (Status \cup {"absent"})]
         /\ everEnabled' \in SUBSET Account
<1>1. directory' \in [Account -> Status \cup {"absent"}] /\ everEnabled' \in SUBSET Account
  BY DEF Says, TypeOK
<1>2. recent[a] \cup {directory[a]} \in SUBSET (Status \cup {"absent"})
  BY DEF TypeOK
<1>3. recent' \in [Account -> SUBSET (Status \cup {"absent"})]
  BY <1>2 DEF Says, TypeOK
<1>4. QED
  BY <1>1, <1>3

LEMMA SaysOrigin ==
  ASSUME TypeOK, OriginInv, NEW a \in Account, NEW s, Says(a, s)
  PROVE  \A b \in Account : b \notin everEnabled' =>
           directory'[b] # "enabled" /\ "enabled" \notin recent'[b]
<1> SUFFICES ASSUME NEW b \in Account, b \notin everEnabled'
             PROVE  directory'[b] # "enabled" /\ "enabled" \notin recent'[b]
  OBVIOUS
<1>1. b \notin everEnabled /\ (b = a => s # "enabled")
  BY DEF Says
<1>2. directory[b] # "enabled" /\ "enabled" \notin recent[b]
  BY <1>1 DEF OriginInv
<1>3. directory'[b] # "enabled"
  BY <1>1, <1>2 DEF Says, TypeOK
<1>4. recent'[b] \subseteq recent[b] \cup {directory[b]}
  BY DEF Says, TypeOK
<1>5. QED
  BY <1>2, <1>3, <1>4

LEMMA EnvironmentKeeps ==
  ASSUME ImportInv, Environment
  PROVE  ImportInv'
<1> USE DEF ImportInv
<1>1. ASSUME NEW a \in Account, NEW s \in Status \cup {"absent"}, ChangeDirectory(a, s)
      PROVE  ImportInv'
  <2> USE <1>1 DEF ChangeDirectory
  <2>0. /\ directory' = [directory EXCEPT ![a] = s]
        /\ recent' = recent \/ recent' = [recent EXCEPT ![a] = @ \cup {directory[a]}]
        /\ everEnabled' = IF s = "enabled" THEN everEnabled \cup {a} ELSE everEnabled
    BY DEF Says
  <2>1. TypeOK'
    BY <2>0, SaysTyped DEF TypeOK, dbVars, copyVars
  <2>2. everEnabled \subseteq everEnabled' /\ (s = "enabled" => a \in everEnabled')
    BY <2>0
  <2>3. StackInv' /\ ProfileFirstInv' /\ UserHasProfile'
    BY DEF StackInv, ProfileFirstInv, UserHasProfile, At, dbVars
  <2>4. AccessComesFromDirectory'
    BY <2>2 DEF AccessComesFromDirectory, dbVars
  <2>5. \A b \in Account : b \notin everEnabled' =>
          directory'[b] # "enabled" /\ "enabled" \notin recent'[b]
    BY SaysOrigin
  <2>6. OriginInv'
    BY <2>2, <2>5 DEF OriginInv, copyVars
  <2>7. QED
    BY <2>1, <2>3, <2>4, <2>6
<1>2. CASE Replicate
  <2> USE <1>2 DEF Replicate, dbVars, sourceVars
  <2>1. TypeOK'
    BY DEF TypeOK
  <2>2. StackInv' /\ ProfileFirstInv' /\ UserHasProfile' /\ AccessComesFromDirectory'
    BY DEF StackInv, ProfileFirstInv, UserHasProfile, AccessComesFromDirectory, At
  <2>3. OriginInv'
    BY DEF OriginInv, AccessComesFromDirectory
  <2>4. QED
    BY <2>1, <2>2, <2>3
<1>3. QED
  BY <1>1, <1>2 DEF Environment

LEMMA InitInv == ImportInit => ImportInv
<1> SUFFICES ASSUME ImportInit PROVE ImportInv
  OBVIOUS
<1> USE BoundAssumption DEF ImportInit
<1>1. PICK stored \in [Account -> Status \cup {"none"}] :
        /\ user = [a \in UserAccount |-> stored[a]]
        /\ profile = [a \in Account |-> IF stored[a] = "none" THEN NoRows
                                        ELSE OneRow(stored[a])]
        /\ everEnabled = {a \in Account :
                            "enabled" \in {directory[a], stored[a]} \cup recent[a]}
  OBVIOUS
<1>2. IdleTask \in Task
  BY DEF IdleTask, Task, TaskPc
<1>3. \A s \in Status : OneRow(s) \in [Row -> Status \cup {"none"}]
  BY DEF OneRow
<1>4. NoRows \in [Row -> Status \cup {"none"}]
  BY DEF NoRows
<1>5. profile \in [Account -> [Row -> Status \cup {"none"}]]
  BY <1>1, <1>3, <1>4
<1>6. user \in [UserAccount -> Status \cup {"none"}]
  BY <1>1 DEF Account
<1>6a. recent \in [Account -> SUBSET (Status \cup {"absent"})]
  OBVIOUS
<1>7. TypeOK
  BY <1>1, <1>2, <1>5, <1>6, <1>6a DEF TypeOK
<1>8. StackInv /\ ProfileFirstInv
  BY DEF StackInv, ProfileFirstInv, At, IdleTask, Account
<1>9. \A a \in Account, i \in Row : profile[a][i] = "enabled" => stored[a] = "enabled"
  BY <1>1 DEF NoRows, OneRow
<1>10. AccessComesFromDirectory
  BY <1>1, <1>9 DEF AccessComesFromDirectory
<1>11. OriginInv
  <2>1. \A p \in Actor, b \in Account : 1..Len(task[p][b].stack) = {}
    BY DEF IdleTask
  <2>2. QED
    BY <1>1, <1>9, <2>1 DEF OriginInv, Account
<1>12. UserHasProfile
  <2>1. 1 \in Row
    BY DEF Row
  <2>2. \A a \in UserAccount : user[a] # "none" => profile[a][1] # "none"
    BY <1>1, <2>1 DEF OneRow, Account
  <2>3. QED
    BY <2>1, <2>2 DEF UserHasProfile
<1>13. QED
  BY <1>7, <1>8, <1>10, <1>11, <1>12 DEF ImportInv

-----------------------------------------------------------------------------
LEMMA ImportInvariance == Spec => []ImportInv
<1>1. ImportInit => ImportInv
  BY InitInv
<1>2. ImportInv /\ [Next]_importVars => ImportInv'
  <2> SUFFICES ASSUME ImportInv, [Next]_importVars PROVE ImportInv'
    OBVIOUS
  <2>1. ASSUME NEW p \in Actor, NEW a \in Account, ImportStep(p, a) PROVE ImportInv'
    BY <2>1, ImportStepKeeps
  <2>2. ASSUME NEW p \in Actor, LoginStep(p) PROVE ImportInv'
    BY <2>2, LoginStepKeeps
  <2>3. CASE Environment
    BY <2>3, EnvironmentKeeps
  <2>4. CASE UNCHANGED importVars
    BY <2>4 DEF importVars, ImportInv, TypeOK, StackInv, AccessComesFromDirectory,
       OriginInv, UserHasProfile, ProfileFirstInv, At
  <2>5. QED
    BY <2>1, <2>2, <2>3, <2>4 DEF Next
<1>3. QED
  BY <1>1, <1>2, PTL DEF Spec

(* The variables of the import keep their types.                            *)
THEOREM ImportTypes == Spec => []TypeOK
BY ImportInvariance, PTL DEF ImportInv

(* Only the directory gives access: see AccessComesFromDirectory.           *)
THEOREM ImportAccess == Spec => []AccessComesFromDirectory
BY ImportInvariance, PTL DEF ImportInv

(* No user row without a profile row: see UserHasProfile.                   *)
THEOREM ImportProfileFirst == Spec => []UserHasProfile
BY ImportInvariance, PTL DEF ImportInv

-----------------------------------------------------------------------------
(* Who has been saved is in the tables.                                     *)

(* Where each step of an import leads.                                      *)
LEMMA NextPc ==
  ASSUME TypeOK, StackInv, NEW p \in Actor, NEW a \in Account, ImportStep(p, a)
  PROVE  /\ \A q \in Actor, b \in Account : q # p \/ b # a => task'[q][b] = task[q][b]
         /\ \/ FollowManager(p, a) /\ task'[p][a].pc = "manager"
            \/ LeaveManagerOut(p, a) /\ task'[p][a].pc = "profileFind"
            \/ FindProfile(p, a) /\ task'[p][a].pc = "profileSave"
            \/ /\ SaveProfile(p, a)
               /\ task'[p][a].pc \in {"profileFind", "userFind", "saved"}
               /\ task'[p][a].pc = "saved" => a \notin UserAccount
               /\ task'[p][a].pc # "profileFind" =>
                    Current(p, a).account = a /\ Len(task[p][a].stack) = 1
            \/ SaveProfileFails(p, a) /\ task'[p][a].pc \in {"profileFind", "failed"}
            \/ a \in UserAccount /\ FindUser(p, a) /\ task'[p][a].pc = "userSave"
            \/ a \in UserAccount /\ SaveUser(p, a) /\ task'[p][a].pc = "saved"
            \/ a \in UserAccount /\ SaveUserFails(p, a) /\ task'[p][a].pc = "failed"
<1>1. PICK t : task' = [task EXCEPT ![p][a] = t] /\ WellStacked(t, a)
  BY ImportStepTask
<1>2. /\ task'[p][a] = t
      /\ \A q \in Actor, b \in Account : q # p \/ b # a => task'[q][b] = task[q][b]
  <2>1. TypeOK /\ t \in Task /\ task' = [task EXCEPT ![p][a] = t]
    BY <1>1 DEF WellStacked
  <2>2. QED
    BY ONLY <2>1, SetTask, ZenonT(30)
<1>3. /\ task \in [Actor -> [Account -> Task]]
      /\ task[p][a] \in [pc : TaskPc, stack : Seq(Frame), found : Nat]
  BY DEF TypeOK, Task
<1>4. ASSUME NEW pc, Goto(p, a, pc) PROVE task'[p][a].pc = pc
  BY <1>3, <1>4 DEF Goto
<1>5. ASSUME NEW pc, NEW i, Found(p, a, i, pc) PROVE task'[p][a].pc = pc
  <2>1. task'[p][a] = [task[p][a] EXCEPT !.pc = pc, !.found = i]
    BY <1>3, <1>5 DEF Found
  <2>2. QED
    BY <1>3, <2>1
<1>6. CASE FollowManager(p, a)
  <2>1. PICK stack : task' = [task EXCEPT ![p][a].stack = stack]
    BY <1>6 DEF FollowManager
  <2>2. task'[p][a].pc = task[p][a].pc
    BY <1>3, <2>1
  <2>3. task[p][a].pc = "manager"
    BY <1>6 DEF FollowManager, At
  <2>4. QED
    BY <1>2, <1>6, <2>2, <2>3
<1>7. CASE LeaveManagerOut(p, a)
  BY <1>2, <1>4, <1>7 DEF LeaveManagerOut
<1>8. CASE FindProfile(p, a)
  BY <1>2, <1>5, <1>8 DEF FindProfile
<1>9. CASE SaveProfile(p, a)
  <2>1. task'[p][a] = NextAfterProfile(p, a) /\ ~At(p, a, "idle")
    BY <1>3, <1>9 DEF SaveProfile, At
  <2>2. task'[p][a].pc \in {"profileFind", "userFind", "saved"}
    BY <2>1 DEF NextAfterProfile
  <2>3. ASSUME task'[p][a].pc # "profileFind"
        PROVE  /\ task'[p][a].pc = "saved" => a \notin UserAccount
               /\ Current(p, a).account = a /\ Len(task[p][a].stack) = 1
    <3>1. ~(Len(task[p][a].stack) > 1) /\ (task'[p][a].pc = "saved" => a \notin UserAccount)
      BY <2>1, <2>3 DEF NextAfterProfile
    <3>2. Len(task[p][a].stack) \in Nat /\ Len(task[p][a].stack) >= 1
      BY <2>1, TaskTyped DEF WellStacked
    <3>3. Len(task[p][a].stack) = 1
      <4>1. \A n \in Nat : n >= 1 => n > 1 \/ n = 1
        OBVIOUS
      <4>2. QED
        BY <3>1, <3>2, <4>1, Zenon
    <3>4. QED
      BY <2>1, <3>1, <3>3, TaskTyped DEF WellStacked
  <2>4. QED
    BY <1>2, <1>9, <2>2, <2>3
<1>10. CASE SaveProfileFails(p, a)
  <2>1. CASE Len(task[p][a].stack) > 1
    BY <1>2, <1>3, <1>10, <2>1 DEF SaveProfileFails, NextAfterProfile
  <2>2. CASE ~(Len(task[p][a].stack) > 1)
    BY <1>2, <1>4, <1>10, <2>2 DEF SaveProfileFails
  <2>3. QED
    BY <2>1, <2>2
<1>11. CASE a \in UserAccount /\ FindUser(p, a)
  BY <1>2, <1>5, <1>11 DEF FindUser
<1>12. CASE a \in UserAccount /\ SaveUser(p, a)
  BY <1>2, <1>4, <1>12 DEF SaveUser
<1>13. CASE a \in UserAccount /\ SaveUserFails(p, a)
  BY <1>2, <1>4, <1>13 DEF SaveUserFails
<1>14. QED
  BY <1>6, <1>7, <1>8, <1>9, <1>10, <1>11, <1>12, <1>13 DEF ImportStep

(* The last frame of an import stays; the others come from the directory.   *)
LEMMA StackOfStep ==
  ASSUME TypeOK, StackInv, NEW p \in Actor, NEW a \in Account, ImportStep(p, a)
  PROVE  /\ FramesFrom(p, task'[p][a], task[p][a])
         /\ task'[p][a].stack[Len(task'[p][a].stack)] = task[p][a].stack[Len(task[p][a].stack)]
<1> DEFINE s == task[p][a].stack
           t == task'[p][a].stack
<1>1. FramesFrom(p, task'[p][a], task[p][a])
  <2>1. PICK x : task' = [task EXCEPT ![p][a] = x] /\ FramesFrom(p, x, task[p][a])
    BY ImportStepTask
  <2>2. task'[p][a] = x
    BY <2>1 DEF TypeOK
  <2>3. QED
    BY <2>1, <2>2
<1>2. /\ task \in [Actor -> [Account -> Task]]
      /\ task[p][a] \in [pc : TaskPc, stack : Seq(Frame), found : Nat]
      /\ s \in Seq(Frame) /\ Len(s) >= 1
  <2>1. ~At(p, a, "idle")
    BY StepIsActive DEF At
  <2>2. QED
    BY <2>1, TaskTyped DEF TypeOK, Task, WellStacked
<1>3. ASSUME NEW pc, Goto(p, a, pc) PROVE t = s
  BY <1>2, <1>3 DEF Goto
<1>4. ASSUME NEW pc, NEW i, Found(p, a, i, pc) PROVE t = s
  <2>1. task'[p][a] = [task[p][a] EXCEPT !.pc = pc, !.found = i]
    BY <1>2, <1>4 DEF Found
  <2>2. QED
    BY <1>2, <2>1
<1>5. ASSUME task' = [task EXCEPT ![p][a] = NextAfterProfile(p, a)]
      PROVE  t = s \/ (t = Tail(s) /\ Len(s) > 1)
  <2>1. task'[p][a] = NextAfterProfile(p, a)
    BY <1>2, <1>5
  <2>2. QED
    BY <2>1 DEF NextAfterProfile
<1>6. CASE FollowManager(p, a)
  <2> DEFINE m == Manager[Current(p, a).account]
  <2>0. PICK e \in Answers(p, m) \ {"absent"} :
          task' = [task EXCEPT ![p][a].stack = <<[account |-> m, status |-> e]>> \o @]
    BY <1>6 DEF FollowManager
  <2> DEFINE f == [account |-> m, status |-> e]
  <2>1. f \in Frame
    <3>1. ~At(p, a, "idle")
      BY <1>6 DEF FollowManager, At
    <3>2. m \in Account
      BY <1>6, <3>1, TaskTyped, ManagerAssumption DEF FollowManager, HasManager
    <3>3. QED
      BY <2>0, <3>2, AnswerTyped DEF Frame
  <2>2. t = <<f>> \o s
    BY <1>2, <2>0
  <2>3. t[Len(t)] = s[Len(s)]
    BY <1>2, <2>1, <2>2, PushFrame
  <2>4. QED
    BY <1>1, <2>3
<1>7. CASE t = s \/ (t = Tail(s) /\ Len(s) > 1)
  <2>1. CASE t = s
    BY <1>1, <2>1
  <2>2. CASE t = Tail(s) /\ Len(s) > 1
    BY <1>1, <1>2, <2>2, PopFrame
  <2>3. QED
    BY <1>7, <2>1, <2>2
<1>8. CASE ~FollowManager(p, a)
  <2> HIDE DEF s, t
  <2>1. QED
    BY <1>3, <1>4, <1>5, <1>7, <1>8 DEF ImportStep, LeaveManagerOut, FindProfile, SaveProfile,
       SaveProfileFails, FindUser, SaveUser, SaveUserFails
<1>9. QED
  BY <1>6, <1>8

(* What SavedInv says of one account.                                       *)
Complete(a) ==
  /\ \E i \in Row : profile[a][i] # "none"
  /\ a \in UserAccount => user[a] # "none"

LEMMA CompleteStays ==
  ASSUME TypeOK, StackInv, NEW p \in Actor, NEW a \in Account, ImportStep(p, a),
         NEW x \in Account, Complete(x)
  PROVE  Complete(x)'
<1>1. \E i \in Row : profile'[x][i] # "none"
  BY RowsStay DEF Complete
<1>2. ASSUME x \in UserAccount PROVE user'[x] # "none"
  <2>1. CASE SaveUser(p, a)
    <3>1. Current(p, a).status \in Status /\ Current(p, a).status # "none"
      BY <2>1, TaskTyped DEF SaveUser, At, Status
    <3>2. QED
      BY <1>2, <2>1, <3>1 DEF SaveUser, Complete, TypeOK
  <2>2. CASE UNCHANGED user
    BY <1>2, <2>2 DEF Complete
  <2>3. QED
    BY <2>1, <2>2 DEF ImportStep, FollowManager, LeaveManagerOut, FindProfile,
       SaveProfile, SaveProfileFails, FindUser, SaveUserFails, dbVars
<1>3. QED
  BY <1>1, <1>2 DEF Complete

LEMMA SavedKept ==
  ASSUME ImportInv, SavedInv, NEW p \in Actor, NEW a \in Account, ImportStep(p, a)
  PROVE  SavedInv'
<1>1. TypeOK /\ StackInv /\ ProfileFirstInv
  BY DEF ImportInv
<1>2. ASSUME NEW q \in Actor, NEW b \in Account, At(q, b, "saved")' PROVE Complete(b)'
  <2>1. CASE q # p \/ b # a
    <3>1. At(q, b, "saved")
      BY <1>1, <1>2, <2>1, NextPc DEF At
    <3>2. QED
      BY <1>1, <3>1, CompleteStays DEF SavedInv, Complete
  <2>2. CASE q = p /\ b = a
    <3>1. \/ SaveProfile(p, a) /\ a \notin UserAccount /\ Current(p, a).account = a
          \/ SaveUser(p, a) /\ a \in UserAccount
      BY <1>1, <1>2, <2>2, NextPc DEF At
    <3>2. ~At(p, a, "idle")
      BY <3>1 DEF SaveProfile, SaveUser, At
    <3>3. Current(p, a).status \in Status /\ Current(p, a).status # "none"
      BY <1>1, <3>2, TaskTyped DEF Status
    <3>4. CASE SaveProfile(p, a) /\ a \notin UserAccount /\ Current(p, a).account = a
      BY <1>1, <2>2, <3>3, <3>4 DEF SaveProfile, Complete, TypeOK
    <3>5. CASE SaveUser(p, a) /\ a \in UserAccount
      <4>1. \E i \in Row : profile'[a][i] # "none"
        BY <1>1, <3>5 DEF SaveUser, ProfileFirstInv
      <4>2. user'[a] # "none"
        BY <1>1, <3>3, <3>5 DEF SaveUser, TypeOK
      <4>3. QED
        BY <2>2, <4>1, <4>2 DEF Complete
    <3>6. QED
      BY <3>1, <3>4, <3>5
  <2>3. QED
    BY <2>1, <2>2
<1>3. QED
  BY <1>2 DEF SavedInv, Complete

-----------------------------------------------------------------------------
(* Adding people: the steps of the requests.                                *)

LEMMA RequestSet ==
  ASSUME RequestTypeOK, NEW p \in Actor, NEW x \in {NoRequest} \cup [pc : Serving \cup Answered, account : Account],
         request' = [request EXCEPT ![p] = x]
  PROVE  /\ RequestTypeOK'
         /\ request'[p] = x
         /\ \A q \in Actor : q # p => request'[q] = request[q]
BY DEF RequestTypeOK

(* An object appears in the directory, and perhaps starts an import.        *)
LEMMA ExistsKeeps ==
  ASSUME ImportInv, NEW a \in Account, NEW s \in Status, Exists(a, s),
         task' \in [Actor -> [Account -> Task]],
         \A q \in Actor, b \in Account :
           task'[q][b] = task[q][b] \/ (b = a /\ task'[q][b] = Started(a, s)),
         UNCHANGED <<dbVars, copyVars, changes>>, faults' \in Nat
  PROVE  ImportInv'
<1> USE DEF ImportInv
<1>1. /\ Says(a, s)
      /\ everEnabled \subseteq everEnabled' /\ (s = "enabled" => a \in everEnabled')
      /\ everEnabled' \subseteq everEnabled \cup {a}
  BY DEF Exists, Says
<1>2. TypeOK'
  BY <1>1, SaysTyped DEF TypeOK, dbVars, copyVars
<1>3. AccessComesFromDirectory' /\ UserHasProfile'
  BY <1>1 DEF AccessComesFromDirectory, UserHasProfile, dbVars
<1> DEFINE f == [account |-> a, status |-> s]
<1>4. /\ Started(a, s).pc = "manager" /\ Started(a, s).stack = <<f>>
      /\ f.account = a /\ f.status = s
  BY DEF Started
<1> HIDE DEF f
<1>5. Len(<<f>>) = 1 /\ <<f>>[1] = f
  OBVIOUS
<1>6. StackInv'
  <2>1. ASSUME NEW q \in Actor, NEW b \in Account
        PROVE  LET stack == task'[q][b].stack IN
               /\ task'[q][b].pc # "idle" => Len(stack) >= 1 /\ stack[Len(stack)].account = b
               /\ task'[q][b].pc \in {"userFind", "userSave"} => Len(stack) = 1
    <3>1. CASE task'[q][b] = task[q][b]
      BY <3>1 DEF StackInv, At
    <3>2. CASE b = a /\ task'[q][b] = Started(a, s)
      <4>1. task'[q][b].pc = "manager" /\ task'[q][b].stack = <<f>>
        BY <1>4, <3>2
      <4>2. Len(<<f>>) >= 1 /\ <<f>>[Len(<<f>>)].account = b
        BY <1>4, <1>5, <3>2
      <4>3. QED
        BY <4>1, <4>2, Zenon
    <3>3. QED
      BY <3>1, <3>2
  <2>2. QED
    BY <2>1 DEF StackInv, At
<1>7. ProfileFirstInv'
  BY <1>4 DEF ProfileFirstInv, At, dbVars, Account
<1>8. OriginInv'
  <2>1. \A b \in Account : b \notin everEnabled' =>
          directory'[b] # "enabled" /\ "enabled" \notin recent'[b]
    BY <1>1, SaysOrigin
  <2>2. ASSUME NEW q \in Actor, NEW b \in Account, NEW k \in 1..Len(task'[q][b].stack),
               task'[q][b].stack[k].status = "enabled"
        PROVE  task'[q][b].stack[k].account \in everEnabled'
    <3>1. CASE task'[q][b] = task[q][b]
      BY <1>1, <2>2, <3>1 DEF OriginInv
    <3>2. CASE b = a /\ task'[q][b] = Started(a, s)
      <4>1. task'[q][b].stack = <<f>> /\ k = 1
        BY <1>4, <1>5, <2>2, <3>2
      <4>2. QED
        BY <1>1, <1>4, <1>5, <2>2, <4>1
    <3>3. QED
      BY <3>1, <3>2
  <2>3. QED
    BY <1>1, <2>1, <2>2 DEF OriginInv, copyVars
<1>9. QED
  BY <1>2, <1>3, <1>6, <1>7, <1>8

(* Steps of a request that leave the tables and the imports alone.          *)
LEMMA RequestOnly ==
  ASSUME NewInv, NEW p \in Actor, \A a \in Account : At(p, a, "idle"),
         NEW x \in {NoRequest} \cup
                   [pc : {"photo", "add", "busy", "free", "error"}, account : Account],
         request' = [request EXCEPT ![p] = x],
         UNCHANGED <<dbVars, copyVars, sourceVars, task>>, faults' \in Nat
  PROVE  NewInv'
<1> USE DEF NewInv
<1>1. x \in {NoRequest} \cup [pc : Serving \cup Answered, account : Account]
      /\ x.pc \notin {"import", "created"}
  BY DEF NoRequest, Serving, Answered
<1>2. /\ RequestTypeOK' /\ request'[p] = x
      /\ \A q \in Actor : q # p => request'[q] = request[q]
  BY <1>1, RequestSet
<1>3. ImportInv'
  BY OnlyFaults
<1>4. SavedInv'
  BY DEF SavedInv, At, dbVars
<1>5. \A a \in Account : ~In(p, a, "import")' /\ ~In(p, a, "created")'
  BY <1>1, <1>2 DEF In
<1>6. RequestInv'
  <2>1. ASSUME NEW q \in Actor
        PROVE  /\ \A a, b \in Account : ~At(q, a, "idle")' /\ ~At(q, b, "idle")' => a = b
               /\ \A a, b \in Account : In(q, a, "import")' /\ ~At(q, b, "idle")' => b = a
               /\ request'[q].pc \notin {"none", "import"} =>
                    \A a \in Account : At(q, a, "idle")'
    <3>1. CASE q = p
      BY <1>5, <3>1 DEF At
    <3>2. CASE q # p
      BY <1>2, <3>2 DEF RequestInv, At, In
    <3>3. QED
      BY <3>1, <3>2
  <2>2. QED
    BY <2>1 DEF RequestInv
<1>7. CreatedIsComplete'
  <2>1. ASSUME NEW q \in Actor, NEW a \in Account, In(q, a, "created")'
        PROVE  In(q, a, "created")
    BY <1>2, <1>5, <2>1 DEF In
  <2>2. QED
    BY <2>1 DEF CreatedIsComplete, dbVars
<1>8. QED
  BY <1>2, <1>3, <1>4, <1>6, <1>7

(* Steps of the imports around the requests.                                *)
LEMMA OtherStepKeeps ==
  ASSUME NewInv, OtherStep
  PROVE  NewInv'
<1> USE DEF NewInv
<1>1. request' = request /\ TypeOK /\ StackInv
  BY DEF OtherStep, ImportInv
<1>2. RequestTypeOK'
  BY <1>1 DEF RequestTypeOK
<1>3. ASSUME NEW p \in Actor, NEW a \in Account, ImportStep(p, a) PROVE NewInv'
  <2>1. ImportInv' /\ SavedInv'
    BY <1>3, ImportStepKeeps, SavedKept
  <2>2. \A q \in Actor, b \in Account : At(q, b, "idle")' <=> At(q, b, "idle")
    BY <1>1, <1>3, NextPc, StepIsActive DEF At
  <2>3. RequestInv'
    BY <1>1, <2>2 DEF RequestInv, In
  <2>4. \A x \in Account : Complete(x) => Complete(x)'
    BY <1>1, <1>3, CompleteStays
  <2>5. CreatedIsComplete'
    BY <1>1, <2>4 DEF CreatedIsComplete, Complete, In
  <2>6. QED
    BY <1>2, <2>1, <2>3, <2>5
<1>4. ASSUME NEW p \in Actor, LoginStep(p), request[p] = NoRequest PROVE NewInv'
  <2>1. ImportInv' /\ UNCHANGED dbVars
    BY <1>4, LoginStepKeeps DEF LoginStep, Login, Answer
  <2>2. PICK a \in Account, t \in Task :
          /\ task' = [task EXCEPT ![p][a] = t] /\ t.pc \in {"idle", "manager"}
          /\ t.pc = "manager" => \A b \in Account : At(p, b, "idle")
    <3>1. ASSUME NEW a \in Account, NEW s \in Answers(p, a) \ {"absent"}
          PROVE  Started(a, s) \in Task /\ Started(a, s).pc = "manager"
      <4>1. FreshTask(Started(a, s), a)
        BY AnswerIsFresh
      <4>2. QED
        BY <4>1, FreshIsSound DEF Started
    <3>2. ASSUME NEW a \in Account PROVE IdleTask \in Task /\ IdleTask.pc = "idle"
      BY FreshIsSound DEF FreshTask, IdleTask
    <3>3. QED
      BY <1>4, <3>1, <3>2 DEF LoginStep, Login, Answer
  <2>3. /\ task'[p][a] = t
        /\ \A q \in Actor, b \in Account : q # p \/ b # a => task'[q][b] = task[q][b]
    BY <1>1, <2>2, SetTask, ZenonT(30)
  <2>4. SavedInv'
    BY <2>1, <2>2, <2>3 DEF SavedInv, At, dbVars
  <2>5. request[p].pc = "none" /\ \A b \in Account : ~In(p, b, "import")
    BY <1>4 DEF NoRequest, In
  <2>6. RequestInv'
    BY <1>1, <2>2, <2>3, <2>5 DEF RequestInv, At, In
  <2>7. CreatedIsComplete'
    BY <1>1, <2>1 DEF CreatedIsComplete, In, dbVars
  <2>8. QED
    BY <1>2, <2>1, <2>4, <2>6, <2>7
<1>5. CASE Environment
  <2>1. ImportInv' /\ UNCHANGED <<dbVars, task>>
    BY <1>5, EnvironmentKeeps DEF Environment, ChangeDirectory, Replicate
  <2>2. QED
    BY <1>1, <1>2, <2>1 DEF SavedInv, RequestInv, CreatedIsComplete, At, In, dbVars
<1>6. QED
  BY <1>3, <1>4, <1>5 DEF OtherStep

LEMMA AddKeeps ==
  ASSUME NewInv, NEW p \in Actor, NEW a \in Account, NEW s \in Status,
         Add(p, a, s) \/ AddedUnseen(p, a, s)
  PROVE  NewInv'
<1> USE DEF NewInv
<1>1. /\ TypeOK /\ StackInv /\ UNCHANGED dbVars
      /\ In(p, a, "add") /\ \A b \in Account : At(p, b, "idle")
  BY DEF ImportInv, RequestInv, In, Add, AddedUnseen
<1>2. Started(a, s) \in Task /\ Started(a, s).pc = "manager"
  <2>1. [account |-> a, status |-> s] \in Frame
    BY DEF Frame
  <2>2. QED
    BY <2>1 DEF Started, Task, TaskPc
<1>3. PICK pc \in {"import", "error"} :
        /\ request' = [request EXCEPT ![p] = [pc |-> pc, account |-> a]]
        /\ \/ task' = [task EXCEPT ![p][a] = Started(a, s)] /\ pc = "import"
           \/ task' = task /\ pc = "error"
  BY DEF Add, AddedUnseen, Becomes
<1>4. /\ RequestTypeOK' /\ request'[p] = [pc |-> pc, account |-> a]
      /\ \A q \in Actor : q # p => request'[q] = request[q]
  <2>1. [pc |-> pc, account |-> a] \in [pc : Serving \cup Answered, account : Account]
    BY DEF Serving, Answered
  <2>2. QED
    BY <1>3, <2>1, RequestSet
<1>5. /\ task' \in [Actor -> [Account -> Task]]
      /\ task'[p][a] = Started(a, s) \/ task' = task
      /\ \A q \in Actor, b \in Account : q # p \/ b # a => task'[q][b] = task[q][b]
      /\ pc = "error" => task' = task
  <2>1. CASE task' = [task EXCEPT ![p][a] = Started(a, s)]
    <3>1. /\ task'[p][a] = Started(a, s)
          /\ \A q \in Actor, b \in Account : q # p \/ b # a => task'[q][b] = task[q][b]
          /\ task' \in [Actor -> [Account -> Task]]
      <4>1. TypeOK /\ Started(a, s) \in Task
        BY <1>1, <1>2
      <4>2. QED
        BY ONLY <2>1, <4>1, SetTask
    <3>2. pc = "error" => task' = task
      BY <1>3
    <3>3. QED
      BY <3>1, <3>2, Zenon
  <2>2. CASE task' = task
    BY <1>1, <2>2 DEF TypeOK
  <2>3. QED
    BY <1>3, <2>1, <2>2
<1>6. ImportInv'
  <2>1. /\ Exists(a, s) /\ UNCHANGED <<dbVars, copyVars, changes>> /\ faults' \in Nat
    BY <1>1 DEF Add, AddedUnseen, Fault, TypeOK
  <2>2. \A q \in Actor, b \in Account :
          task'[q][b] = task[q][b] \/ (b = a /\ task'[q][b] = Started(a, s))
    BY <1>5
  <2>3. QED
    BY <1>5, <2>1, <2>2, ExistsKeeps
<1>7. SavedInv'
  BY <1>1, <1>2, <1>5 DEF SavedInv, At, dbVars
<1>8. RequestInv'
  <2>1. ASSUME NEW q \in Actor
        PROVE  /\ \A c, b \in Account : ~At(q, c, "idle")' /\ ~At(q, b, "idle")' => c = b
               /\ \A c, b \in Account : In(q, c, "import")' /\ ~At(q, b, "idle")' => b = c
               /\ request'[q].pc \notin {"none", "import"} =>
                    \A b \in Account : At(q, b, "idle")'
    <3>1. CASE q = p
      <4>1. \A b \in Account : ~At(q, b, "idle")' => b = a
        BY <1>1, <1>5, <3>1 DEF At
      <4>2. \A c \in Account : In(q, c, "import")' => c = a
        BY <1>4, <3>1 DEF In
      <4>3. request'[q].pc \notin {"none", "import"} => \A b \in Account : At(q, b, "idle")'
        BY <1>1, <1>4, <1>5, <3>1 DEF At
      <4>4. QED
        BY <4>1, <4>2, <4>3
    <3>2. CASE q # p
      <4>1. request'[q] = request[q] /\ \A b \in Account : task'[q][b] = task[q][b]
        BY <1>4, <1>5, <3>2
      <4>2. /\ \A b \in Account : At(q, b, "idle")' <=> At(q, b, "idle")
            /\ \A b \in Account : In(q, b, "import")' <=> In(q, b, "import")
        BY <4>1 DEF At, In
      <4>3. QED
        BY <4>1, <4>2 DEF RequestInv
    <3>3. QED
      BY <3>1, <3>2
  <2>2. QED
    BY <2>1 DEF RequestInv
<1>9. CreatedIsComplete'
  <2>1. ASSUME NEW q \in Actor, NEW b \in Account, In(q, b, "created")'
        PROVE  In(q, b, "created")
    BY <1>4, <2>1 DEF In
  <2>2. QED
    BY <1>1, <2>1 DEF CreatedIsComplete, dbVars
<1>10. QED
  BY <1>4, <1>6, <1>7, <1>8, <1>9

LEMMA ReplyKeeps ==
  ASSUME NewInv, NEW p \in Actor, NEW a \in Account, ReplyNew(p, a)
  PROVE  NewInv'
<1> USE DEF NewInv
<1>1. /\ TypeOK /\ In(p, a, "import") /\ UNCHANGED <<dbVars, copyVars, sourceVars, faults>>
      /\ task' = [task EXCEPT ![p][a] = IdleTask]
  BY DEF ImportInv, ReplyNew
<1>2. PICK pc \in {"created", "error"} :
        /\ request' = [request EXCEPT ![p] = [pc |-> pc, account |-> a]]
        /\ pc = "created" => At(p, a, "saved")
  BY DEF ReplyNew, Becomes
<1>3. FreshTask(IdleTask, a) /\ IdleTask \in Task /\ IdleTask.pc = "idle"
  BY FreshIsSound DEF FreshTask, IdleTask
<1>4. ImportInv'
  BY <1>1, <1>3, TaskReplaced
<1>5. /\ task'[p][a].pc = "idle"
      /\ \A q \in Actor, b \in Account : q # p \/ b # a => task'[q][b] = task[q][b]
  <2>1. PICK t \in Task : t = IdleTask
    BY <1>3
  <2>2. TypeOK /\ t \in Task /\ task' = [task EXCEPT ![p][a] = t]
    BY <1>1, <2>1
  <2>3. /\ task'[p][a] = t
        /\ \A q \in Actor, b \in Account : q # p \/ b # a => task'[q][b] = task[q][b]
    BY ONLY <2>2, SetTask
  <2>4. QED
    BY <1>3, <2>1, <2>3
<1>6. /\ RequestTypeOK' /\ request'[p] = [pc |-> pc, account |-> a]
      /\ \A q \in Actor : q # p => request'[q] = request[q]
  <2>1. [pc |-> pc, account |-> a] \in [pc : Serving \cup Answered, account : Account]
    BY DEF Serving, Answered
  <2>2. QED
    BY <1>2, <2>1, RequestSet
<1>7. SavedInv'
  BY <1>1, <1>5 DEF SavedInv, At, dbVars
<1>8. RequestInv'
  <2>1. \A b \in Account : At(p, b, "idle")'
    BY <1>1, <1>5 DEF RequestInv, At
  <2>2. \A q \in Actor, b \in Account : q # p =>
          /\ At(q, b, "idle")' <=> At(q, b, "idle")
          /\ In(q, b, "import")' <=> In(q, b, "import")
    BY <1>5, <1>6 DEF At, In
  <2>3. QED
    BY <1>6, <2>1, <2>2 DEF RequestInv
<1>9. CreatedIsComplete'
  <2>1. ASSUME NEW q \in Actor, NEW b \in Account, In(q, b, "created")'
        PROVE  In(q, b, "created") \/ (b = a /\ At(p, a, "saved"))
    BY <1>2, <1>6, <2>1 DEF In
  <2>2. QED
    BY <1>1, <2>1 DEF CreatedIsComplete, SavedInv, dbVars
<1>10. QED
  BY <1>4, <1>6, <1>7, <1>8, <1>9

LEMMA NewInvariance == NewSpec => []NewInv
<1>1. NewInit => NewInv
  <2> SUFFICES ASSUME NewInit PROVE NewInv
    OBVIOUS
  <2>1. ImportInv
    BY InitInv DEF NewInit
  <2>2. \A p \in Actor, a \in Account : At(p, a, "idle")
    BY DEF NewInit, ImportInit, At, IdleTask
  <2>3. \A p \in Actor : request[p].pc = "none" /\ \A a \in Account : request[p] = NoRequest
    BY DEF NewInit, NoRequest
  <2>4. SavedInv /\ RequestInv /\ CreatedIsComplete
    BY <2>2, <2>3 DEF SavedInv, RequestInv, CreatedIsComplete, At, In
  <2>5. RequestTypeOK
    BY DEF NewInit, RequestTypeOK
  <2>6. QED
    BY <2>1, <2>4, <2>5 DEF NewInv
<1>2. NewInv /\ [NewNext]_newVars => NewInv'
  <2> SUFFICES ASSUME NewInv, [NewStep]_userVars PROVE NewInv'
    BY DEF NewNext, newVars
  <2>1. \A p \in Actor : request[p].pc \notin {"none", "import"} =>
          \A a \in Account : At(p, a, "idle")
    BY DEF NewInv, RequestInv
  <2>2. faults \in Nat
    BY DEF NewInv, ImportInv, TypeOK
  <2>3. ASSUME NEW p \in Actor, NEW a \in Account, AskStep(p, a) PROVE NewInv'
    <3>1. PICK pc \in {"photo", "add", "busy", "free", "error"} :
            request' = [request EXCEPT ![p] = [pc |-> pc, account |-> a]]
      BY <2>3 DEF AskStep, CheckUsername, AskNew, Becomes
    <3>2. /\ UNCHANGED <<dbVars, copyVars, sourceVars, task>> /\ faults' \in Nat
          /\ \A b \in Account : At(p, b, "idle")
      BY <2>2, <2>3 DEF AskStep, CheckUsername, AskNew, Free, Fault,
         importVars, dbVars, copyVars, sourceVars
    <3>3. QED
      BY <3>1, <3>2, RequestOnly
  <2>4. ASSUME NEW p \in Actor, NEW a \in Account,
               PhotoRead(p, a) \/ PhotoFails(p, a) \/ AddFails(p, a)
        PROVE  NewInv'
    <3>1. PICK pc \in {"add", "error"} :
            request' = [request EXCEPT ![p] = [pc |-> pc, account |-> a]]
      BY <2>4 DEF PhotoRead, PhotoFails, AddFails, Becomes
    <3>2. /\ UNCHANGED <<dbVars, copyVars, sourceVars, task>> /\ faults' \in Nat
      BY <2>2, <2>4 DEF PhotoRead, PhotoFails, AddFails, Fault,
         importVars, dbVars, copyVars, sourceVars
    <3>3. request[p].pc \in {"photo", "add"}
      BY <2>4 DEF PhotoRead, PhotoFails, AddFails, In
    <3>4. QED
      BY <2>1, <3>1, <3>2, <3>3, RequestOnly
  <2>5. ASSUME NEW p \in Actor, ShowReply(p) PROVE NewInv'
    BY <2>1, <2>2, <2>5, RequestOnly
       DEF ShowReply, Answered, importVars, dbVars, copyVars, sourceVars
  <2>6. CASE OtherStep
    BY <2>6, OtherStepKeeps
  <2>7. CASE UNCHANGED userVars
    <3>1. UNCHANGED <<dbVars, copyVars, sourceVars, task, faults, request>>
      BY <2>7 DEF userVars, importVars, dbVars, copyVars, sourceVars
    <3>2. ImportInv'
      BY <2>2, <3>1, OnlyFaults DEF NewInv
    <3>3. QED
      BY <3>1, <3>2 DEF NewInv, SavedInv, RequestTypeOK, RequestInv, CreatedIsComplete,
         At, In, dbVars
  <2>8. QED
    BY <2>3, <2>4, <2>5, <2>6, <2>7, AddKeeps, ReplyKeeps DEF NewStep, NewUserStep
<1>3. QED
  BY <1>1, <1>2, PTL DEF NewSpec

(* "created" is only told of a person or contact that is complete in the    *)
(* tables: see CreatedIsComplete.                                           *)
THEOREM NewIsComplete == NewSpec => []CreatedIsComplete
BY NewInvariance, PTL DEF NewInv

(* Adding people gives access to nobody the directory has not enabled, and  *)
(* leaves no user without a profile.                                        *)
THEOREM NewUserAccess == NewSpec => [](AccessComesFromDirectory /\ UserHasProfile)
BY NewInvariance, PTL DEF NewInv, ImportInv

-----------------------------------------------------------------------------
(* One profile for an object.                                               *)

OneInv == RowFoundInv /\ InsertInv /\ OneProfile

(* Accounts that come through a step without doubt.                         *)
Clear(x) == x \notin doubted /\ ~Overlap(x)' /\ ~Missed(x)

LEMMA Clears ==
  ASSUME NewNext, NEW x \in Account \ doubted'
  PROVE  Clear(x)
BY DEF NewNext, Clear

(* Steps that save no profile and look none up.                             *)
LEMMA QuietKeeps ==
  ASSUME OneInv, \A x \in Account \ doubted' : Clear(x),
         profile' = profile, profileCopy' = profileCopy \/ profileCopy' = profile,
         \A q \in Actor, b \in Account :
           task'[q][b] = task[q][b] \/ task'[q][b].pc # "profileSave"
  PROVE  OneInv'
<1> USE DEF OneInv
<1>1. ASSUME NEW q \in Actor, NEW b \in Account, At(q, b, "profileSave")'
      PROVE  /\ At(q, b, "profileSave") /\ Current(q, b)' = Current(q, b)
             /\ task'[q][b].found = task[q][b].found
  BY <1>1 DEF At, Current
<1>2. RowFoundInv'
  <2>1. ASSUME NEW x \in Account, NEW i \in Row, profileCopy'[x][i] # "none"
        PROVE  profile'[x][i] # "none"
    BY <2>1 DEF RowFoundInv
  <2>2. ASSUME NEW q \in Actor, NEW b \in Account, At(q, b, "profileSave")',
               task'[q][b].found # 0
        PROVE  profile'[Current(q, b)'.account][task'[q][b].found] # "none"
    BY <1>1, <2>2 DEF RowFoundInv
  <2>3. QED
    BY <2>1, <2>2 DEF RowFoundInv
<1>3. InsertInv'
  <2>1. ASSUME NEW x \in Account \ doubted', NEW q \in Actor, NEW b \in Account,
               Inserting(q, b, x)'
        PROVE  \A i \in Row : profile'[x][i] = "none"
    <3>1. x \notin doubted /\ Inserting(q, b, x)
      BY <1>1, <2>1 DEF Clear, Inserting
    <3>2. QED
      BY <3>1 DEF InsertInv
  <2>2. QED
    BY <2>1 DEF InsertInv, Clear
<1>4. OneProfile'
  BY DEF OneProfile, Clear
<1>5. QED
  BY <1>2, <1>3, <1>4

(* byLoginGUID: the row it finds is stored; when it finds none there is     *)
(* none, or the account is in doubt.                                        *)
LEMMA FindKeeps ==
  ASSUME TypeOK, StackInv, OneInv, \A x \in Account \ doubted' : Clear(x),
         NEW p \in Actor, NEW a \in Account, FindProfile(p, a),
         \A q \in Actor, b \in Account : q # p \/ b # a => task'[q][b] = task[q][b]
  PROVE  OneInv'
<1> USE DEF OneInv
<1> DEFINE x0 == Current(p, a).account
<1>1. profile' = profile /\ profileCopy' = profileCopy /\ At(p, a, "profileFind")
  BY DEF FindProfile, dbVars, copyVars
<1>2. x0 \in Account
  BY <1>1, TaskTyped DEF At
<1>3. PICK i : Found(p, a, i, "profileSave") /\ (i = 0 \/ i \in RowsRead(x0))
  BY DEF FindProfile
<1>4. /\ task'[p][a].found = i /\ task'[p][a].pc = "profileSave"
      /\ Current(p, a)' = Current(p, a)
  <2>1. task[p][a] \in [pc : TaskPc, stack : Seq(Frame), found : Nat]
    BY DEF TypeOK, Task
  <2>2. task'[p][a] = [task[p][a] EXCEPT !.pc = "profileSave", !.found = i]
    BY <1>3, <2>1 DEF Found, TypeOK
  <2>3. /\ task'[p][a].found = i /\ task'[p][a].pc = "profileSave"
        /\ task'[p][a].stack = task[p][a].stack
    BY <2>1, <2>2
  <2>4. QED
    BY <2>3 DEF Current
<1>5. i # 0 => profile[x0][i] # "none"
  BY <1>2, <1>3 DEF RowsRead, RowFoundInv
<1>6. RowFoundInv'
  <2>1. ASSUME NEW q \in Actor, NEW b \in Account, At(q, b, "profileSave")',
               task'[q][b].found # 0
        PROVE  profile'[Current(q, b)'.account][task'[q][b].found] # "none"
    <3>1. CASE q = p /\ b = a
      BY <1>1, <1>4, <1>5, <2>1, <3>1
    <3>2. CASE q # p \/ b # a
      BY <1>1, <2>1, <3>2 DEF RowFoundInv, At, Current
    <3>3. QED
      BY <3>1, <3>2
  <2>2. QED
    BY <1>1, <2>1 DEF RowFoundInv
<1>7. InsertInv'
  <2>1. ASSUME NEW x \in Account \ doubted', NEW q \in Actor, NEW b \in Account,
               Inserting(q, b, x)'
        PROVE  \A j \in Row : profile'[x][j] = "none"
    <3>1. Clear(x)
      OBVIOUS
    <3>2. CASE q = p /\ b = a
      <4>1. x = x0 /\ Inserting(p, a, x)'
        BY <1>4, <2>1, <3>2 DEF Inserting
      <4>2. ~Missed(x)
        BY <3>1 DEF Clear
      <4>3. QED
        BY <1>1, <4>1, <4>2 DEF Missed
    <3>3. CASE q # p \/ b # a
      <4>1. Inserting(q, b, x)
        BY <2>1, <3>3 DEF Inserting, At, Current
      <4>2. QED
        BY <1>1, <3>1, <4>1 DEF InsertInv, Clear
    <3>4. QED
      BY <3>2, <3>3
  <2>2. QED
    BY <2>1 DEF InsertInv, Clear
<1>8. OneProfile'
  BY <1>1 DEF OneProfile, Clear
<1>9. QED
  BY <1>6, <1>7, <1>8

(* A save that updates touches a row that is there; a save that inserts is  *)
(* the only one, and there was none.                                        *)
LEMMA SaveKeeps ==
  ASSUME TypeOK, StackInv, OneInv, \A x \in Account \ doubted' : Clear(x),
         NEW p \in Actor, NEW a \in Account, SaveProfile(p, a),
         \A x \in Account, i \in Row : profile[x][i] # "none" => profile'[x][i] # "none",
         task'[p][a].pc # "profileSave",
         \A q \in Actor, b \in Account : q # p \/ b # a => task'[q][b] = task[q][b]
  PROVE  OneInv'
<1> USE DEF OneInv
<1> DEFINE x0 == Current(p, a).account
<1>1. profileCopy' = profileCopy /\ At(p, a, "profileSave") /\ x0 \in Account
  BY TaskTyped DEF SaveProfile, copyVars, At
<1>2. PICK k \in Row :
        /\ task[p][a].found # 0 => k = task[p][a].found
        /\ profile' = [profile EXCEPT ![x0][k] = Current(p, a).status]
  BY DEF SaveProfile
<1>3. /\ \A x \in Account : x # x0 => profile'[x] = profile[x]
      /\ \A j \in Row : j # k => profile'[x0][j] = profile[x0][j]
  BY <1>1, <1>2 DEF TypeOK
<1>4. \/ Inserting(p, a, x0)
      \/ profile[x0][k] # "none"
  BY <1>1, <1>2 DEF Inserting, RowFoundInv
<1>5. ASSUME NEW q \in Actor, NEW b \in Account, At(q, b, "profileSave")'
      PROVE  (q # p \/ b # a) /\ task'[q][b] = task[q][b]
  BY <1>5 DEF At
<1>6. RowFoundInv'
  <2>1. ASSUME NEW q \in Actor, NEW b \in Account, At(q, b, "profileSave")',
               task'[q][b].found # 0
        PROVE  profile'[Current(q, b)'.account][task'[q][b].found] # "none"
    <3>1. /\ At(q, b, "profileSave") /\ Current(q, b)' = Current(q, b)
          /\ task'[q][b].found = task[q][b].found
      BY <1>5, <2>1 DEF At, Current
    <3>2. profile[Current(q, b).account][task[q][b].found] # "none"
      BY <2>1, <3>1 DEF RowFoundInv
    <3>3. Current(q, b).account \in Account
      BY <3>1, TaskTyped DEF At
    <3>4. CASE task[q][b].found \in Row
      BY <3>1, <3>2, <3>3, <3>4
    <3>5. CASE task[q][b].found \notin Row
      <4>1. profile'[Current(q, b).account][task[q][b].found]
              = profile[Current(q, b).account][task[q][b].found]
        BY <1>1, <1>2, <3>3, <3>5 DEF TypeOK
      <4>2. QED
        BY <3>1, <3>2, <4>1
    <3>6. QED
      BY <3>4, <3>5
  <2>2. QED
    BY <1>1, <2>1 DEF RowFoundInv
<1>7. InsertInv'
  <2>1. ASSUME NEW x \in Account \ doubted', NEW q \in Actor, NEW b \in Account,
               Inserting(q, b, x)'
        PROVE  \A j \in Row : profile'[x][j] = "none"
    <3>1. (q # p \/ b # a) /\ Inserting(q, b, x) /\ x \in Account \ doubted
      BY <1>5, <2>1 DEF Inserting, At, Current, Clear
    <3>2. ~Overlap(x) /\ \A j \in Row : profile[x][j] = "none"
      BY <3>1 DEF InsertInv
    <3>3. x # x0
      <4>1. SUFFICES ASSUME x = x0 PROVE FALSE
        OBVIOUS
      <4>2. Inserting(p, a, x)
        BY <1>4, <3>2, <4>1
      <4>3. <<p, a>> # <<q, b>>
        BY <3>1
      <4>4. QED
        BY <3>1, <3>2, <4>2, <4>3 DEF Overlap
    <3>4. QED
      BY <1>3, <3>2, <3>3
  <2>2. QED
    BY <2>1 DEF InsertInv, Clear
<1>8. OneProfile'
  <2>1. ASSUME NEW x \in Account \ doubted', NEW i \in Row, NEW j \in Row,
               profile'[x][i] # "none", profile'[x][j] # "none"
        PROVE  i = j
    <3>1. x \notin doubted
      BY DEF Clear
    <3>2. CASE x # x0
      BY <1>3, <2>1, <3>1, <3>2 DEF OneProfile
    <3>3. CASE x = x0
      <4>1. \A m \in Row : profile[x0][m] # "none" => m = k
        <5>1. CASE Inserting(p, a, x0)
          BY <3>1, <3>3, <5>1 DEF InsertInv
        <5>2. CASE profile[x0][k] # "none"
          BY <3>1, <3>3, <5>2 DEF OneProfile
        <5>3. QED
          BY <1>4, <5>1, <5>2
      <4>2. i = k /\ j = k
        BY <1>3, <2>1, <3>3, <4>1
      <4>3. QED
        BY <4>2
    <3>4. QED
      BY <3>2, <3>3
  <2>2. QED
    BY <2>1 DEF OneProfile
<1>9. QED
  BY <1>6, <1>7, <1>8

LEMMA OneStep ==
  ASSUME NewInv, OneInv, NewNext
  PROVE  OneInv'
<1>0. \A x \in Account \ doubted' : Clear(x)
  BY Clears
<1>1. TypeOK /\ StackInv
  BY DEF NewInv, ImportInv
<1>2. ASSUME UNCHANGED profile, profileCopy' = profileCopy \/ profileCopy' = profile,
             \/ task' = task
             \/ \E p \in Actor, a \in Account : \E t : t.pc \in {"idle", "manager"} /\
                  task' = [task EXCEPT ![p][a] = t]
      PROVE  OneInv'
  <2>1. \A q \in Actor, b \in Account :
          task'[q][b] = task[q][b] \/ task'[q][b].pc # "profileSave"
    <3>1. CASE task' = task
      BY <3>1
    <3>2. ASSUME NEW p \in Actor, NEW a \in Account, NEW t, t.pc \in {"idle", "manager"},
                 task' = [task EXCEPT ![p][a] = t], NEW q \in Actor, NEW b \in Account
          PROVE  task'[q][b] = task[q][b] \/ task'[q][b].pc # "profileSave"
      <4>1. task'[q][b] = IF q = p /\ b = a THEN t ELSE task[q][b]
        BY <1>1, <3>2 DEF TypeOK
      <4>2. QED
        BY <3>2, <4>1
    <3>3. QED
      BY <1>2, <3>1, <3>2
  <2>2. QED
    BY <1>0, <1>2, <2>1, QuietKeeps
<1>3. IdleTask.pc = "idle" /\ \A a, s : Started(a, s).pc = "manager"
  BY DEF IdleTask, Started
<1>4. ASSUME NEW p \in Actor, NEW a \in Account, NewUserStep(p, a) \/ AskStep(p, a)
      PROVE  OneInv'
  <2>1. UNCHANGED <<profile, profileCopy>>
    BY <1>4 DEF NewUserStep, AskStep, PhotoRead, PhotoFails, Add, AddedUnseen, AddFails,
       ReplyNew, CheckUsername, AskNew, dbVars, copyVars, importVars
  <2>2. \/ task' = task
        \/ task' = [task EXCEPT ![p][a] = IdleTask]
        \/ \E s : task' = [task EXCEPT ![p][a] = Started(a, s)]
    BY <1>4 DEF NewUserStep, AskStep, PhotoRead, PhotoFails, Add, AddedUnseen, AddFails,
       ReplyNew, CheckUsername, AskNew, importVars
  <2>3. QED
    BY <1>2, <1>3, <2>1, <2>2
<1>5. ASSUME NEW p \in Actor, ShowReply(p) PROVE OneInv'
  BY <1>2, <1>5 DEF ShowReply, importVars
<1>6. ASSUME NEW p \in Actor, LoginStep(p) PROVE OneInv'
  <2>1. UNCHANGED <<profile, profileCopy>>
    BY <1>6 DEF LoginStep, Login, Answer, dbVars, copyVars
  <2>2. \E a \in Account : \/ task' = [task EXCEPT ![p][a] = IdleTask]
                          \/ \E s : task' = [task EXCEPT ![p][a] = Started(a, s)]
    BY <1>6 DEF LoginStep, Login, Answer
  <2>3. QED
    BY <1>2, <1>3, <2>1, <2>2
<1>7. CASE Environment
  BY <1>2, <1>7 DEF Environment, ChangeDirectory, Replicate, dbVars, copyVars
<1>8. ASSUME NEW p \in Actor, NEW a \in Account, ImportStep(p, a)
      PROVE  OneInv'
  <2>1. \A q \in Actor, b \in Account : q # p \/ b # a => task'[q][b] = task[q][b]
    BY <1>1, <1>8, NextPc
  <2>2. CASE FindProfile(p, a)
    BY <1>0, <1>1, <2>1, <2>2, FindKeeps
  <2>3. CASE SaveProfile(p, a)
    <3>1. task'[p][a].pc # "profileSave"
      BY <1>1, <1>8, <2>3, NextPc DEF SaveProfile, FollowManager, LeaveManagerOut, FindProfile,
         SaveProfileFails, FindUser, SaveUser, SaveUserFails, At
    <3>2. \A x \in Account, i \in Row : profile[x][i] # "none" => profile'[x][i] # "none"
      BY <1>1, <1>8, RowsStay
    <3>3. QED
      BY <1>0, <1>1, <2>1, <2>3, <3>1, <3>2, SaveKeeps
  <2>4. CASE ~FindProfile(p, a) /\ ~SaveProfile(p, a)
    <3>1. profile' = profile /\ profileCopy' = profileCopy
      BY <1>8, <2>4 DEF ImportStep, FollowManager, LeaveManagerOut, SaveProfileFails, FindUser,
         SaveUser, SaveUserFails, dbVars, copyVars
    <3>2. task'[p][a].pc # "profileSave"
      BY <1>1, <1>8, <2>4, NextPc
    <3>3. QED
      BY <1>0, <2>1, <3>1, <3>2, QuietKeeps
  <2>5. QED
    BY <2>2, <2>3, <2>4
<1>9. CASE NewStep
  BY <1>4, <1>5, <1>6, <1>7, <1>8, <1>9 DEF NewStep, OtherStep
<1>10. QED
  BY <1>9 DEF NewNext

LEMMA InitOne == NewInit => OneInv
<1> SUFFICES ASSUME NewInit PROVE OneInv
  OBVIOUS
<1>1. PICK stored \in [Account -> Status \cup {"none"}] :
        profile = [a \in Account |-> IF stored[a] = "none" THEN NoRows ELSE OneRow(stored[a])]
  BY DEF NewInit, ImportInit
<1>2. \A a \in Account, i \in Row : profile[a][i] # "none" => i = 1
  BY <1>1 DEF NoRows, OneRow
<1>3. profileCopy = profile /\ \A p \in Actor, a \in Account : ~At(p, a, "profileSave")
  BY DEF NewInit, ImportInit, At, IdleTask
<1>4. QED
  BY <1>2, <1>3 DEF OneInv, RowFoundInv, InsertInv, OneProfile, Inserting, Overlap

(* An object has at most one profile unless two imports were about to       *)
(* insert it at the same time or a lookup missed a row that was there, with *)
(* a replica and with any number of requests, logins and failures: see      *)
(* OneProfile.                                                              *)
THEOREM NewOneProfile == NewSpec => []OneProfile
<1>1. NewInit => OneInv
  BY InitOne
<1>2. NewInv /\ OneInv /\ [NewNext]_newVars => OneInv'
  <2>1. NewInv /\ OneInv /\ NewNext => OneInv'
    BY OneStep
  <2>2. OneInv /\ UNCHANGED newVars => OneInv'
    BY DEF newVars, userVars, importVars, OneInv, RowFoundInv, InsertInv, OneProfile,
       Overlap, Inserting, At, Current
  <2>3. QED
    BY <2>1, <2>2
<1>3. OneInv => OneProfile
  BY DEF OneInv
<1>4. QED
  BY <1>1, <1>2, <1>3, NewInvariance, PTL DEF NewSpec
=============================================================================

----------------------------- MODULE SteadyAccess -----------------------------
(***************************************************************************)
(* DirectorySync with two memories: what the directory has shown all the   *)
(* time, and what happened beside a run.  With the first, synchronizations *)
(* and logins, however they meet in the database, implement Access: they   *)
(* give access only to those once shown as enabled and take it only with   *)
(* an excuse.  The second says of which accounts a run keeps what it       *)
(* promises when it answers: those whose rows nobody else wrote since it   *)
(* began, and of which it read what was stored.                            *)
(*                                                                         *)
(* The excuse is a failed call, a stop of the service, or that the         *)
(* directory did not show the account as enabled all the time.  A person   *)
(* without a user row has one too: when two imports insert the row at the  *)
(* same time, one of them fails on the unique index (user.entity.ts:31),   *)
(* and if that is the synchronization's it blocks the row of the other     *)
(* (app.service.ts:286-302) until it runs again.                           *)
(***************************************************************************)
EXTENDS DirectorySync

VARIABLES
  steady,    \* history: stored from the start, and shown as enabled ever since
  disturbed  \* history: of each run, the accounts others wrote beside it and
             \* those whose user row it read from a replica that was behind

Admitted ==
  {a \in Account : IF a \in UserAccount THEN user[a] = "enabled"
                   ELSE \E i \in Row : profile[a][i] = "enabled"}

Excused == IF faults = 0 THEN Account \ steady ELSE Account

SteadyInit ==
  /\ SyncInit
  /\ steady = {a \in Account : /\ {directory[a]} \cup recent[a] = {"enabled"}
                               /\ a \in UserAccount => user[a] # "none"}
  /\ disturbed = [r \in Run |-> {}]

(* A step of run r, or one that leaves it alone and writes rows of a.       *)
Works(r) == \/ task'[r] # task[r]
            \/ profileUpdates'[r] # profileUpdates[r]
            \/ userUpdates'[r] # userUpdates[r]

Disturbs(r, a) ==
  /\ ~Works(r)
  /\ profile'[a] # profile[a] \/ (a \in UserAccount /\ user'[a] # user[a])

(* A lookup of the user row, in an import or by allUsers, read the replica  *)
(* before it had the row's present state.                                   *)
Misread(r, a) ==
  /\ a \in UserAccount /\ UserRead(a) # user[a]
  /\ \/ At(r, a, "userFind") /\ task'[r][a].pc = "userSave"
     \/ run[r] = "users" /\ run'[r] = "done"

SteadyNext ==
  /\ SyncNext
  /\ steady' = {a \in steady : directory'[a] = "enabled"}
  /\ disturbed' = [r \in Run |-> IF run'[r] = "idle" THEN {}
       ELSE disturbed[r] \cup {a \in Account : Disturbs(r, a) \/ Misread(r, a)}]

steadyVars == <<vars, steady, disturbed>>

SteadySpec == SteadyInit /\ [][SteadyNext]_steadyVars

-----------------------------------------------------------------------------
(* Synchronizations and logins implement Access: with any overlap, stale    *)
(* reads of the replica included, nobody gets access who was never shown as *)
(* enabled, and nobody who was shown so all the time loses it while no call *)
(* fails.                                                                   *)
Abstract == INSTANCE Access WITH access <- Admitted, shown <- everEnabled,
                                 excused <- Excused

AccessIsJust == Abstract!Spec

(* What a synchronization that answered true has promised once its updates  *)
(* are through, whatever logins and other synchronizations ran beside it:   *)
(* it fails closed, whoever has access was listed as enabled whatever       *)
(* imports failed on the way.  Accounts others wrote meanwhile, and those   *)
(* whose row it could not see as it is, are left out.                       *)
FailsClosed ==
  \A r \in Run : run[r] = "done" /\ answer[r] = "true" /\ Drained(r) =>
    \A a \in UserAccount \ disturbed[r] : user[a] = "enabled" => seen[r][a] = "enabled"

(* ... and without failures or changes on the way it locks nobody out:      *)
(* everyone listed as enabled has access, in both tables.                   *)
ListedHaveAccess ==
  \A r \in Run : run[r] = "done" /\ answer[r] = "true" /\ Drained(r) =>
    \A a \in Account \ disturbed[r] :
      seen[r][a] = "enabled" /\ faults = 0 /\ changes = 0 =>
        /\ a \in UserAccount => user[a] = "enabled"
        /\ \E i \in Row : profile[a][i] = "enabled"

-----------------------------------------------------------------------------
(* The inductive invariant behind AccessIsJust: of a steady account every   *)
(* answer says "enabled", lookups find its user row, and, while no call     *)
(* fails, no import of it does.                                             *)

SteadyShown == \A a \in steady :
  /\ directory[a] = "enabled" /\ recent[a] \subseteq {"enabled"}
  /\ \A r \in Run : listing[r][DomainOf[a]] = "ok" => seen[r][a] = "enabled"

SteadyFrames == \A p \in Actor, a \in Account : \A k \in 1..Len(task[p][a].stack) :
  task[p][a].stack[k].account \in steady => task[p][a].stack[k].status = "enabled"

SteadyRows == \A a \in steady \cap UserAccount : user[a] # "none" /\ userCopy[a] # "none"

SteadyImports == faults = 0 => \A a \in steady, p \in Actor :
  /\ ~At(p, a, "failed")
  /\ At(p, a, "userSave") => task[p][a].found # 0

SteadyInv ==
  /\ steady \subseteq Account
  /\ SteadyShown /\ SteadyFrames /\ SteadyRows /\ SteadyImports

-----------------------------------------------------------------------------
(* The inductive invariants behind FailsClosed and ListedHaveAccess.        *)

(* A user the run has imported is as it was listed, and whoever it has left *)
(* with access was listed as enabled or is about to be updated.             *)
RunInv == \A r \in Run :
  /\ \A a \in Account : ~At(r, a, "idle") =>
       task[r][a].stack[Len(task[r][a].stack)].status = seen[r][a]
  /\ \A a \in UserAccount \ disturbed[r] :
       /\ At(r, a, "saved") => user[a] = seen[r][a]
       /\ a \in userUpdates[r] => user[a] = "enabled"
       /\ run[r] = "done" /\ answer[r] = "true" /\ user[a] = "enabled" =>
            a \in userUpdates[r] \/ seen[r][a] = "enabled"

(* Without failures and changes everything a run read from the directory is *)
(* what it shows, everybody listed has been through an import when it       *)
(* answers true, no import fails, and who was imported as enabled has an    *)
(* enabled profile.                                                         *)
ListedInv == faults = 0 /\ changes = 0 => \A r \in Run :
  /\ run[r] = "done" /\ answer[r] = "true" =>
       \A a \in Account : seen[r][a] # "absent" => ~At(r, a, "idle")
  /\ \A a \in Account :
       /\ seen[r][a] \in {"absent", directory[a]}
       /\ \A k \in 1..Len(task[r][a].stack) :
            task[r][a].stack[k].status = directory[task[r][a].stack[k].account]
  /\ \A a \in Account \ disturbed[r] :
       /\ ~At(r, a, "failed")
       /\ a \in UserAccount /\ At(r, a, "userSave") /\ task[r][a].found = 0
            => user[a] = "none"
       /\ task[r][a].pc \in {"userFind", "userSave", "saved"} /\ directory[a] = "enabled" =>
            \E i \in Row : profile[a][i] = "enabled"
=============================================================================

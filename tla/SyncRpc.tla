-------------------------------- MODULE SyncRpc --------------------------------
(***************************************************************************)
(* Asking for a synchronization.  The job of apps/sync-job and the mutation *)
(* syncLdap of the portal send LDAP_SYNC over Redis and await one answer;   *)
(* the controller of apps/sync runs the synchronization of DirectorySync    *)
(* and answers what it returns.                                             *)
(*                                                                          *)
(* Redis keeps nothing: a request published while the service does not      *)
(* listen is lost, and a run dies with its process.  Neither asker has a    *)
(* timeout.  A run stands for one request, so r names both.                 *)
(***************************************************************************)
EXTENDS DirectorySync

VARIABLES
  listening,  \* the service has subscribed to LDAP_SYNC
  message,    \* the request: not sent, with the service, or lost
  asker       \* what the job or the page waits for or was told

rpcVars  == <<listening, message, asker>>
syncRpcVars == <<vars, rpcVars>>

RpcInit ==
  /\ SyncInit
  /\ listening \in BOOLEAN
  /\ message = [r \in Run |-> "unsent"]
  /\ asker = [r \in Run |-> "idle"]

-----------------------------------------------------------------------------
(* The job connects first; the portal has a client if it was configured     *)
(* with one.  A refused connection is an error at once, and the page's      *)
(* button is disabled from the click to the answer.                         *)
Ask(r) ==
  /\ asker[r] = "idle"
  /\ asker' = [asker EXCEPT ![r] = "waiting"]
  /\ message' = [message EXCEPT ![r] = IF listening THEN "delivered" ELSE "lost"]
  /\ UNCHANGED <<vars, listening>>

AskFails(r) ==
  /\ asker[r] = "idle" /\ Fault
  /\ asker' = [asker EXCEPT ![r] = "error"]
  /\ UNCHANGED <<dbVars, copyVars, sourceVars, task, syncVars, listening, message>>

(* The job is killed, the page is closed or the portal restarts: nobody     *)
(* tells the service.                                                       *)
AskerLeaves(r) ==
  /\ asker[r] = "waiting" /\ Fault
  /\ asker' = [asker EXCEPT ![r] = "gone"]
  /\ UNCHANGED <<dbVars, copyVars, sourceVars, task, syncVars, listening, message>>

(* A bug: only success is answered.                                         *)
Hear_OnlyTrue(r) ==
  /\ asker[r] = "waiting" /\ run[r] = "done" /\ answer[r] = "true"
  /\ asker' = [asker EXCEPT ![r] = answer[r]]
  /\ UNCHANGED <<vars, listening, message>>

(* The controller returns the result of the run, the asker gets it.         *)
Hear(r) ==
  /\ asker[r] = "waiting" /\ run[r] = "done"
  /\ asker' = [asker EXCEPT ![r] = answer[r]]
  /\ UNCHANGED <<vars, listening, message>>

-----------------------------------------------------------------------------
(* The service.                                                             *)

(* A run is started by a delivered request, and by nothing else.            *)
ServedStep(r) ==
  /\ run[r] = "idle" => message[r] = "delivered"
  /\ RunStep(r) \/ UpdateStep(r)
  /\ UNCHANGED rpcVars

(* Deliveries not yet begun and runs not yet ended go with the process.     *)
ServiceStops ==
  /\ listening /\ listening' = FALSE
  /\ message' = [r \in Run |-> IF run[r] = "idle" /\ message[r] = "delivered"
                               THEN "lost" ELSE message[r]]
  /\ \/ Crash
     \/ /\ \A r \in Run : ~Unfinished(r)
        /\ Fault
        /\ UNCHANGED <<dbVars, copyVars, sourceVars, task, syncVars>>
  /\ UNCHANGED asker

ServiceStarts ==
  /\ ~listening /\ listening' = TRUE
  /\ UNCHANGED <<vars, message, asker>>

RpcNext ==
  \/ PortalStep /\ UNCHANGED rpcVars
  \/ \E r \in Run : Ask(r) \/ AskFails(r) \/ AskerLeaves(r) \/ Hear(r) \/ ServedStep(r)
  \/ ServiceStops \/ ServiceStarts

(* Promises settle: the service's own steps, its updates and the imports    *)
(* are taken if they stay possible, and an answer reaches who still waits.  *)
(* Nobody has to ask, no service has to stop or to be started, and logins,  *)
(* directory changes and replication need not happen.                       *)
RpcFairness ==
  /\ \A r \in Run : WF_syncRpcVars(ServedStep(r)) /\ WF_syncRpcVars(Hear(r))
  /\ \A r \in Run : WF_syncRpcVars(UpdateStep(r) /\ UNCHANGED rpcVars)
  /\ \A p \in Actor, a \in Account :
       WF_syncRpcVars(ImportStep(p, a) /\ UNCHANGED <<syncVars, rpcVars>>)

RpcSpec == RpcInit /\ [][RpcNext]_syncRpcVars /\ RpcFairness

-----------------------------------------------------------------------------
(* An asker whose request reached the service is answered, with true or     *)
(* false, unless the service stops or the asker leaves.  Without the        *)
(* exception it waits for ever: no call of the chain has a timeout.         *)
AskersAnswered ==
  \A r \in Run :
    asker[r] = "waiting" /\ message[r] = "delivered"
      ~> asker[r] # "waiting" \/ message[r] = "lost" \/ run[r] = "crashed"
=============================================================================

--------------------------- MODULE AutoDeployment ---------------------------
(***************************************************************************)
(* Deployments which wait for a transfer to be executed first.  The        *)
(* deployer manager (deployer_manager/rpc/server.py) polls the pending     *)
(* ones and tells the conductor when the execution each waits for, its     *)
(* deployer, is done.  The conductor (conductor/rpc/server.py) launches it *)
(* then, against everything else that uses the transfer's disks.           *)
(*                                                                         *)
(* One transfer.  An identifier names a deployment and, if it was created  *)
(* by an execution with auto_deploy, that execution.  What happens inside  *)
(* an execution is TasksExecution's; here only its status moves.           *)
(***************************************************************************)
EXTENDS Statuses, Integers, Sequences, FiniteSets

CONSTANTS
  Ids,          \* deployments, and the transfer executions they wait for
  Poolings,     \* the sets of them which may have minion pools
  Deletions,    \* do users delete deployments and executions?
  Faults,       \* which of the failures in AllFaults may happen
  MaxFaults     \* bound on how often they do

\* timeout:   an RPC of the deployer manager times out
\* restart:   the deployer manager is restarted
\* no_worker: a first task of an execution finds no worker
AllFaults == {"timeout", "restart", "no_worker"}

ASSUME AutoDeploymentAssumption ==
  /\ IsFiniteSet(Ids)
  /\ Poolings \subseteq SUBSET Ids
  /\ Deletions \in BOOLEAN
  /\ Faults \subseteq AllFaults
  /\ MaxFaults \in Nat

VARIABLES
  pooled,      \* deployments with minion pools for their OS morphing
  deployer,    \* status of the transfer execution; "none", "deleted"
  deployment,  \* last_execution_status of the deployment; "none", "deleted"
  executions,  \* statuses of the deployment's own executions
  working,     \* executions with tasks at workers: <<d, k>> is the k-th of
               \* deployment d, <<d, 0>> the one of the transfer
  minions,     \* allocations in progress in the minion manager
  casts,       \* execute_auto_deployment casts on their way
  manager,     \* the polling loop of the deployer manager
  calls,       \* its calls which the conductor has not answered
  launching,   \* what the holder of the transfer lock is launching
  faults       \* failures left

conductor == <<pooled, deployer, deployment, executions, working, minions>>
vars == <<conductor, casts, manager, calls, launching, faults>>

Awaiting == "AWAITING_MINION_ALLOCATIONS"

\* Nobody holds the lock of the transfer.
Nothing == [id |-> 0, op |-> "none"]

\* confirm: confirm_deployer_completed, as it arrives; launch: the same, past
\* its reading of the deployment; report: report_deployer_failure.
Operations == {"confirm", "launch", "report"}

ManagerPlaces == {"idle", "loop", "calling", "waiting", "failed", "reporting"}

TypeOK ==
  /\ pooled \subseteq Ids
  /\ deployer \in [Ids -> ExecutionStatuses \cup {"none", "deleted"}]
  /\ deployment \in [Ids -> ExecutionStatuses \cup {"none", "deleted"}]
  /\ \A d \in Ids : \A k \in DOMAIN executions[d] :
        executions[d][k] \in ExecutionStatuses
  /\ \A w \in working : w[1] \in Ids /\ w[2] \in 0..Len(executions[w[1]])
  /\ minions \subseteq Ids
  /\ casts \subseteq Ids
  /\ manager.at \in ManagerPlaces /\ manager.todo \subseteq Ids
  /\ \A c \in calls : c.op \in Operations /\ c.d \in Ids
  /\ faults \in 0..MaxFaults

Init ==
  /\ pooled \in Poolings
  /\ deployer = [d \in Ids |-> "none"]
  /\ deployment = [d \in Ids |-> "none"]
  /\ executions = [d \in Ids |-> <<>>]
  /\ working = {}
  /\ minions = {}
  /\ casts = {}
  /\ manager = [at |-> "idle", todo |-> {}, d |-> "none", call |-> 0]
  /\ calls = {}
  /\ launching = Nothing
  /\ faults = MaxFaults

-----------------------------------------------------------------------------
(* Checks the conductor makes while it holds the lock of the transfer.     *)

Existing == {d \in Ids : deployment[d] \notin {"none", "deleted"}}

Active(d) == \E k \in DOMAIN executions[d] :
                executions[d][k] \in ACTIVE_EXECUTION_STATUSES

\* _get_execution_for_deployment refuses a deployment with two executions.
CheckRunningTransferDeployments ==
  \A d \in Existing : Len(executions[d]) <= 1 /\ ~Active(d)

CheckTransferRunningExecutions ==
  /\ \A d \in Ids : deployer[d] \notin ACTIVE_EXECUTION_STATUSES
  /\ CheckRunningTransferDeployments

\* Whether the disks have been deleted since is not modelled.
ValidateDeploymentInputs(force) ==
  /\ CheckTransferRunningExecutions
  /\ force \/ \E d \in Ids : deployer[d] = "COMPLETED"

Fails(fault) == fault \in Faults /\ faults > 0 /\ faults' = faults - 1

Unused(d) == deployer[d] = "none" /\ deployment[d] = "none"

-----------------------------------------------------------------------------
(* The transfer: requests of users and of schedules.                       *)

\* _begin_tasks finds no worker for a first task.  It cancels the execution, but
\* as that is not yet RUNNING its status stays, or becomes DEADLOCKED; tasks of
\* other instances may already be at work.
BeginFails(w, status) ==
  /\ Fails("no_worker")
  /\ \/ /\ status = "UNEXECUTED"
        /\ working' \in {working, working \cup {w}}
     \/ /\ status = "DEADLOCKED"
        /\ UNCHANGED working

\* execute_transfer_tasks with auto_deploy.  The deployer manager only learns of
\* it if its tasks were started.
ExecuteTransferTasks(d) ==
  /\ launching = Nothing
  /\ Unused(d)
  /\ CheckTransferRunningExecutions
  /\ \/ /\ deployer' = [deployer EXCEPT ![d] = "RUNNING"]
        /\ working' = working \cup {<<d, 0>>}
        /\ casts' = casts \cup {d}
        /\ UNCHANGED faults
     \/ /\ \E s \in {"UNEXECUTED", "DEADLOCKED"} :
             BeginFails(<<d, 0>>, s) /\ deployer' = [deployer EXCEPT ![d] = s]
        /\ UNCHANGED casts
  /\ UNCHANGED <<pooled, deployment, executions, minions, manager, calls,
                 launching>>

\* An execution of the transfer is cancelled or ends.
TransferExecutionMoves(d) ==
  /\ \/ /\ deployer[d] = "RUNNING"
        /\ deployer' = [deployer EXCEPT ![d] = "CANCELLING"]
        /\ UNCHANGED working
     \/ /\ deployer[d] \in {"RUNNING", "CANCELLING"}
        /\ \E s \in {"COMPLETED", "CANCELED", "ERROR"} :
             deployer' = [deployer EXCEPT ![d] = s]
        /\ working' = working \ {<<d, 0>>}
  /\ UNCHANGED <<pooled, deployment, executions, minions, casts, manager,
                 calls, launching, faults>>

\* Mutant: executions which are still cancelling may be deleted.
DeleteCancelling(d) ==
  /\ Deletions
  /\ deployer[d] \in FINALIZED_EXECUTION_STATUSES \cup {"CANCELLING"}
  /\ deployer' = [deployer EXCEPT ![d] = "deleted"]
  /\ UNCHANGED <<pooled, deployment, executions, working, minions, casts,
                 manager, calls, launching, faults>>

\* delete_transfer_tasks_execution
DeleteTransferTasksExecution(d) ==
  /\ Deletions
  /\ deployer[d] \in FINALIZED_EXECUTION_STATUSES
  /\ deployer' = [deployer EXCEPT ![d] = "deleted"]
  /\ UNCHANGED <<pooled, deployment, executions, working, minions, casts,
                 manager, calls, launching, faults>>

-----------------------------------------------------------------------------
(* The deployment: its creation, its launch and its life.                  *)

\* execute_auto_deployment and deploy_transfer_instances on its behalf.
ExecuteAutoDeployment(d) ==
  /\ d \in casts
  /\ launching = Nothing
  /\ casts' = casts \ {d}
  /\ deployment' = [deployment EXCEPT ![d] = "PENDING"]
  /\ UNCHANGED <<pooled, deployer, executions, working, minions, manager,
                 calls, launching, faults>>

\* The part of _execute_deployment up to the new execution's record.
AddExecution(d) == executions' = [executions EXCEPT ![d] = Append(@, "UNEXECUTED")]

\* deploy_transfer_instances for a user, who waits for no execution.
DeployTransferInstances(d) ==
  /\ launching = Nothing
  /\ Unused(d)
  /\ \E force \in BOOLEAN : ValidateDeploymentInputs(force)
  /\ deployment' = [deployment EXCEPT ![d] = "UNEXECUTED"]
  /\ AddExecution(d)
  /\ launching' = [id |-> 0, op |-> "deploy", d |-> d]
  /\ UNCHANGED <<pooled, deployer, working, minions, casts, manager, calls,
                 faults>>

\* Mutant: the status of the action stays behind.
SetExecutionStatusOnly(d, k, s) ==
  /\ executions' = [executions EXCEPT ![d][k] = s]
  /\ UNCHANGED deployment

\* db_api.set_execution_status also sets the status of the action.
SetStatus(d, k, s) ==
  /\ executions' = [executions EXCEPT ![d][k] = s]
  /\ deployment' = [deployment EXCEPT ![d] = s]

\* The conductor answers a call; if the deployer manager still waits for the
\* answer it goes on from there.
Answer(c, good) ==
  /\ calls' = calls \ {c}
  /\ manager' =
       IF manager.call # c.id \/ c.id = 0 THEN manager
       ELSE IF c.op = "report"
            THEN IF good THEN [manager EXCEPT !.at = "loop", !.call = 0]
                 ELSE [manager EXCEPT !.at = "idle", !.call = 0, !.todo = {}]
            ELSE [manager EXCEPT !.at = IF good THEN "waiting" ELSE "failed",
                                 !.call = 0]

\* confirm_deployer_completed reads the deployment, which may be gone, under its
\* lock, and lets go of that lock.
ConfirmDeployerCompleted(c) ==
  /\ c.op = "confirm"
  /\ IF deployment[c.d] = "deleted"
     THEN Answer(c, FALSE)
     ELSE /\ calls' = (calls \ {c}) \cup {[c EXCEPT !.op = "launch"]}
          /\ UNCHANGED manager
  /\ UNCHANGED <<conductor, casts, launching, faults>>

\* set_action_last_execution_status on a deployment which may be deleted.
SetActionStatus(d, s) ==
  deployment' = [deployment EXCEPT ![d] = IF @ = "deleted" THEN @ ELSE s]

\* confirm_deployer_completed, once it has the lock of the transfer: that the
\* deployment is still pending, or exists, is not checked again.
ExecuteDeployment(c) ==
  /\ c.op = "launch"
  /\ launching = Nothing
  /\ IF ValidateDeploymentInputs(FALSE)
     THEN /\ AddExecution(c.d)
          /\ launching' = c
          /\ UNCHANGED <<deployment, calls, manager>>
     ELSE /\ SetActionStatus(c.d, "ERROR")
          /\ Answer(c, FALSE)
          /\ UNCHANGED <<executions, launching>>
  /\ UNCHANGED <<pooled, deployer, working, minions, casts, faults>>

Launched(good) == launching' = Nothing /\ Answer(launching, good)

\* The end of _execute_deployment for a deployment deleted meanwhile: its tasks
\* are handed out, and setting the status fails and is rolled back.
BeginDeleted ==
  LET d == launching.d  k == Len(executions[launching.d]) IN
  /\ launching # Nothing
  /\ deployment[d] = "deleted"
  /\ IF d \in pooled
     THEN minions' = minions \cup {d} /\ UNCHANGED working
     ELSE working' = working \cup {<<d, k>>} /\ UNCHANGED minions
  /\ Launched(FALSE)
  /\ UNCHANGED <<pooled, deployer, deployment, executions, casts, faults>>

\* The end of _execute_deployment: minion machines are asked for, or tasks are
\* started.
BeginTasks ==
  LET d == launching.d  k == Len(executions[launching.d]) IN
  /\ launching # Nothing
  /\ deployment[d] # "deleted"
  /\ IF d \in pooled
     THEN /\ SetStatus(d, k, Awaiting)
          /\ minions' = minions \cup {d}
          /\ UNCHANGED working
     ELSE /\ SetStatus(d, k, "RUNNING")
          /\ working' = working \cup {<<d, k>>}
          /\ UNCHANGED minions
  /\ Launched(TRUE)
  /\ UNCHANGED <<pooled, deployer, casts, faults>>

\* The same when _begin_tasks fails: confirm_deployer_completed then sets the
\* status of the deployment.
BeginTasksFails ==
  LET d == launching.d  k == Len(executions[launching.d]) IN
  /\ launching # Nothing
  /\ deployment[d] # "deleted"
  /\ d \notin pooled
  /\ \E s \in {"UNEXECUTED", "DEADLOCKED"} :
       /\ BeginFails(<<d, k>>, s)
       /\ executions' = [executions EXCEPT ![d][k] = s]
       /\ deployment' = [deployment EXCEPT
                           ![d] = IF launching.op = "launch" THEN "ERROR" ELSE s]
  /\ Launched(FALSE)
  /\ UNCHANGED <<pooled, deployer, minions, casts>>

\* Mutant: the minion manager reports success only.
FailureNotReported(d) ==
  /\ d \in minions
  /\ minions' = minions \ {d}
  /\ \/ /\ deployment[d] = Awaiting
        /\ SetStatus(d, 1, "RUNNING") /\ working' = working \cup {<<d, 1>>}
     \/ UNCHANGED <<executions, deployment, working>>
  /\ UNCHANGED <<pooled, deployer, casts, manager, calls, launching, faults>>

\* confirm_deployment_minions_allocation and
\* report_deployment_minions_allocation_error, which the minion manager calls
\* once.  Both go by the status of the action.
MinionManagerCalls(d) ==
  /\ d \in minions
  /\ minions' = minions \ {d}
  /\ \/ /\ deployment[d] = Awaiting /\ Len(executions[d]) = 1
        /\ \/ SetStatus(d, 1, "RUNNING") /\ working' = working \cup {<<d, 1>>}
           \/ SetStatus(d, 1, "ERROR_ALLOCATING_MINIONS") /\ UNCHANGED working
     \/ /\ ~(deployment[d] = Awaiting /\ Len(executions[d]) = 1)
        /\ UNCHANGED <<executions, deployment, working>>
  /\ UNCHANGED <<pooled, deployer, casts, manager, calls, launching, faults>>

\* An execution of the deployment is cancelled (which cancel_deployment refuses
\* unless it is the only one) or ends.
DeploymentExecutionMoves(d, k) ==
  /\ executions[d][k] \in {"RUNNING", "CANCELLING"}
  /\ deployment[d] # "deleted"
  /\ \/ /\ executions[d][k] = "RUNNING" /\ Len(executions[d]) = 1
        /\ SetStatus(d, k, "CANCELLING")
        /\ UNCHANGED working
     \/ /\ \E s \in {"COMPLETED", "CANCELED", "ERROR"} : SetStatus(d, k, s)
        /\ working' = working \ {<<d, k>>}
  /\ UNCHANGED <<pooled, deployer, minions, casts, manager, calls, launching,
                 faults>>

\* cancel_deployment before the minion machines are there.
CancelAwaiting(d) ==
  /\ deployment[d] # "deleted"
  /\ executions[d] = <<Awaiting>>
  /\ SetStatus(d, 1, "CANCELED")
  /\ UNCHANGED <<pooled, deployer, working, minions, casts, manager, calls,
                 launching, faults>>

\* Tasks run to their end in an execution which has not been set RUNNING, or
\* whose deployment is deleted.
LeftTasksEnd(d, k) ==
  /\ <<d, k>> \in working
  /\ IF k = 0 THEN deployer[d] = "UNEXECUTED"
     ELSE executions[d][k] = "UNEXECUTED" \/ deployment[d] = "deleted"
  /\ working' = working \ {<<d, k>>}
  /\ UNCHANGED <<pooled, deployer, deployment, executions, minions, casts,
                 manager, calls, launching, faults>>

\* report_deployer_failure: refuses a deployment which is not pending, but sets
\* the status all the same.
ReportDeployerFailure(c) ==
  /\ c.op = "report"
  /\ SetActionStatus(c.d, "ERROR")
  /\ Answer(c, deployment[c.d] = "PENDING")
  /\ UNCHANGED <<pooled, deployer, executions, working, minions, casts,
                 launching, faults>>

\* delete_deployment
DeleteDeployment(d) ==
  /\ Deletions
  /\ d \in Existing
  /\ Len(executions[d]) <= 1
  /\ ~Active(d)
  /\ deployment' = [deployment EXCEPT ![d] = "deleted"]
  /\ UNCHANGED <<pooled, deployer, executions, working, minions, casts,
                 manager, calls, launching, faults>>

-----------------------------------------------------------------------------
(* The deployer manager's loop.                                            *)

Pending == {d \in Ids : deployment[d] = "PENDING"}

ListPending ==
  /\ manager.at = "idle" /\ Pending # {}
  /\ manager' = [manager EXCEPT !.at = "loop", !.todo = Pending]
  /\ UNCHANGED <<conductor, casts, calls, launching, faults>>

LoopEnds ==
  /\ manager.at = "loop" /\ manager.todo = {}
  /\ manager' = [manager EXCEPT !.at = "idle"]
  /\ UNCHANGED <<conductor, casts, calls, launching, faults>>

\* The number of a call, for its answer to find the one who waits for it.
NewCall == CHOOSE n \in 1..(Cardinality(calls) + 1) : \A c \in calls : c.id # n

Sends(op, d, place) ==
  /\ calls' = calls \cup {[id |-> NewCall, op |-> op, d |-> d]}
  /\ manager' = [at |-> place, todo |-> manager.todo \ {d}, d |-> d,
                 call |-> NewCall]

\* Mutant: any end of the execution is as good as its completion.
AnyEndConfirms(d) ==
  /\ manager.at = "loop" /\ d \in manager.todo
  /\ IF deployment[d] # "deleted"
          /\ deployer[d] \in {"UNEXECUTED", "RUNNING", Awaiting}
     THEN /\ manager' = [manager EXCEPT !.todo = @ \ {d}]
          /\ UNCHANGED calls
     ELSE Sends("confirm", d, "calling")
  /\ UNCHANGED <<conductor, casts, launching, faults>>

\* _check_deployer_status, for a deployment of the list: wait on, confirm, or
\* report a failure if the execution has failed or cannot be found.
CheckDeployerStatus(d) ==
  /\ manager.at = "loop" /\ d \in manager.todo
  /\ IF deployment[d] # "deleted"
          /\ deployer[d] \in {"UNEXECUTED", "RUNNING", Awaiting}
     THEN /\ manager' = [manager EXCEPT !.todo = @ \ {d}]
          /\ UNCHANGED calls
     ELSE IF deployment[d] # "deleted" /\ deployer[d] = "COMPLETED"
     THEN Sends("confirm", d, "calling")
     ELSE Sends("report", d, "reporting")
  /\ UNCHANGED <<conductor, casts, launching, faults>>

\* _wait_for_pending_deployment_status_change: the first look finds another
\* status, as the conductor has answered; or no deployment.
WaitForStatusChange ==
  /\ manager.at = "waiting"
  /\ manager' = [manager EXCEPT
                   !.at = IF deployment[manager.d] = "deleted" THEN "failed"
                          ELSE IF deployment[manager.d] = "PENDING" THEN @
                          ELSE "loop"]
  /\ UNCHANGED <<conductor, casts, calls, launching, faults>>

\* Whatever goes wrong in _check_deployer_status is reported.
ReportFailure ==
  /\ manager.at = "failed"
  /\ Sends("report", manager.d, "reporting")
  /\ UNCHANGED <<conductor, casts, launching, faults>>

\* A call of the deployer manager times out; what it asked for may still happen.
TimesOut ==
  /\ Fails("timeout")
  /\ \/ /\ manager.at = "loop"
        /\ \E d \in manager.todo :
             manager' = [manager EXCEPT !.at = "failed", !.d = d, !.todo = @ \ {d}]
     \/ /\ manager.at \in {"calling", "waiting"}
        /\ manager' = [manager EXCEPT !.at = "failed", !.call = 0]
     \/ /\ manager.at = "reporting"
        /\ manager' = [manager EXCEPT !.at = "idle", !.call = 0, !.todo = {}]
  /\ UNCHANGED <<conductor, casts, calls, launching>>

Restart ==
  /\ manager.at # "idle"
  /\ Fails("restart")
  /\ manager' = [manager EXCEPT !.at = "idle", !.call = 0, !.todo = {}]
  /\ UNCHANGED <<conductor, casts, calls, launching>>

-----------------------------------------------------------------------------

Launch == BeginTasks \/ BeginDeleted \/ BeginTasksFails

Handle(c) ==
  \/ ConfirmDeployerCompleted(c)
  \/ ExecuteDeployment(c)
  \/ ReportDeployerFailure(c)

Manager ==
  \/ ListPending
  \/ LoopEnds
  \/ \E d \in Ids : CheckDeployerStatus(d)
  \/ WaitForStatusChange
  \/ ReportFailure

Ends(d) ==
  \/ TransferExecutionMoves(d)
  \/ \E k \in DOMAIN executions[d] : DeploymentExecutionMoves(d, k)
  \/ \E k \in 0..Len(executions[d]) : LeftTasksEnd(d, k)

Users ==
  \E d \in Ids :
    \/ ExecuteTransferTasks(d)
    \/ DeployTransferInstances(d)
    \/ DeleteTransferTasksExecution(d)
    \/ DeleteDeployment(d)
    \/ CancelAwaiting(d)

Next ==
  \/ Users
  \/ \E d \in Ids : ExecuteAutoDeployment(d) \/ MinionManagerCalls(d) \/ Ends(d)
  \/ \E c \in calls : Handle(c)
  \/ Launch
  \/ Manager
  \/ TimesOut
  \/ Restart

Spec == Init /\ [][Next]_vars

\* Calls are served, executions end and the loop goes on; users ask for nothing
\* they do not want, and nothing has to fail.
Fairness ==
  /\ WF_vars(Launch)
  /\ WF_vars(Manager)
  /\ WF_vars(\E c \in calls : Handle(c))
  /\ \A d \in Ids :
       /\ WF_vars(MinionManagerCalls(d))
       /\ WF_vars(Ends(d))

FairSpec == Spec /\ Fairness

-----------------------------------------------------------------------------
(* Properties.                                                             *)

\* Executions in progress at the disks of the transfer, by their statuses.
InProgress ==
  {<<d, 0>> : d \in {e \in Ids : deployer[e] \in ACTIVE_EXECUTION_STATUSES}}
  \cup
  UNION {{<<d, k>> : k \in {j \in DOMAIN executions[d] :
                              executions[d][j] \in ACTIVE_EXECUTION_STATUSES}} :
           d \in Existing}

\* Whatever fails, the statuses never show two executions in progress at the disks
\* of a transfer: the checks for running executions see each other's results under
\* the lock of the transfer, and a late _begin_tasks revives none.
OneActive == Cardinality(InProgress) <= 1

\* No two executions have tasks which may work at the disks.
OneAtATime == Cardinality(working) <= 1

\* Nothing has failed, and no deployment was deleted but ones which wait for minion
\* machines before they start their tasks.
Undisturbed ==
  /\ faults = MaxFaults
  /\ \A d \in Ids \ pooled : deployment[d] # "deleted"

\* The disks of a transfer have one user.  Whatever fails, no two executions are in
\* progress by their statuses (_check_transfer_running_executions); as long as nothing
\* fails and no deployment is deleted under its launch, no two have tasks which may
\* work at the disks either, whoever asks for them and however late a launch gets the
\* lock.
DisksHaveOneUser ==
  /\ TypeOK
  /\ OneActive
  /\ Undisturbed => OneAtATime

\* A deployment is executed once: _get_execution_for_deployment and
\* _cancel_deployment refuse to handle any other.
AtMostOneExecution == \A d \in Ids : Len(executions[d]) <= 1

\* What users see of a deployment in progress is the status of its execution, by
\* which the minion manager's calls are also accepted.
StatusTruthful ==
  \A d \in Existing : \A k \in DOMAIN executions[d] :
    executions[d][k] \in ACTIVE_EXECUTION_STATUSES
      => deployment[d] = executions[d][k]

\* As long as nothing fails, what users see of a deployment in progress is the status
\* of its execution: report_deployer_failure, which sets ERROR whatever it finds, and
\* a confirmation which fails only meet deployments without one.
TruthfulUntilFault == faults = MaxFaults => StatusTruthful

\* A deployment's execution begins on the results of a transfer: the one it waits
\* for has completed, however the loop's answers were lost or repeated.
WaitsForDeployer ==
  \A d \in Ids :
    deployer[d] # "none" /\ executions[d] # <<>>
      => deployer[d] \in {"COMPLETED", "deleted"}

\* No deployment stays pending: the loop of the deployer manager has it executed
\* or failed.
PendingEnds ==
  \A d \in Ids : deployment[d] = "PENDING" ~> deployment[d] # "PENDING"

\* As long as nothing fails, no execution waits for minion machines for ever: the
\* minion manager's call, of which there is only one, gets it out of there.
AllocationEnds ==
  \A d \in Ids :
    (\E k \in DOMAIN executions[d] : executions[d][k] = Awaiting)
      ~> \/ \A k \in DOMAIN executions[d] : executions[d][k] # Awaiting
         \/ faults # MaxFaults

\* Nothing waits for ever: a pending deployment is executed or failed by the loop of
\* the deployer manager, and an execution which awaits minions is got out of there
\* by the only call of the minion manager, unless something fails.
WaitsEnd == PendingEnds /\ AllocationEnds
=============================================================================

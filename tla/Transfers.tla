----------------------------- MODULE Transfers -----------------------------
(***************************************************************************)
(* A transfer over its executions: the conductor's operations which create *)
(* executions (execute_transfer_tasks, update_transfer,                    *)
(* delete_transfer_disks, deploy_transfer_instances), the allocation of    *)
(* minions they may have to wait for, and the reports about their tasks,   *)
(* with what tasks read and write in the task info, what they do on the    *)
(* platforms and what the conductor does after them                        *)
(* (_handle_post_task_actions).                                            *)
(*                                                                         *)
(* A task is handed to a worker, gets a process and is reported about; a   *)
(* handler is one step.  TasksExecution has the finer ones, and the        *)
(* failures of scheduling after the first tasks.                           *)
(***************************************************************************)
EXTENDS TaskGraphs

CONSTANTS
  Instances,        \* transfer.instances
  Operations,       \* the executions which users may ask for
  TransferOptions,  \* the options they may ask for them with
  DeploymentOptions,
  MaxRequests,      \* bound on what users ask for, cancellations included
  MaxFailures       \* bound on failures of tasks, allocations, scheduling

AllOperations == {"transfer", "update", "delete_disks", "deployment"}

ASSUME TransfersAssumption ==
  /\ Operations \subseteq AllOperations
  /\ TransferOptions \subseteq Options
  /\ DeploymentOptions \subseteq Options
  /\ MaxRequests \in Nat /\ MaxFailures \in Nat

VARIABLES
  op,         \* the operation the last execution is for
  options,    \* its options
  graph,      \* its tasks, per instance
  phase,      \* how far it is: "idle", "awaiting" minions, "running"
  status,     \* the statuses of its tasks, per instance
  worker,     \* how far the worker of each task is, per instance
  info,       \* transfer.info
  deployed,   \* deployment.info of the last deployment
  pools,      \* the minion pools of the transfer, as saved
  requested,  \* the ones the last update to be begun or to succeed asked for
  world,      \* what exists on the platforms, per instance
  minions,    \* the minion machines allocated to the action
  spoiled,    \* what is there, or gone, without being accounted for
  executed,   \* some transfer execution has completed
  refused,    \* the error an execution was refused with
  canceled,   \* a user has cancelled some execution
  requests, failures   \* the bounds' remainders

parameters == <<pools, requested, executed, refused>>
budgets == <<canceled, requests, failures>>
vars == <<op, options, graph, phase, status, worker, info, deployed, world, minions, spoiled,
          parameters, budgets>>

PoolFields == {"origin_minion_pool_id", "destination_minion_pool_id"}

MinionFields(role) ==
  CASE role = "origin" -> OriginMinionFields
    [] role = "destination" -> DestinationMinionFields
    [] OTHER -> OSMorphingMinionFields

Roles == {"origin", "destination", "osmorphing"}

TypeOK ==
  /\ op \in AllOperations \cup {"none"}
  /\ options \in Options
  /\ phase \in {"idle", "awaiting", "running"}
  /\ \A i \in Instances : \A t \in DOMAIN status[i] :
       t \in TaskTypes /\ status[i][t] \in TaskStatuses
  /\ \A i \in Instances :
       worker[i] \in [DOMAIN status[i] -> {"none", "handed", "running", "ended"}]
  /\ info \in [Instances -> [Fields -> Values]]
  /\ deployed \in [Instances -> [Fields -> Values]]
  /\ pools \in [PoolFields -> BOOLEAN]
  /\ requested \in [PoolFields -> BOOLEAN]
  /\ world \in [Instances -> SUBSET Things]
  /\ minions \in [Instances -> SUBSET Roles]
  /\ spoiled \in [Instances -> SUBSET Things]
  /\ executed \in BOOLEAN /\ canceled \in BOOLEAN

\* create_instances_transfer
Init ==
  /\ op = "none"
  /\ options = [p \in {"origin_minion_pool_id", "destination_minion_pool_id",
                       "osmorphing_minion_pool", "shutdown_instances",
                       "clone_disks", "skip_os_morphing", "instance_flavor"}
                |-> FALSE]
  /\ graph = [i \in Instances |-> <<>>]
  /\ phase = "idle"
  /\ status = [i \in Instances |-> <<>>]
  /\ worker = [i \in Instances |-> <<>>]
  /\ info = [i \in Instances |->
               [f \in Fields |-> IF f = "volumes_info" THEN "none" ELSE "absent"]]
  /\ deployed = [i \in Instances |-> [f \in Fields |-> "absent"]]
  /\ pools \in [PoolFields -> BOOLEAN]
  /\ requested = pools
  /\ world = [i \in Instances |-> {}]
  /\ minions = [i \in Instances |-> {}]
  /\ spoiled = [i \in Instances |-> {}]
  /\ executed = FALSE
  /\ refused = "none"
  /\ canceled = FALSE
  /\ requests = MaxRequests
  /\ failures = MaxFailures

-----------------------------------------------------------------------------
(***************************************************************************)
(* The execution at hand.                                                  *)
(***************************************************************************)

Graph(operation, o, i) ==
  CASE operation = "transfer" -> TransferTasks(o)
    [] operation = "update" -> UpdateTasks
    [] operation = "delete_disks" ->
         When(info[i]["volumes_info"] \notin Empty, DeleteDisksTasks)
    [] OTHER -> DeploymentTasks(o)

\* The task info of the action the execution belongs to.
TaskInfo(i) == IF op = "deployment" THEN deployed[i] ELSE info[i]

Pending(s) == \E i \in Instances : ActiveTasks(s[i]) # {}

AllCompleted(s) ==
  \A i \in Instances : \A t \in DOMAIN s[i] :
    s[i][t] \in {"COMPLETED", "EXECUTE_ON_ERROR_ONLY"}

Advanced(s) == [i \in Instances |-> AdvancedStatuses(graph[i], s[i])]

\* Tasks are <<instance, type>> where they may be of any instance.
Asked(s) ==
  UNION {{<<i, t>> : t \in AskedToStop(graph[i], s[i])} : i \in Instances}

Canceled(s, force, unheard) ==
  [i \in Instances |-> CanceledStatuses(graph[i], s[i], force,
                         {t \in DOMAIN s[i] : <<i, t>> \in unheard})]

\* The execution is CANCELLING (_get_execution_status).
Cancelling ==
  LET Some(S) == \E i \in Instances : \E t \in DOMAIN status[i] : status[i][t] \in S
  IN \/ Some({"CANCELLING", "CANCELLING_AFTER_COMPLETION"})
     \/ Some(ACTIVE_TASK_STATUSES) /\ Some(CANCELED_TASK_STATUSES)

\* What the conductor's own cancellation makes of s: one which is under way already
\* is not begun again, and an execution which is over is left alone.
CanceledByError(s) ==
  IF phase = "idle" \/ Cancelling THEN {s}
  ELSE {Canceled(s, FALSE, unheard) : unheard \in SUBSET Asked(s)}

\* begin_task: workers are given the tasks which have become PENDING.
Handed(s, w) ==
  [i \in Instances |-> [t \in DOMAIN s[i] |->
     IF s[i][t] = "PENDING" /\ w[i][t] = "none" THEN "handed" ELSE w[i][t]]]

\* The tasks of i which have a process, whatever their status has become.
Processes(i) == {t \in DOMAIN worker[i] : worker[i][t] = "running"}

\* The deployment of i is being completed and undone at the same time.
Torn(i, s) ==
  {"DELETE_TRANSFER_TARGET_DISK_SNAPSHOTS", "CLEANUP_FAILED_INSTANCE_DEPLOYMENT"}
    \subseteq ActiveTasks(s[i]) \cup Processes(i)

\* What stays because the task to remove it was given up before it ran or by force.
GivenUp(i, s) ==
  UNION {TASKS_MAP[t].destroys : t \in
           {u \in ActiveTasks(status[i]) \cup Processes(i) :
              s[i][u] \in {"UNSCHEDULED", "FORCE_CANCELED"}}}

\* The statuses are saved and, with nothing left active, the execution is
\* finalized (_set_tasks_execution_status): its minions are given back.  Disks
\* which were deployed without being cloned are the replica's no longer.
Finish(s, k, w, m, lost) ==
  /\ status' = s
  /\ worker' = Handed(s, k)
  /\ spoiled' = [i \in Instances |-> lost[i] \cup GivenUp(i, s) \cup
       IF Torn(i, s) THEN {"disks", "snapshots", "morphed"} ELSE {}]
  /\ \/ /\ Pending(s)
        /\ world' = w /\ minions' = m
        /\ UNCHANGED <<phase, executed>>
     \/ /\ ~Pending(s)
        /\ phase' = "idle"
        /\ executed' = (executed \/ (op = "transfer" /\ AllCompleted(s)))
        /\ minions' = [i \in Instances |-> {}]
        /\ world' = [i \in Instances |->
             IF op = "deployment" /\ ~options.clone_disks /\ "instance" \in w[i]
             THEN w[i] \ {"disks", "morphed"} ELSE w[i]]

-----------------------------------------------------------------------------
(***************************************************************************)
(* The operations.                                                         *)
(***************************************************************************)

\* _check_transfer_running_executions: no execution of the transfer or of one of its
\* deployments is active.  Nor is any process of the last one left: see the README.
NoRunningExecutions ==
  /\ phase = "idle" /\ requests > 0
  /\ \A i \in Instances : Processes(i) = {}

\* What an execution is saved with.
Saved(operation, o, g, updated) ==
  /\ op' = operation /\ options' = o /\ graph' = g
  /\ \/ /\ operation = "deployment"
        /\ deployed' = updated
        /\ world' = [i \in Instances |-> world[i] \ {"instance"}]
        /\ UNCHANGED info
     \/ /\ operation # "deployment"
        /\ info' = updated
        /\ UNCHANGED <<deployed, world>>

\* _begin_tasks finds no worker for a first task of an execution which was not
\* waiting for minions: it is cancelled while UNEXECUTED, so that nothing is
\* advanced and what waits is stranded.
NeverBegun(g, created) ==
  {[i \in Instances |-> StrandedStatuses(
      CanceledStatuses(g[i], IF i = j THEN BegunWithout(created[i], u)
                             ELSE created[i], FALSE, {}))] :
     <<j, u>> \in {<<i, t>> \in Instances \X TaskTypes :
                    t \in DOMAIN created[i] /\ Parents(g[i], t) = {}}}

\* The execution's tasks are created and checked.  It is saved with the updated
\* info, and begun unless minions are needed.
Execute(operation, o, updated, needs_minions) ==
  LET g == [i \in Instances |-> Graph(operation, o, i)]
      created == [i \in Instances |-> CreatedStatuses(g[i])]
      errors == {CheckExecutionTasksSanity(g[i], updated[i]) : i \in Instances}
      idle == [i \in Instances |-> [t \in DOMAIN created[i] |-> "none"]]
  IN
  /\ operation \in Operations
  /\ requests' = requests - 1
  /\ \/ /\ errors # {"none"}
        /\ refused' = CHOOSE e \in errors : e # "none"
        /\ UNCHANGED <<op, options, graph, phase, status, worker, info, deployed,
                       world, failures>>
     \/ /\ errors = {"none"}
        /\ Saved(operation, o, g, updated)
        /\ phase' = IF needs_minions THEN "awaiting" ELSE "running"
        /\ status' = IF needs_minions THEN created
                     ELSE [i \in Instances |-> BegunStatuses(g[i], created[i])]
        /\ worker' = Handed(status', idle)
        /\ UNCHANGED <<refused, failures>>
     \/ /\ errors = {"none"} /\ ~needs_minions /\ failures > 0
        /\ failures' = failures - 1
        /\ Saved(operation, o, g, updated)
        /\ status' \in NeverBegun(g, created)
        /\ worker' = idle
        /\ UNCHANGED <<phase, refused>>
  /\ UNCHANGED <<minions, spoiled, pools, executed, canceled>>

\* The info with the current parameters, and no minion yet where one is needed.
TransferInfo(i, o) ==
  [f \in Fields |->
     CASE f \in {"source_environment", "target_environment"} -> "set"
       [] f \in OriginMinionFields /\ o.origin_minion_pool_id -> "none"
       [] f \in DestinationMinionFields /\ o.destination_minion_pool_id -> "none"
       [] OTHER -> info[i][f]]

ExecuteTransferTasks(o) ==
  LET updated == [i \in Instances |-> TransferInfo(i, o)]
  IN /\ NoRunningExecutions
     /\ \A f \in PoolFields : o[f] = pools[f]
     /\ Execute("transfer", o, updated, \E f \in PoolFields : pools[f])
     /\ UNCHANGED requested

\* The API passes the minion pools only when the user gave them, and the other
\* parameters always; the new values go to the task info.
UpdatedInfo(i, body) ==
  [f \in Fields |->
     CASE f \in {"source_environment", "target_environment", "clone_disks",
                 "user_scripts"} -> "set"
       [] f \in DOMAIN body -> IF body[f] THEN "set" ELSE "none"
       [] OTHER -> info[i][f]]

UpdateTransfer(body) ==
  LET updated == [i \in Instances |-> UpdatedInfo(i, body)]
  IN /\ NoRunningExecutions
     /\ Execute("update", options, updated, FALSE)
     /\ requested' = [f \in PoolFields |->
                        IF f \in DOMAIN body THEN body[f] ELSE pools[f]]

DeleteTransferDisks ==
  LET updated == [i \in Instances |->
                    [info[i] EXCEPT !["target_environment"] = "set"]]
  IN /\ NoRunningExecutions
     /\ \E i \in Instances : info[i]["volumes_info"] \notin Empty
     /\ Execute("delete_disks", options, updated, FALSE)
     /\ UNCHANGED requested

DeploymentInfo(i, o) ==
  [f \in Fields |->
     CASE f \in {"clone_disks", "user_scripts", "source_environment",
                 "target_environment"} -> "set"
       [] f \in OSMorphingMinionFields /\ MorphsOnMinion(o) -> "none"
       [] OTHER -> info[i][f]]

ExecuteDeployment(o, force) ==
  LET updated == [i \in Instances |-> DeploymentInfo(i, o)]
  IN /\ NoRunningExecutions
     /\ executed \/ force
     /\ \A i \in Instances : info[i]["volumes_info"] \notin Empty
     /\ Execute("deployment", o, updated, MorphsOnMinion(o))
     /\ UNCHANGED requested

-----------------------------------------------------------------------------
(***************************************************************************)
(* The allocation of minions                                               *)
(***************************************************************************)

NeededRoles ==
  IF op = "deployment" THEN {"osmorphing"}
  ELSE {r \in {"origin", "destination"} :
          pools[IF r = "origin" THEN "origin_minion_pool_id"
                ELSE "destination_minion_pool_id"]}

\* _update_task_info_for_minion_allocations
WithMinions(fields) ==
  [f \in Fields |->
     IF f \in UNION {MinionFields(r) : r \in NeededRoles} THEN "minion"
     ELSE fields[f]]

\* The minions are written down and the tasks begun, unless a first one of them
\* finds no worker: the execution, which counts as active, is then cancelled and
\* advanced.
ConfirmMinionsAllocation ==
  /\ phase = "awaiting"
  /\ \/ /\ op = "deployment"
        /\ deployed' = [i \in Instances |-> WithMinions(deployed[i])]
        /\ UNCHANGED info
     \/ /\ op # "deployment"
        /\ info' = [i \in Instances |-> WithMinions(info[i])]
        /\ UNCHANGED deployed
  /\ \/ /\ phase' = "running"
        /\ minions' = [i \in Instances |-> NeededRoles]
        /\ status' = [i \in Instances |-> BegunStatuses(graph[i], status[i])]
        /\ worker' = Handed(status', worker)
        /\ UNCHANGED <<world, spoiled, executed, failures>>
     \/ /\ failures > 0
        /\ failures' = failures - 1
        /\ \E i \in Instances : \E u \in DOMAIN status[i] :
             /\ Parents(graph[i], u) = {}
             /\ Finish(Advanced(Canceled([status EXCEPT ![i] = BegunWithout(@, u)],
                                         FALSE, {})),
                       worker, world, minions, spoiled)
  /\ UNCHANGED <<op, options, graph, pools, requested, refused, canceled, requests>>

\* The execution's tasks are cancelled without having been begun.
ReportMinionsAllocationError ==
  /\ phase = "awaiting" /\ failures > 0
  /\ failures' = failures - 1
  /\ Finish(Advanced(Canceled(status, FALSE, {})), worker, world, minions, spoiled)
  /\ UNCHANGED <<op, options, graph, info, deployed, pools, requested, refused,
                 canceled, requests>>

-----------------------------------------------------------------------------
(***************************************************************************)
(* The reports about tasks                                                 *)
(***************************************************************************)

\* OSMorphing adapts the replica's own disks unless they were cloned.
Created(t) ==
  TASKS_MAP[t].creates \ (IF options.clone_disks THEN {"morphed"} ELSE {})

\* Restoring takes snapshots to restore.
Destroyed(i, t) ==
  TASKS_MAP[t].destroys \ (IF "snapshots" \in world[i] THEN {} ELSE {"morphed"})

AfterWorkOf(i, t) ==
  [world EXCEPT ![i] = (@ \cup Created(t)) \ Destroyed(i, t)]

\* _handle_post_task_actions: what becomes of the transfer's info.
PostTaskInfo(i, t, result) ==
  CASE t = "RESTORE_TRANSFER_DISK_SNAPSHOTS"
         /\ result["volumes_info"] \notin Empty ->
         [info EXCEPT ![i]["volumes_info"] = result["volumes_info"]]
    [] t = "DELETE_TRANSFER_TARGET_DISK_SNAPSHOTS" /\ ~options.clone_disks ->
         [info EXCEPT ![i]["volumes_info"] = "none"]
    [] OTHER -> info

\* db.api.update_transfer, with the task info of the instance whose update was
\* the last to complete.
SavedPools(fields) ==
  [f \in PoolFields |-> IF fields[f] = "absent" THEN pools[f]
                        ELSE fields[f] = "set"]

PostTaskPools(i, t, s, fields) ==
  IF /\ t = "UPDATE_DESTINATION_TRANSFER"
     /\ \A j \in Instances : ActiveTasks(s[j]) = {}
  THEN SavedPools(fields) ELSE pools

PostTaskMinions(i, t) ==
  [minions EXCEPT ![i] = @ \
     CASE t = "RELEASE_SOURCE_MINION" -> {"origin"}
       [] t = "RELEASE_DESTINATION_MINION" -> {"destination"}
       [] t = "RELEASE_OSMORPHING_MINION" -> {"osmorphing"}
       [] OTHER -> {}]

\* set_task_host and set_task_process: the task has a process from here on.
SetTaskProcess(i, t) ==
  /\ worker[i][t] = "handed" /\ status[i][t] = "PENDING"
  /\ status' = [status EXCEPT ![i][t] = "RUNNING"]
  /\ worker' = [worker EXCEPT ![i][t] = "running"]
  /\ UNCHANGED <<op, options, graph, phase, info, deployed, world, minions, spoiled,
                 parameters, budgets>>

\* Reports that a task has ended change nothing once it is finalized.
Settled == FINALIZED_TASK_STATUSES \ {"FAILED_TO_CANCEL"}

BeingCanceled ==
  {"CANCELLING", "CANCELLING_AFTER_COMPLETION", "FAILED_TO_CANCEL"}

\* What a task makes which completes although it could not be stopped: whoever is to
\* dispose of it may have been done with before.
Overdue(i, t) ==
  IF status[i][t] = "FAILED_TO_CANCEL" THEN Created(t) ELSE {}

\* The result is merged into the action's task info, the post-task actions
\* follow, and the tasks of the instance are advanced.
TaskCompleted(i, t) ==
  /\ worker[i][t] = "running" /\ status[i][t] \notin Settled
  /\ LET result == Result(t, TaskInfo(i))
         merged == [f \in Fields |-> IF f \in DOMAIN result THEN result[f]
                                     ELSE TaskInfo(i)[f]]
         done == IF status[i][t] \in BeingCanceled
                 THEN "CANCELED_AFTER_COMPLETION" ELSE "COMPLETED"
         s == [status EXCEPT ![i][t] = done]
     IN /\ \/ /\ op = "deployment"
              /\ deployed' = [deployed EXCEPT ![i] = merged]
              /\ info' = PostTaskInfo(i, t, result)
           \/ /\ op # "deployment"
              /\ info' = [info EXCEPT ![i] = merged]
              /\ UNCHANGED deployed
        /\ pools' = PostTaskPools(i, t, s, merged)
        /\ Finish([s EXCEPT ![i] = AdvancedStatuses(graph[i], @)],
                  [worker EXCEPT ![i][t] = "ended"],
                  AfterWorkOf(i, t), PostTaskMinions(i, t),
                  [spoiled EXCEPT ![i] = @ \cup Overdue(i, t)])
  /\ UNCHANGED <<op, options, graph, requested, refused, budgets>>

\* What is left without anyone to dispose of it when t ends without a result,
\* having done its work or not.
Spoils(t, acted) ==
  TASKS_MAP[t].destroys \cup
    (IF acted THEN TASKS_MAP[t].creates \ {"morphed"} ELSE {})

EndsWithoutResult(i, t, acted, s) ==
  /\ Finish(IF phase = "idle" THEN s ELSE Advanced(s),
            [worker EXCEPT ![i][t] = "ended"],
            IF acted THEN AfterWorkOf(i, t) ELSE world, minions,
            [spoiled EXCEPT ![i] = @ \cup Spoils(t, acted)])
  /\ UNCHANGED <<op, options, graph, info, deployed, pools, requested, refused,
                 canceled, requests>>

\* An error overrides every status but those of tasks being cancelled, and the
\* execution is cancelled.
Errored(i, t) ==
  CanceledByError([status EXCEPT ![i][t] =
    CASE @ \in BeingCanceled -> "CANCELED"
      [] @ = "FORCE_CANCELED" -> "FORCE_CANCELED"
      [] OTHER -> "ERROR"])

\* The provider fails or _run refuses what it returned.  A failed OSMorphing has
\* changed the disks or not.
SetTaskError(i, t, acted) ==
  /\ worker[i][t] = "running" /\ failures > 0
  /\ acted => TASKS_MAP[t].rejects \/ t = "OS_MORPHING"
  /\ failures' = failures - 1
  /\ \E s \in Errored(i, t) : EndsWithoutResult(i, t, acted, s)

\* A worker is refused a task which was given up before it had a process, and
\* reports that as an error.
RefusedTask(i, t) ==
  /\ worker[i][t] = "handed" /\ status[i][t] # "PENDING"
  /\ \E s \in Errored(i, t) : EndsWithoutResult(i, t, FALSE, s)
  /\ UNCHANGED failures

\* A task which was interrupted may have done its work already.
ConfirmTaskCancellation(i, t, acted) ==
  /\ worker[i][t] = "running"
  /\ status[i][t] \in {"CANCELLING", "FAILED_TO_CANCEL"}
  /\ EndsWithoutResult(i, t, acted, [status EXCEPT ![i][t] = "CANCELED"])
  /\ UNCHANGED failures

\* The process of a task which was given up by force ends in its own time.  Its
\* result is dropped.
EndsUnheard(i, t, acted) ==
  /\ worker[i][t] = "running" /\ status[i][t] \in Settled
  /\ EndsWithoutResult(i, t, acted, status)
  /\ UNCHANGED failures

\* cancel_transfer_tasks_execution, cancel_deployment
CancelTasksExecution(force, unheard) ==
  /\ phase # "idle" /\ requests > 0
  /\ force \/ ~Cancelling
  /\ unheard \subseteq IF force THEN {} ELSE Asked(status)
  /\ canceled' = TRUE
  /\ requests' = requests - 1
  /\ Finish(Advanced(Canceled(status, force, unheard)), worker, world, minions,
            spoiled)
  /\ UNCHANGED <<op, options, graph, info, deployed, pools, requested, refused,
                 failures>>

-----------------------------------------------------------------------------
Bodies == UNION {[given -> BOOLEAN] : given \in SUBSET PoolFields}

User ==
  \/ \E o \in TransferOptions : ExecuteTransferTasks(o)
  \/ \E o \in DeploymentOptions, force \in BOOLEAN : ExecuteDeployment(o, force)
  \/ DeleteTransferDisks
  \/ \E body \in Bodies : UpdateTransfer(body)
  \/ \E force \in BOOLEAN, unheard \in SUBSET Asked(status) :
       CancelTasksExecution(force, unheard)

System ==
  \/ ConfirmMinionsAllocation
  \/ ReportMinionsAllocationError
  \/ \E i \in Instances : \E t \in DOMAIN status[i] :
       \/ SetTaskProcess(i, t) \/ TaskCompleted(i, t) \/ RefusedTask(i, t)
       \/ \E acted \in BOOLEAN :
            \/ SetTaskError(i, t, acted) \/ ConfirmTaskCancellation(i, t, acted)
            \/ EndsUnheard(i, t, acted)

Next == User \/ System

Spec == Init /\ [][Next]_vars

-----------------------------------------------------------------------------
(***************************************************************************)
(* Properties                                                              *)
(***************************************************************************)

\* Every execution which the conductor builds passes its own check, whatever
\* executions came before it and however they ended: no operation that is
\* accepted ends in a TaskParametersException, a TaskFieldsConflict or another
\* error of _check_execution_tasks_sanity.
SanityPasses == refused = "none"

\* No task which has been handed to a worker can fail for want of something in
\* its task info: on every path, the ones of failures and cancellations
\* included, what TaskRunner.run requires is there by the time a task is
\* started, and what _run refuses when empty is not empty.
RunnersServed ==
  \A i \in Instances : \A t \in ActiveTasks(status[i]) : Runs(t, TaskInfo(i))

Writes(t) == TASKS_MAP[t].returned

Snapshots ==
  {"DELETE_TRANSFER_TARGET_DISK_SNAPSHOTS", "RESTORE_TRANSFER_DISK_SNAPSHOTS"}

\* The tasks of i whose result is still going to be merged: the active ones and
\* those which could not be cancelled.
Writers(i) ==
  ActiveTasks(status[i]) \cup
    {t \in Processes(i) : status[i][t] = "FAILED_TO_CANCEL"}

\* What _check_execution_tasks_sanity checks of the plan holds of the run, on
\* the paths of failures and cancellations as well: two tasks of an instance
\* never write the same field of its task info at the same time.  There are two
\* exceptions: the two ends a deployment's snapshots may come to; and a task whose
\* cancellation could not be requested, which goes on while the cleanup runs (but
\* while nothing else does) and whose late result task_completed merges over the
\* cleanup's.
NoConcurrentWriters ==
  \A i \in Instances : \A t, u \in Writers(i) :
    t # u /\ Writes(t) \cap Writes(u) # {} =>
      \/ {t, u} = Snapshots
      \/ \E v \in {t, u} : /\ status[i][v] = "FAILED_TO_CANCEL"
                           /\ \A w \in {t, u} \ {v} : TaskOf(graph[i], w).on_error

\* _check_execution_tasks_sanity refuses executions with "fields which will
\* encounter a state conflict following the parallelized execution of tasks":
\* no two tasks of an instance write the same field at the same time, as long
\* as no user interferes.
NoStateConflict ==
  ~canceled => \A i \in Instances : ~Conflict(ActiveTasks(status[i]))

\* No task which is scheduled from the start depends on one that waits for an
\* error, which is what keeps an execution from being stranded.
GraphsRegular ==
  \A i \in Instances :
    LET g == graph[i]
        created == CreatedStatuses(g)
        fresh == phase # "idle" /\ \A t \in DOMAIN created :
                   worker[i][t] \in {"none", "handed"}
    IN fresh => \A t \in DOMAIN created : created[t] = "SCHEDULED" =>
                  \A d \in Parents(g, t) : created[d] = "SCHEDULED"

Temporary == {"source", "target", "osmorphing", "attached", "osmorphing_attached"}

\* Nothing temporary outlives an execution, however it ends: the workers and
\* the attachments to minions which any of its tasks made are gone once it is
\* finalized.  There are four exceptions: what was made by a task which ended without
\* a result, or by one which went on after its cancellation had failed
\* (FAILED_TO_CANCEL); and what was to be removed by a task which failed, or which a
\* user's cancellation unscheduled before it ran or gave up by force.
NothingLeft ==
  phase = "idle" =>
    \A i \in Instances : world[i] \cap Temporary \subseteq spoiled[i]

\* The conductor knows the replica's disks: between executions the transfer has
\* volumes on record for an instance if and only if its disks exist and have
\* not become a deployed instance's (_handle_post_task_actions), unless a task
\* died with its result, was given up or could not be cancelled, or a deployment was
\* completed and undone at once.
DisksKnown ==
  phase = "idle" =>
    \A i \in Instances : spoiled[i] \cap {"disks", "instance"} = {} =>
      ("disks" \in world[i] <=> info[i]["volumes_info"] \notin Empty)

\* A replica is never left with disks which OSMorphing has changed: a deployment
\* that fails restores their snapshots, unless that fails too, is given up or what
\* it needs for it was lost, or a user stopped the deployment.
ReplicaIntact ==
  phase = "idle" /\ ~canceled =>
    \A i \in Instances :
      {"disks", "morphed"} \subseteq world[i] =>
        spoiled[i] \cap {"morphed", "snapshots", "instance"} # {}

\* A deployment which does not succeed leaves no instance behind, unless the
\* task which created it died with its result or could not be cancelled, or its
\* removal failed or was given up.
NoOrphanInstance ==
  phase = "idle" /\ op = "deployment" /\ ~AllCompleted(status) =>
    \A i \in Instances : "instance" \in world[i] => "instance" \in spoiled[i]

\* A minion goes back to its pool with nothing attached to it, unless the
\* detachment failed or was given up: RELEASE_* never overtakes DETACH_*.
ReleasedDetached ==
  \A i \in Instances :
    /\ "attached" \in world[i] \ spoiled[i] => "destination" \in minions[i]
    /\ "osmorphing_attached" \in world[i] \ spoiled[i] =>
         "osmorphing" \in minions[i]

\* The tasks which delete temporary resources never act upon those of a pool's
\* machine, even when the transfer's pools have changed since the fields were
\* written.
DeletesOwn ==
  \A i \in Instances : \A t \in ActiveTasks(status[i]) :
    LET fields == TaskInfo(i)
    IN /\ t = "DELETE_TRANSFER_SOURCE_RESOURCES" =>
            fields["source_resources"] # "minion"
       /\ t = "DELETE_TRANSFER_TARGET_RESOURCES" =>
            fields["target_resources"] # "minion"
       /\ t = "DELETE_OS_MORPHING_RESOURCES" =>
            fields["os_morphing_resources"] # "minion"

\* An update which completes gives the transfer the parameters it was asked for,
\* those it was given and no others, provided none has failed before it.
UpdateApplied ==
  phase = "idle" /\ op = "update" /\ AllCompleted(status)
    /\ failures = MaxFailures /\ ~canceled => pools = requested

\* "The actual values on the Transfer object itself will be set during
\* _handle_post_task_actions once the final destination-side update task will
\* be completed" (update_transfer): an update which completes gives the
\* transfer the parameters it was asked for.
UpdateAppliesItsOwn ==
  phase = "idle" /\ op = "update" /\ AllCompleted(status) => pools = requested

\* No execution ends with tasks which were never decided upon: whatever fails
\* or is cancelled, when none of its tasks is active none is left scheduled, so
\* that no execution whose first tasks found their workers is ever DEADLOCKED.
NothingStranded ==
  phase = "idle" =>
    \A i \in Instances : \A t \in DOMAIN status[i] : status[i][t] # "SCHEDULED"

\* What an execution was built with suffices for all of it: it passes the check of
\* _check_execution_tasks_sanity, nothing in it waits for what only an error starts,
\* no task is started without what its runner reads, on the paths of failures and
\* cancellations too, and none deletes resources which belong to a pool.
TasksServed == SanityPasses /\ GraphsRegular /\ RunnersServed /\ DeletesOwn

\* An execution which is over, however it ended, leaves nothing: no task undecided,
\* no temporary resource, no instance of a failed deployment; and no minion goes
\* back to its pool with something attached.  Excepted is what was made by a task
\* whose result did not come or came after its cancellation had failed, and what the
\* task to remove it did not remove: it failed, or a user's cancellation unscheduled
\* it while it was pending or gave it up by force (cancel_tasks_execution spares no
\* on-error task which has already been scheduled).
NothingLeftBehind ==
  NothingStranded /\ NothingLeft /\ NoOrphanInstance /\ ReleasedDetached

\* Between executions a transfer's record is right (_handle_post_task_actions): it has
\* volumes if and only if the replica has disks, these are as the last transfer
\* execution left them and not as a failed deployment's OSMorphing did, and it has
\* the parameters of the update which completed.
RecordIsRight == TypeOK /\ DisksKnown /\ ReplicaIntact /\ UpdateApplied
=============================================================================

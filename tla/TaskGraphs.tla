----------------------------- MODULE TaskGraphs -----------------------------
(***************************************************************************)
(* The tasks which the conductor creates for one instance in every type of *)
(* execution, the check it makes of them before saving the execution       *)
(* (_check_execution_tasks_sanity), and the decisions about their statuses *)
(* as functions of the statuses: TasksExecution has their interleavings.   *)
(*                                                                         *)
(* A graph is a sequence of tasks in their order of creation.  No type of  *)
(* task occurs twice for an instance, so types stand for task IDs.         *)
(***************************************************************************)
EXTENDS Statuses, TaskRunners, Integers, SequencesExt

\* What the tasks to create depend on: the transfer's minion pools, its
\* parameters, those of the deployment, and the destination's provider types.
Options ==
  [origin_minion_pool_id : BOOLEAN, destination_minion_pool_id : BOOLEAN,
   osmorphing_minion_pool : BOOLEAN, shutdown_instances : BOOLEAN,
   clone_disks : BOOLEAN, skip_os_morphing : BOOLEAN,
   instance_flavor : BOOLEAN]

Task(type, depends_on) ==
  <<[type |-> type, depends_on |-> depends_on, on_error |-> FALSE,
     on_error_only |-> FALSE]>>

OnError(task) == <<[task[1] EXCEPT !.on_error = TRUE]>>

OnErrorOnly(task) ==
  <<[task[1] EXCEPT !.on_error = TRUE, !.on_error_only = TRUE]>>

When(condition, tasks) == IF condition THEN tasks ELSE <<>>

One(condition, type, otherwise) == {IF condition THEN type ELSE otherwise}

-----------------------------------------------------------------------------
(***************************************************************************)
(* execute_transfer_tasks                                                  *)
(***************************************************************************)

\* Inputs are validated, the pools' machines included, before disks are made.
ValidationTasks(o) ==
  Task("VALIDATE_TRANSFER_SOURCE_INPUTS", {})
  \o Task("GET_INSTANCE_INFO", {})
  \o Task("VALIDATE_TRANSFER_DESTINATION_INPUTS", {"GET_INSTANCE_INFO"})
  \o When(o.origin_minion_pool_id,
          Task("VALIDATE_SOURCE_MINION_POOL_COMPATIBILITY",
               {"GET_INSTANCE_INFO", "VALIDATE_TRANSFER_SOURCE_INPUTS"}))
  \o When(o.destination_minion_pool_id,
          Task("VALIDATE_DESTINATION_MINION_POOL_COMPATIBILITY",
               {"VALIDATE_TRANSFER_DESTINATION_INPUTS"}))
  \o Task("DEPLOY_TRANSFER_DISKS",
          One(o.origin_minion_pool_id,
              "VALIDATE_SOURCE_MINION_POOL_COMPATIBILITY",
              "VALIDATE_TRANSFER_SOURCE_INPUTS")
          \cup One(o.destination_minion_pool_id,
                   "VALIDATE_DESTINATION_MINION_POOL_COMPATIBILITY",
                   "VALIDATE_TRANSFER_DESTINATION_INPUTS"))

WorkersReady(o) ==
  {t \in One(o.origin_minion_pool_id, "none",
             "DEPLOY_TRANSFER_SOURCE_RESOURCES") : t # "none"}
  \cup One(o.destination_minion_pool_id, "ATTACH_VOLUMES_TO_DESTINATION_MINION",
           "DEPLOY_TRANSFER_TARGET_RESOURCES")

ReplicationTasks(o) ==
  When(~o.origin_minion_pool_id,
       Task("DEPLOY_TRANSFER_SOURCE_RESOURCES", {"DEPLOY_TRANSFER_DISKS"}))
  \o Task(IF o.destination_minion_pool_id
          THEN "ATTACH_VOLUMES_TO_DESTINATION_MINION"
          ELSE "DEPLOY_TRANSFER_TARGET_RESOURCES", {"DEPLOY_TRANSFER_DISKS"})
  \o When(o.shutdown_instances, Task("SHUTDOWN_INSTANCE", WorkersReady(o)))
  \o Task("REPLICATE_DISKS",
          IF o.shutdown_instances THEN {"SHUTDOWN_INSTANCE"}
          ELSE WorkersReady(o))

\* Whatever serves the replication is disposed of once it is over, or once it
\* can no longer take place.
SourceCleanup(o) ==
  IF o.origin_minion_pool_id
  THEN OnError(Task("RELEASE_SOURCE_MINION",
                    {"VALIDATE_SOURCE_MINION_POOL_COMPATIBILITY",
                     "REPLICATE_DISKS"}))
  ELSE OnError(Task("DELETE_TRANSFER_SOURCE_RESOURCES",
                    {"DEPLOY_TRANSFER_SOURCE_RESOURCES", "REPLICATE_DISKS"}))

DetachAndRelease ==
  OnError(Task("DETACH_VOLUMES_FROM_DESTINATION_MINION",
               {"ATTACH_VOLUMES_TO_DESTINATION_MINION", "REPLICATE_DISKS"}))
  \o OnError(Task("RELEASE_DESTINATION_MINION",
                  {"VALIDATE_DESTINATION_MINION_POOL_COMPATIBILITY",
                   "DETACH_VOLUMES_FROM_DESTINATION_MINION"}))

DeleteTargetResources ==
  Task("DELETE_TRANSFER_TARGET_RESOURCES",
       {"DEPLOY_TRANSFER_TARGET_RESOURCES", "REPLICATE_DISKS"})

TargetCleanup(o) ==
  IF o.destination_minion_pool_id THEN DetachAndRelease
  ELSE OnError(DeleteTargetResources)

TransferTasks(o) ==
  ValidationTasks(o) \o ReplicationTasks(o) \o SourceCleanup(o)
    \o TargetCleanup(o)

-----------------------------------------------------------------------------
(***************************************************************************)
(* delete_transfer_disks, update_transfer                                  *)
(***************************************************************************)

DeleteDisksTasks ==
  Task("DELETE_TRANSFER_SOURCE_DISK_SNAPSHOTS", {})
  \o Task("DELETE_TRANSFER_DISKS", {"DELETE_TRANSFER_SOURCE_DISK_SNAPSHOTS"})

\* Mutant: the two sides are updated at the same time.
UpdateTasksInParallel ==
  Task("GET_INSTANCE_INFO", {})
  \o Task("UPDATE_SOURCE_TRANSFER", {})
  \o Task("UPDATE_DESTINATION_TRANSFER", {"GET_INSTANCE_INFO"})

UpdateTasks ==
  Task("GET_INSTANCE_INFO", {})
  \o Task("UPDATE_SOURCE_TRANSFER", {})
  \o Task("UPDATE_DESTINATION_TRANSFER",
          {"GET_INSTANCE_INFO", "UPDATE_SOURCE_TRANSFER"})

-----------------------------------------------------------------------------
(***************************************************************************)
(* _execute_deployment                                                     *)
(***************************************************************************)

MorphsOnMinion(o) == ~o.skip_os_morphing /\ o.osmorphing_minion_pool

InstanceTasks(o) ==
  Task("VALIDATE_DEPLOYMENT_INPUTS", {})
  \o When(MorphsOnMinion(o),
          Task("VALIDATE_OSMORPHING_MINION_POOL_COMPATIBILITY",
               {"VALIDATE_DEPLOYMENT_INPUTS"}))
  \o Task("CREATE_TRANSFER_DISK_SNAPSHOTS",
          One(MorphsOnMinion(o), "VALIDATE_OSMORPHING_MINION_POOL_COMPATIBILITY",
              "VALIDATE_DEPLOYMENT_INPUTS"))
  \o Task("DEPLOY_INSTANCE_RESOURCES", {"CREATE_TRANSFER_DISK_SNAPSHOTS"})

OSMorphingTasks(o) ==
  IF o.osmorphing_minion_pool
  THEN Task("ATTACH_VOLUMES_TO_OSMORPHING_MINION",
            {"VALIDATE_OSMORPHING_MINION_POOL_COMPATIBILITY",
             "DEPLOY_INSTANCE_RESOURCES"})
       \o Task("COLLECT_OSMORPHING_INFO", {"ATTACH_VOLUMES_TO_OSMORPHING_MINION"})
       \o Task("OS_MORPHING", {"COLLECT_OSMORPHING_INFO"})
       \o OnError(Task("DETACH_VOLUMES_FROM_OSMORPHING_MINION",
                       {"ATTACH_VOLUMES_TO_OSMORPHING_MINION", "OS_MORPHING"}))
       \o OnError(Task("RELEASE_OSMORPHING_MINION",
                       {"VALIDATE_OSMORPHING_MINION_POOL_COMPATIBILITY",
                        "DETACH_VOLUMES_FROM_OSMORPHING_MINION"}))
  ELSE Task("DEPLOY_OS_MORPHING_RESOURCES", {"DEPLOY_INSTANCE_RESOURCES"})
       \o Task("OS_MORPHING", {"DEPLOY_OS_MORPHING_RESOURCES"})
       \o OnError(Task("DELETE_OS_MORPHING_RESOURCES",
                       {"DEPLOY_OS_MORPHING_RESOURCES", "OS_MORPHING"}))

\* The tasks after which the instance may be finalized.
InstanceReady(o) ==
  IF o.skip_os_morphing THEN {"DEPLOY_INSTANCE_RESOURCES"}
  ELSE {"OS_MORPHING"} \cup
         One(o.osmorphing_minion_pool, "RELEASE_OSMORPHING_MINION",
             "DELETE_OS_MORPHING_RESOURCES")

FinalizationTasks(o) ==
  When(o.instance_flavor, Task("GET_OPTIMAL_FLAVOR", InstanceReady(o)))
  \o Task("FINALIZE_INSTANCE_DEPLOYMENT",
          IF o.instance_flavor THEN {"GET_OPTIMAL_FLAVOR"} ELSE InstanceReady(o))

DeleteSnapshots(o) ==
  LET task == Task("DELETE_TRANSFER_TARGET_DISK_SNAPSHOTS",
                   {"CREATE_TRANSFER_DISK_SNAPSHOTS",
                    "FINALIZE_INSTANCE_DEPLOYMENT"})
  IN IF o.clone_disks THEN OnError(task) ELSE task

CleanupFailedDeployment(parents) ==
  OnErrorOnly(Task("CLEANUP_FAILED_INSTANCE_DEPLOYMENT", parents))

\* Mutant: the replica's snapshots are not restored after a failure.
DeploymentCleanupWithoutRestore(o) ==
  DeleteSnapshots(o)
  \o CleanupFailedDeployment({"DEPLOY_INSTANCE_RESOURCES",
                              "FINALIZE_INSTANCE_DEPLOYMENT"})

\* Mutant: a failed deployment of clones is not cleaned up before it is final.
DeploymentCleanupAfterFinalize(o) ==
  DeleteSnapshots(o)
  \o CleanupFailedDeployment({"FINALIZE_INSTANCE_DEPLOYMENT"} \cup
       {t \in {"DEPLOY_INSTANCE_RESOURCES"} : ~o.clone_disks})
  \o When(~o.clone_disks,
          OnError(Task("RESTORE_TRANSFER_DISK_SNAPSHOTS",
                       {"CLEANUP_FAILED_INSTANCE_DEPLOYMENT"})))

\* A replica whose disks were not cloned gets them back when the deployment
\* fails.
DeploymentCleanup(o) ==
  DeleteSnapshots(o)
  \o CleanupFailedDeployment({"DEPLOY_INSTANCE_RESOURCES",
                              "FINALIZE_INSTANCE_DEPLOYMENT"})
  \o When(~o.clone_disks,
          OnError(Task("RESTORE_TRANSFER_DISK_SNAPSHOTS",
                       {"CLEANUP_FAILED_INSTANCE_DEPLOYMENT"})))

DeploymentTasks(o) ==
  InstanceTasks(o) \o When(~o.skip_os_morphing, OSMorphingTasks(o))
    \o FinalizationTasks(o) \o DeploymentCleanup(o)

-----------------------------------------------------------------------------
(***************************************************************************)
(* _check_execution_tasks_sanity: the tasks are gone through in rounds of  *)
(* those which would be queued together.                                   *)
(***************************************************************************)

Types(g) == {g[i].type : i \in DOMAIN g}

TaskOf(g, type) == g[CHOOSE i \in DOMAIN g : g[i].type = type]

Parents(g, type) == TaskOf(g, type).depends_on

Queued(g, processed) ==
  {t \in Types(g) \ processed : Parents(g, t) \subseteq processed}

Conflict(types) ==
  \E t, u \in types :
    t # u /\ TASKS_MAP[t].returned \cap TASKS_MAP[u].returned # {}

\* One round: the tasks gone through, the fields there are by then, and the
\* exception raised, if any.
CheckQueued(g, acc) ==
  LET queued == Queued(g, acc.processed)
      error ==
        CASE \E t \in Types(g) : ~(Parents(g, t) \subseteq Types(g)) ->
               "TaskDependencyException"
          [] queued = {} -> "ExecutionDeadlockException"
          [] \E t \in queued : ~(TASKS_MAP[t].required \subseteq acc.keys) ->
               "TaskParametersException"
          [] Conflict(queued) -> "TaskFieldsConflict"
          [] OTHER -> "none"
  IN IF acc.error # "none" \/ acc.processed = Types(g) THEN acc
     ELSE [processed |-> acc.processed \cup queued,
           keys |-> acc.keys \cup UNION {TASKS_MAP[t].returned : t \in queued},
           error |-> error]

CheckExecutionTasksSanity(g, info) ==
  FoldLeft(LAMBDA acc, i : CheckQueued(g, acc),
           [processed |-> {}, error |-> "none",
            keys |-> {f \in Fields : info[f] # "absent"}],
           [i \in DOMAIN g |-> i]).error

-----------------------------------------------------------------------------
(***************************************************************************)
(* The decisions about statuses.  s is a function from the graph's types.  *)
(***************************************************************************)

\* _create_task, one task after the other.
CreateTask(s, task) ==
  LET waits == \/ task.on_error_only
               \/ /\ task.on_error
                  /\ task.depends_on # {}
                  /\ \A d \in task.depends_on : s[d] = "EXECUTE_ON_ERROR_ONLY"
  IN [t \in DOMAIN s \cup {task.type} |->
        IF t # task.type THEN s[t]
        ELSE IF waits THEN "EXECUTE_ON_ERROR_ONLY" ELSE "SCHEDULED"]

CreatedStatuses(g) == FoldLeft(CreateTask, <<>>, g)

\* _begin_tasks
BegunStatuses(g, s) ==
  [t \in DOMAIN s |-> IF s[t] = "SCHEDULED" /\ Parents(g, t) = {}
                      THEN "PENDING" ELSE s[t]]

Plain(g, types) == {t \in types : ~TaskOf(g, t).on_error}

\* Mutant: cleanup runs whatever became of its parents.
MayStartRegardless(g, task, s) ==
  task.on_error \/ \A d \in task.depends_on : s[d] = "COMPLETED"

\* The parents of a task which is due let it start.
MayStart(g, task, s) ==
  LET parents == task.depends_on
  IN \/ parents = {}
     \/ /\ ~task.on_error
        /\ \A d \in parents : s[d] = "COMPLETED"
     \/ /\ task.on_error
        /\ Plain(g, parents) = {}
        /\ \E d \in parents : s[d] = "COMPLETED"
     \/ /\ task.on_error
        /\ \E d \in Plain(g, parents) : s[d] \in CLEANUP_TASK_TRIGGER_STATUSES

\* _advance_execution_state: the tasks are looked at in their order, so that
\* those a task depends on have been decided upon before.
AdvanceTask(g, s, task) ==
  IF \/ s[task.type] # "SCHEDULED"
     \/ \E d \in task.depends_on : s[d] \notin FINALIZED_TASK_STATUSES
  THEN s
  ELSE [s EXCEPT ![task.type] =
          IF MayStart(g, task, s) THEN "PENDING" ELSE "UNSCHEDULED"]

AdvancedStatuses(g, s) ==
  FoldLeft(LAMBDA acc, task : AdvanceTask(g, acc, task), s, g)

\* _begin_tasks, no worker being found for the first task u; and what
\* _check_clean_execution_deadlock makes of the tasks left waiting.
BegunWithout(s, u) == [s EXCEPT ![u] = "FAILED_TO_SCHEDULE"]

StrandedStatuses(s) ==
  [t \in DOMAIN s |-> IF s[t] \in WAITING_TASK_STATUSES
                      THEN "STRANDED_AFTER_DEADLOCK" ELSE s[t]]

\* The running tasks whose worker is asked to interrupt them.
AskedToStop(g, s) ==
  {t \in Plain(g, DOMAIN s) : s[t] \in {"RUNNING", "FAILED_TO_CANCEL"}}

\* _cancel_tasks_execution: by force, whatever is active is given up; else running
\* cleanup is let complete, other running tasks are interrupted unless the request
\* for it fails (they are in unheard), what was not started yet, cleanup included, is
\* unscheduled, and what waits for an error is scheduled.
CanceledStatuses(g, s, force, unheard) ==
  [t \in DOMAIN s |->
     CASE force /\ s[t] \in ACTIVE_TASK_STATUSES \cup {"FAILED_TO_CANCEL"} ->
            "FORCE_CANCELED"
       [] ~force /\ t \in AskedToStop(g, s) ->
            IF t \in unheard THEN "FAILED_TO_CANCEL" ELSE "CANCELLING"
       [] ~force /\ s[t] = "RUNNING" /\ TaskOf(g, t).on_error ->
            "CANCELLING_AFTER_COMPLETION"
       [] ~force /\ s[t] = "PENDING" -> "UNSCHEDULED"
       [] s[t] = "SCHEDULED" /\ Parents(g, t) = {} -> "UNSCHEDULED"
       [] s[t] = "EXECUTE_ON_ERROR_ONLY" -> "SCHEDULED"
       [] OTHER -> s[t]]

ActiveTasks(s) == {t \in DOMAIN s : s[t] \in ACTIVE_TASK_STATUSES}
=============================================================================

--------------------------- MODULE TasksExecution ---------------------------
(***************************************************************************)
(* One tasks execution: the conductor's task state machine                 *)
(* (conductor/rpc/server.py) together with the worker threads and          *)
(* processes which run its tasks (worker/rpc/server.py).                   *)
(*                                                                         *)
(* Every conductor handler that writes task statuses holds the lock on the *)
(* execution for its whole duration, so at most one is in progress: `pc'   *)
(* says where it stands and "idle" that the lock is free.  The loops of    *)
(* _cancel_tasks_execution and _advance_execution_state take one step per  *)
(* task they act upon, in index order; `seen' is the copy of the task      *)
(* statuses they read when they began.  _begin_tasks is the exception: it  *)
(* writes statuses without that lock, as a thread of its own (`begin').    *)
(***************************************************************************)
EXTENDS Statuses, Integers, FiniteSets

CONSTANTS
  NTasks,           \* number of tasks; a task is known by its index
  DependsOn,        \* task.depends_on
  OnError,          \* tasks with on_error set
  OnErrorOnly,      \* those of them created with on_error_only
  Instance,         \* the instance (VM) each task belongs to
  OSMorphing,       \* tasks of type OS_MORPHING
  DebugOSMorphing,  \* CONF.conductor.debug_os_morphing_errors
  CreatedStatus,    \* the status _create_task gave each task
  Faults,           \* which of the failures in AllFaults may happen
  EarlyReports,     \* may a request arrive before _begin_tasks has returned?
  MaxUserCancels,   \* bound on user cancellations
  MaxTimeouts       \* bound on RPC timeouts seen by workers

Tasks == 1..NTasks

\* no_worker:  the scheduler finds no worker for a task which depends on others
\* no_first_worker: it finds none for a task _begin_tasks is starting
\* cancel_lost: the cancel_task RPC fails or times out
\* vanish:     a task's process dies without a result and without a signal
\* crash:      the worker service dies with the thread that handles a task
\* post_task:  merging the result of a task or what is to follow it raises
AllFaults ==
  {"no_worker", "no_first_worker", "cancel_lost", "vanish", "crash", "post_task"}

ASSUME GraphAssumption ==
  /\ NTasks \in Nat \ {0}
  /\ DependsOn \in [Tasks -> SUBSET Tasks]
  /\ DOMAIN Instance = Tasks
  /\ OnError \subseteq Tasks
  /\ OnErrorOnly \subseteq OnError
  /\ OSMorphing \subseteq Tasks
  /\ \A t \in Tasks : \A d \in DependsOn[t] :
        d < t /\ Instance[d] = Instance[t]

\* _create_task: on-error-only tasks wait for an error, and so do on-error tasks
\* all of whose parents do; any other task is scheduled from the start.
CreateTask(t) ==
  IF \/ t \in OnErrorOnly
     \/ /\ t \in OnError
        /\ DependsOn[t] # {}
        /\ \A d \in DependsOn[t] : CreatedStatus[d] = "EXECUTE_ON_ERROR_ONLY"
  THEN "EXECUTE_ON_ERROR_ONLY"
  ELSE "SCHEDULED"

ASSUME CreatedStatusAssumption ==
  /\ CreatedStatus \in [Tasks -> WAITING_TASK_STATUSES]
  /\ \A t \in Tasks : CreatedStatus[t] = CreateTask(t)

ASSUME EnvironmentAssumption ==
  /\ Faults \subseteq AllFaults
  /\ EarlyReports \in BOOLEAN
  /\ DebugOSMorphing \in BOOLEAN
  /\ MaxUserCancels \in Nat
  /\ MaxTimeouts \in Nat

VARIABLES
  task,       \* task.status of every task, as stored in the DB
  execution,  \* execution.status, as stored in the DB
  begin,      \* the last task _begin_tasks went through; NTasks + 1: returned
  pc,         \* where the handler holding the execution lock stands
  at,         \* the task its loop has reached
  seen,       \* the statuses its loop works from
  scope,      \* the tasks its state advancement is about
  started,    \* the tasks its state advancement has started
  worker,     \* the worker thread running exec_task for a task
  process,    \* the process the thread spawned
  calls,      \* RPCs on their way to the conductor
  cancels,    \* user cancellations left
  timeouts    \* RPC timeouts left

handler == <<pc, at, seen, scope, started>>
workers == <<worker, process, calls>>
budgets == <<cancels, timeouts>>
vars == <<task, execution, begin, handler, workers, budgets>>

WorkerPhases ==
  {"none", "hosting", "hosted", "registering", "running", "reporting",
   "finished", "dead"}

\* "interrupted": alive, and sent a SIGINT.
ProcessStates ==
  {"none", "alive", "interrupted", "completed", "failed", "killed"}

\* "process_gone" is the confirm_task_cancellation the worker's cancel_task
\* sends when it finds no process; "confirm_task_cancellation" the one of
\* exec_task.
Operations ==
  {"set_task_host", "set_task_process", "task_completed",
   "confirm_task_cancellation", "process_gone", "set_task_error"}

\* The handler is about to cancel the execution, is cancelling its tasks, is
\* about to advance its state, or is advancing it.
Places ==
  {"idle", "cancel", "force_cancel", "canceling", "force_canceling", "enter",
   "advance"}

Call(operation, t) == [op |-> operation, task |-> t]

TypeOK ==
  /\ task \in [Tasks -> TaskStatuses]
  /\ execution \in ExecutionStatuses
  /\ begin \in 0..(NTasks + 1)
  /\ pc \in Places
  /\ at \in 1..(NTasks + 1)
  /\ seen \in [Tasks -> TaskStatuses]
  /\ scope \subseteq Tasks
  /\ started \subseteq Tasks
  /\ worker \in [Tasks -> WorkerPhases]
  /\ process \in [Tasks -> ProcessStates]
  /\ calls \subseteq [op : Operations, task : Tasks]
  /\ cancels \in 0..MaxUserCancels
  /\ timeouts \in 0..MaxTimeouts

Init ==
  /\ task = CreatedStatus
  /\ execution = "UNEXECUTED"
  /\ begin = 0
  /\ pc = "idle" /\ at = 1 /\ seen = CreatedStatus /\ scope = Tasks
  /\ started = {}
  /\ worker = [t \in Tasks |-> "none"]
  /\ process = [t \in Tasks |-> "none"]
  /\ calls = {}
  /\ cancels = MaxUserCancels
  /\ timeouts = MaxTimeouts

-----------------------------------------------------------------------------
(***************************************************************************)
(* The conductor: who holds the lock, and the answers to RPCs.             *)
(***************************************************************************)

BeginReturned == begin = NTasks + 1

LockFree == pc = "idle" /\ (BeginReturned \/ EarlyReports)

\* The handler moves on to p, with fresh loop variables.
Goto(p, tasks) ==
  /\ pc' = p /\ at' = 1 /\ seen' = CreatedStatus /\ scope' = tasks
  /\ started' = {}

Release == Goto("idle", Tasks)

\* The handler enters a loop over the statuses it has just read from the DB.
Loop(p) ==
  /\ pc' = p /\ at' = 1 /\ seen' = task /\ started' = {}
  /\ UNCHANGED scope

\* The call is answered, and the worker thread goes on if it still waits.
Answer(operation, t, phase, next) ==
  /\ calls' = calls \ {Call(operation, t)}
  /\ worker' = [worker EXCEPT ![t] = IF @ = phase THEN next ELSE @]

\* The call is refused: the thread's exception handler reports an error.
Refuse(operation, t, phase) ==
  /\ calls' = (calls \ {Call(operation, t)}) \cup
                {Call("set_task_error", u) : u \in {v \in {t} : worker[v] = phase}}
  /\ worker' = [worker EXCEPT ![t] = IF @ = phase THEN "reporting" ELSE @]

\* begin_task: the cast makes a worker call set_task_host.
Dispatch(t) ==
  /\ worker' = [worker EXCEPT ![t] = "hosting"]
  /\ calls' = calls \cup {Call("set_task_host", t)}
  /\ UNCHANGED process

SetStatus(t, status) == task' = [task EXCEPT ![t] = status]

-----------------------------------------------------------------------------
(***************************************************************************)
(* _begin_tasks: starts the tasks without dependencies, then marks the     *)
(* execution RUNNING, whatever has become of it meanwhile.                 *)
(***************************************************************************)

First(t) == DependsOn[t] = {} /\ CreatedStatus[t] = "SCHEDULED"

BeginTask(t) ==
  /\ begin < t /\ First(t)
  /\ \A u \in (begin + 1)..(t - 1) : ~First(u)
  /\ \/ /\ SetStatus(t, "PENDING")
        /\ Dispatch(t)
        /\ begin' = t
        /\ UNCHANGED handler
     \/ /\ "no_first_worker" \in Faults
        /\ pc = "idle"
        /\ SetStatus(t, "FAILED_TO_SCHEDULE")
        /\ begin' = NTasks + 1
        /\ Goto("cancel", Tasks)
        /\ UNCHANGED workers
  /\ UNCHANGED <<execution, budgets>>

BeginReturns ==
  /\ begin \in Tasks
  /\ \A u \in (begin + 1)..NTasks : ~First(u)
  /\ execution' = "RUNNING"
  /\ begin' = NTasks + 1
  /\ UNCHANGED <<task, handler, workers, budgets>>

-----------------------------------------------------------------------------
(***************************************************************************)
(* The handlers of worker reports.                                         *)
(***************************************************************************)

SetTaskHost(t) ==
  /\ LockFree
  /\ Call("set_task_host", t) \in calls
  /\ \/ /\ task[t] \in {"PENDING", "CANCELLING_AFTER_COMPLETION"}
        /\ SetStatus(t, IF task[t] = "PENDING" THEN "STARTING" ELSE task[t])
        /\ Answer("set_task_host", t, "hosting", "hosted")
     \/ /\ task[t] \notin {"PENDING", "CANCELLING_AFTER_COMPLETION"}
        /\ Refuse("set_task_host", t, "hosting")
        /\ UNCHANGED task
  /\ UNCHANGED <<execution, begin, handler, process, budgets>>

\* A task has a host whenever it is in one of the acceptable statuses.
SetTaskProcess(t) ==
  /\ LockFree
  /\ Call("set_task_process", t) \in calls
  /\ \/ /\ task[t] \in {"STARTING", "CANCELLING_AFTER_COMPLETION"}
        /\ SetStatus(t, "RUNNING")
        /\ Answer("set_task_process", t, "registering", "running")
     \/ /\ task[t] \notin {"STARTING", "CANCELLING_AFTER_COMPLETION"}
        /\ Refuse("set_task_process", t, "registering")
        /\ UNCHANGED task
  /\ UNCHANGED <<execution, begin, handler, process, budgets>>

\* Statuses in which a report that the task has ended changes nothing.
Settled == FINALIZED_TASK_STATUSES \ {"FAILED_TO_CANCEL"}

BeingCanceled ==
  {"CANCELLING", "CANCELLING_AFTER_COMPLETION", "FAILED_TO_CANCEL"}

CompletedStatus(status) ==
  IF status \in BeingCanceled THEN "CANCELED_AFTER_COMPLETION" ELSE "COMPLETED"

TasksOfInstance(t) == {u \in Tasks : Instance[u] = Instance[t]}

\* Only the tasks of the same instance are considered for starting next.
TaskCompleted(t) ==
  /\ LockFree
  /\ Call("task_completed", t) \in calls
  /\ Answer("task_completed", t, "reporting", "finished")
  /\ \/ /\ task[t] \in Settled
        /\ UNCHANGED <<task, handler>>
     \/ /\ task[t] \notin Settled
        /\ SetStatus(t, CompletedStatus(task[t]))
        /\ Goto("enter", TasksOfInstance(t))
  /\ UNCHANGED <<execution, begin, process, budgets>>

\* The status has been written when the result is merged and
\* _handle_post_task_actions is called: if that raises, nothing is advanced, and the
\* worker reports the exception as the task's error.
PostTaskActionsFail(t) ==
  /\ LockFree
  /\ "post_task" \in Faults
  /\ Call("task_completed", t) \in calls
  /\ task[t] \notin Settled
  /\ SetStatus(t, CompletedStatus(task[t]))
  /\ Refuse("task_completed", t, "reporting")
  /\ UNCHANGED <<execution, begin, handler, process, budgets>>

\* Mutant: the state is not advanced after a cancellation was confirmed.
ConfirmWithoutAdvancing(operation, t) ==
  /\ LockFree
  /\ Call(operation, t) \in calls
  /\ Answer(operation, t, "reporting",
            IF operation = "process_gone" THEN "reporting" ELSE "finished")
  /\ SetStatus(t, IF task[t] \in Settled THEN task[t] ELSE "CANCELED")
  /\ UNCHANGED <<execution, begin, handler, process, budgets>>

ConfirmTaskCancellation(operation, t) ==
  /\ LockFree
  /\ Call(operation, t) \in calls
  /\ Answer(operation, t, "reporting",
            IF operation = "process_gone" THEN "reporting" ELSE "finished")
  /\ \/ /\ task[t] \in Settled
        /\ UNCHANGED <<task, handler>>
     \/ /\ task[t] \notin Settled
        /\ SetStatus(t, "CANCELED")
        /\ Goto("enter", Tasks)
  /\ UNCHANGED <<execution, begin, process, budgets>>

\* An error overrides every status, terminal ones included, but the ones of
\* tasks whose cancellation was requested.
ErroredStatus(status) ==
  CASE status \in BeingCanceled -> "CANCELED"
    [] status = "FORCE_CANCELED" -> "FORCE_CANCELED"
    [] OTHER -> "ERROR"

\* Mutant: the tasks still running are not looked at.
KeepForDebuggingAnyway(t) == t \in OSMorphing /\ DebugOSMorphing

\* OSMorphing errors may be kept for debugging, if nothing else is running.
KeepForDebugging(t) ==
  /\ t \in OSMorphing
  /\ DebugOSMorphing
  /\ \A u \in Tasks \ OSMorphing : task[u] \notin ACTIVE_TASK_STATUSES

SetTaskError(t) ==
  /\ LockFree
  /\ Call("set_task_error", t) \in calls
  /\ Answer("set_task_error", t, "reporting", "finished")
  /\ \/ /\ KeepForDebugging(t)
        /\ task' = [u \in Tasks |->
             CASE u = t -> ErroredStatus(task[t])
               [] u \notin OSMorphing /\ task[u] \in WAITING_TASK_STATUSES ->
                    "CANCELED_FOR_DEBUGGING"
               [] OTHER -> task[u]]
        /\ execution' = "CANCELED_FOR_DEBUGGING"
        /\ UNCHANGED handler
     \/ /\ ~KeepForDebugging(t)
        /\ SetStatus(t, ErroredStatus(task[t]))
        /\ Goto("cancel", Tasks)
        /\ UNCHANGED execution
  /\ UNCHANGED <<begin, process, budgets>>

\* cancel_transfer_tasks_execution and cancel_deployment, p being the place of a
\* cancellation with or without the force flag.
UserCancel(p) ==
  /\ LockFree
  /\ cancels > 0
  /\ execution \in ACTIVE_EXECUTION_STATUSES
  /\ p = "force_cancel" \/ execution # "CANCELLING"
  /\ cancels' = cancels - 1
  /\ Goto(p, Tasks)
  /\ UNCHANGED <<task, execution, begin, workers, timeouts>>

-----------------------------------------------------------------------------
(***************************************************************************)
(* _cancel_tasks_execution                                                 *)
(***************************************************************************)

\* The statuses which end a re-cancellation early are task statuses in the
\* code, so a DEADLOCKED execution is gone through again.
CancelTasksExecution ==
  LET force == pc = "force_cancel"
      canceling == IF force THEN "force_canceling" ELSE "canceling"
  IN
  /\ pc \in {"cancel", "force_cancel"}
  /\ \/ /\ execution = "RUNNING"
        /\ execution' = "CANCELLING"
        /\ Loop(canceling)
     \/ /\ execution = "CANCELLING" /\ ~force
        /\ Goto("enter", Tasks)
        /\ UNCHANGED execution
     \/ /\ execution \in FINALIZED_TASK_STATUSES
        /\ Release
        /\ UNCHANGED execution
     \/ /\ execution \notin {"RUNNING"} \cup FINALIZED_TASK_STATUSES
        /\ execution # "CANCELLING" \/ force
        /\ Loop(canceling)
        /\ UNCHANGED execution
  /\ UNCHANGED <<task, begin, workers, budgets>>

Canceling == pc \in {"canceling", "force_canceling"}

ForceCancels(t) ==
  /\ pc = "force_canceling"
  /\ seen[t] \in ACTIVE_TASK_STATUSES \cup {"FAILED_TO_CANCEL"}

\* The tasks a cancellation does something about.
Cancels(t) ==
  \/ ForceCancels(t)
  \/ seen[t] \in {"PENDING", "STARTING", "RUNNING", "FAILED_TO_CANCEL",
                  "EXECUTE_ON_ERROR_ONLY"}
  \/ seen[t] = "SCHEDULED" /\ DependsOn[t] = {}

\* Running plain tasks are cancelled by asking their worker to do so.
AsksWorker(t) ==
  /\ pc = "canceling"
  /\ t \notin OnError
  /\ seen[t] \in {"RUNNING", "FAILED_TO_CANCEL"}

CanceledStatus(t) ==
  CASE ForceCancels(t) -> "FORCE_CANCELED"
    [] ~ForceCancels(t) /\ seen[t] = "EXECUTE_ON_ERROR_ONLY" -> "SCHEDULED"
    [] ~ForceCancels(t) /\ seen[t] \in {"RUNNING", "FAILED_TO_CANCEL"} ->
         "CANCELLING_AFTER_COMPLETION"
    [] OTHER -> "UNSCHEDULED"

Ended == {"completed", "failed", "killed"}

Interrupt(t) ==
  process' = [process EXCEPT ![t] = IF @ = "alive" THEN "interrupted" ELSE @]

\* A process whose exec_task thread has already collected its result is gone:
\* the worker then confirms the cancellation from inside the request, which
\* waits for the lock this handler holds, so that the request times out.
RequestCancellation(t) ==
  \/ /\ worker[t] # "dead"
     /\ process[t] \notin Ended \/ worker[t] = "running"
     /\ SetStatus(t, "CANCELLING")
     /\ Interrupt(t)
     /\ UNCHANGED calls
  \/ /\ worker[t] # "dead"
     /\ process[t] \in Ended /\ worker[t] # "running"
     /\ SetStatus(t, "FAILED_TO_CANCEL")
     /\ calls' = calls \cup {Call("process_gone", t)}
     /\ UNCHANGED process
  \/ /\ worker[t] = "dead" \/ "cancel_lost" \in Faults
     /\ SetStatus(t, "FAILED_TO_CANCEL")
     /\ UNCHANGED <<process, calls>>
  \/ /\ worker[t] # "dead" /\ "cancel_lost" \in Faults
     /\ process[t] = "alive"
     /\ SetStatus(t, "FAILED_TO_CANCEL")
     /\ Interrupt(t)
     /\ UNCHANGED calls

CancelTask(t) ==
  /\ Canceling
  /\ at <= t /\ Cancels(t)
  /\ \A u \in at..(t - 1) : ~Cancels(u)
  /\ at' = t + 1
  /\ \/ AsksWorker(t) /\ RequestCancellation(t)
     \/ ~AsksWorker(t) /\ SetStatus(t, CanceledStatus(t))
                       /\ UNCHANGED <<process, calls>>
  /\ UNCHANGED <<execution, begin, pc, seen, scope, started, worker, budgets>>

TasksCanceled ==
  /\ Canceling
  /\ \A u \in at..NTasks : ~Cancels(u)
  /\ Goto("enter", Tasks)
  /\ UNCHANGED <<task, execution, begin, workers, budgets>>

-----------------------------------------------------------------------------
(***************************************************************************)
(* _advance_execution_state                                                *)
(***************************************************************************)

Some(statuses, S) == \E t \in Tasks : statuses[t] \in S

\* _check_clean_execution_deadlock
Deadlocked(statuses) ==
  Some(statuses, {"SCHEDULED"}) /\ ~Some(statuses, ACTIVE_TASK_STATUSES)

CleanDeadlock(statuses) ==
  /\ task' = [t \in Tasks |-> IF statuses[t] \in WAITING_TASK_STATUSES
                              THEN "STRANDED_AFTER_DEADLOCK" ELSE task[t]]
  /\ execution' = "DEADLOCKED"

\* _get_execution_status
ExecutionStatus(statuses) ==
  IF Deadlocked(statuses) THEN "DEADLOCKED"
  ELSE IF Some(statuses, {"CANCELLING", "CANCELLING_AFTER_COMPLETION"})
       THEN "CANCELLING"
  ELSE IF Some(statuses, ACTIVE_TASK_STATUSES)
       THEN IF Some(statuses, CANCELED_TASK_STATUSES)
            THEN "CANCELLING" ELSE "RUNNING"
  ELSE IF Some(statuses, {"ERROR", "FAILED_TO_SCHEDULE"}) THEN "ERROR"
  ELSE IF Some(statuses, CANCELED_TASK_STATUSES) THEN "CANCELED"
  ELSE "COMPLETED"

EnterAdvance ==
  /\ pc = "enter"
  /\ \/ /\ execution \in ACTIVE_EXECUTION_STATUSES
        /\ Loop("advance")
        /\ UNCHANGED <<task, execution>>
     \/ /\ execution \notin ACTIVE_EXECUTION_STATUSES
        /\ \/ Deadlocked(task) /\ CleanDeadlock(task)
           \/ ~Deadlocked(task) /\ UNCHANGED <<task, execution>>
        /\ Release
  /\ UNCHANGED <<begin, workers, budgets>>

\* Mutant: a parent which failed is not recognised as finalized.
DecidableUnlessFailed(t, statuses) ==
  /\ statuses[t] = "SCHEDULED"
  /\ \A d \in DependsOn[t] : statuses[d] \in CANCELED_TASK_STATUSES \cup {"COMPLETED"}

\* Mutant: cleanup does not wait for the parents which are cleanup themselves
\* nor for the ones being cancelled.
DecidableTooEarly(t, statuses) ==
  /\ statuses[t] = "SCHEDULED"
  /\ \A d \in DependsOn[t] :
        statuses[d] \in FINALIZED_TASK_STATUSES \cup {"CANCELLING", "EXECUTE_ON_ERROR_ONLY"}

\* A decision is due: all the parents, if any, have finalized.
Decidable(t, statuses) ==
  /\ statuses[t] = "SCHEDULED"
  /\ \A d \in DependsOn[t] : statuses[d] \in FINALIZED_TASK_STATUSES

\* Mutant: plain tasks accept parents which completed after their cancellation.
MayStartAfterCanceled(t, statuses) ==
  \/ DependsOn[t] = {}
  \/ /\ t \notin OnError
     /\ \A d \in DependsOn[t] : statuses[d] \in CLEANUP_TASK_TRIGGER_STATUSES
  \/ /\ t \in OnError
     /\ \E d \in DependsOn[t] : statuses[d] = "COMPLETED"

\* Mutant: cleanup runs only if all of its plain parents completed.
MayStartIfAllCompleted(t, statuses) ==
  \A d \in DependsOn[t] : statuses[d] = "COMPLETED"

\* Plain tasks need all of their parents completed.  Cleanup (on-error) tasks
\* need one plain parent which did its work or, lacking plain parents, one
\* completed parent.
MayStart(t, statuses) ==
  \/ DependsOn[t] = {}
  \/ /\ t \notin OnError
     /\ \A d \in DependsOn[t] : statuses[d] = "COMPLETED"
  \/ /\ t \in OnError
     /\ DependsOn[t] \subseteq OnError
     /\ \E d \in DependsOn[t] : statuses[d] = "COMPLETED"
  \/ /\ t \in OnError
     /\ \E d \in DependsOn[t] \ OnError :
           statuses[d] \in CLEANUP_TASK_TRIGGER_STATUSES

Advances(t) == t \in scope /\ Decidable(t, seen)

StartTask(t) ==
  /\ MayStart(t, seen)
  /\ SetStatus(t, "PENDING")
  /\ seen' = [seen EXCEPT ![t] = "PENDING"]
  /\ at' = t + 1
  /\ started' = started \cup {t}
  /\ Dispatch(t)
  /\ UNCHANGED <<pc, scope>>

\* The execution is cancelled and the exception ends every enclosing loop.
FailToSchedule(t) ==
  /\ "no_worker" \in Faults
  /\ MayStart(t, seen)
  /\ SetStatus(t, "FAILED_TO_SCHEDULE")
  /\ Goto("cancel", Tasks)
  /\ UNCHANGED workers

Unschedule(t) ==
  /\ ~MayStart(t, seen)
  /\ SetStatus(t, "UNSCHEDULED")
  /\ seen' = [seen EXCEPT ![t] = "UNSCHEDULED"]
  /\ at' = t + 1
  /\ UNCHANGED <<pc, scope, started, workers>>

AdvanceTask(t) ==
  /\ pc = "advance"
  /\ at <= t /\ Advances(t)
  /\ \A u \in at..(t - 1) : ~Advances(u)
  /\ StartTask(t) \/ FailToSchedule(t) \/ Unschedule(t)
  /\ UNCHANGED <<execution, begin, budgets>>

Advanced ==
  /\ pc = "advance"
  /\ \A u \in at..NTasks : ~Advances(u)
  /\ \/ /\ started = {} /\ Deadlocked(seen)
        /\ CleanDeadlock(seen)
     \/ /\ started # {} \/ ~Deadlocked(seen)
        /\ execution' = ExecutionStatus(task)
        /\ UNCHANGED task
  /\ Release
  /\ UNCHANGED <<begin, workers, budgets>>

-----------------------------------------------------------------------------
(***************************************************************************)
(* The worker: exec_task and the process it spawns.                        *)
(***************************************************************************)

WorkerStartsProcess(t) ==
  /\ worker[t] = "hosted"
  /\ process' = [process EXCEPT ![t] = "alive"]
  /\ worker' = [worker EXCEPT ![t] = "registering"]
  /\ calls' = calls \cup {Call("set_task_process", t)}
  /\ UNCHANGED <<task, execution, begin, handler, budgets>>

\* A process which got a SIGINT may have put its result in the queue before.
ProcessEnds(t, outcome) ==
  /\ process[t] \in {"alive", "interrupted"}
  /\ outcome = "killed" => process[t] = "interrupted" \/ "vanish" \in Faults
  /\ process' = [process EXCEPT ![t] = outcome]
  /\ UNCHANGED <<task, execution, begin, handler, worker, calls, budgets>>

WorkerReports(t) ==
  /\ worker[t] = "running"
  /\ process[t] \in Ended
  /\ worker' = [worker EXCEPT ![t] = "reporting"]
  /\ calls' = calls \cup
       {Call(CASE process[t] = "completed" -> "task_completed"
               [] process[t] = "failed" -> "set_task_error"
               [] OTHER -> "confirm_task_cancellation", t)}
  /\ UNCHANGED <<task, execution, begin, handler, process, budgets>>

\* The thread gives up waiting for an answer, while the call stays on its way.
WorkerTimesOut(t) ==
  /\ timeouts > 0
  /\ Call("set_task_error", t) \notin calls
  /\ \/ worker[t] = "hosting" /\ Call("set_task_host", t) \in calls
     \/ worker[t] = "registering" /\ Call("set_task_process", t) \in calls
     \/ worker[t] = "reporting" /\ Call("task_completed", t) \in calls
  /\ timeouts' = timeouts - 1
  /\ worker' = [worker EXCEPT ![t] = "reporting"]
  /\ calls' = calls \cup {Call("set_task_error", t)}
  /\ UNCHANGED <<task, execution, begin, handler, process, cancels>>

WorkerCrashes(t) ==
  /\ "crash" \in Faults
  /\ worker[t] \notin {"none", "finished", "dead"}
  /\ worker' = [worker EXCEPT ![t] = "dead"]
  /\ UNCHANGED <<task, execution, begin, handler, process, calls, budgets>>

-----------------------------------------------------------------------------
(***************************************************************************)
(* The specification.  Handlers, threads and processes make progress; users *)
(* and faults need not.                                                    *)
(***************************************************************************)

ConductorStep ==
  \/ CancelTasksExecution
  \/ TasksCanceled
  \/ EnterAdvance
  \/ Advanced
  \/ \E t \in Tasks : CancelTask(t) \/ AdvanceTask(t)

WorkerStep ==
  \E t \in Tasks :
    \/ SetTaskHost(t)
    \/ SetTaskProcess(t)
    \/ TaskCompleted(t)
    \/ ConfirmTaskCancellation("confirm_task_cancellation", t)
    \/ ConfirmTaskCancellation("process_gone", t)
    \/ SetTaskError(t)
    \/ WorkerStartsProcess(t)
    \/ \E outcome \in Ended : ProcessEnds(t, outcome)
    \/ WorkerReports(t)

Progress ==
  \/ \E t \in Tasks : BeginTask(t)
  \/ BeginReturns
  \/ ConductorStep
  \/ WorkerStep

Next ==
  \/ Progress
  \/ \E p \in {"cancel", "force_cancel"} : UserCancel(p)
  \/ \E t \in Tasks : \/ WorkerTimesOut(t) \/ WorkerCrashes(t)
                      \/ PostTaskActionsFail(t)

Spec == Init /\ [][Next]_vars

FairSpec == Spec /\ WF_vars(Progress)

-----------------------------------------------------------------------------
(***************************************************************************)
(* Properties                                                              *)
(***************************************************************************)

Stage(status) ==
  CASE status \in WAITING_TASK_STATUSES -> "waiting"
    [] status \in ACTIVE_TASK_STATUSES -> "active"
    [] OTHER -> "done"

Phase(status) ==
  CASE status \in ACTIVE_EXECUTION_STATUSES -> "open"
    [] status \in FINALIZED_EXECUTION_STATUSES -> "closed"
    [] OTHER -> "new"

W == INSTANCE Workflow WITH
       stage <- [t \in Tasks |-> Stage(task[t])],
       phase <- Phase(execution)

\* The circumstances in which the workflow is kept to: requests arrive only
\* after _begin_tasks has returned, which finds workers for the first tasks;
\* what follows the completion of a task does not raise; OSMorphing errors are
\* not kept for debugging; and, as in every graph which execute_transfer_tasks
\* and _execute_deployment create, no task that is scheduled from the start
\* depends on one that waits for an error.
Regular ==
  /\ ~EarlyReports
  /\ ~DebugOSMorphing
  /\ "no_first_worker" \notin Faults /\ "post_task" \notin Faults
  /\ \A t \in Tasks : CreatedStatus[t] = "SCHEDULED" =>
       \A d \in DependsOn[t] : CreatedStatus[d] # "EXECUTE_ON_ERROR_ONLY"

\* The conductor runs every execution as a workflow: each task is started at
\* most once, only after all of its parents have finalized
\* (_advance_execution_state), an execution is finalized only when none of its
\* tasks is active (_get_execution_status), and from then on neither it nor
\* its tasks are reopened by late reports.
WorkflowSpec == W!Spec

\* State advancement never strands an execution: whenever it stops, either
\* nothing is left to schedule or something is active, so that
\* _check_clean_execution_deadlock finds nothing to clean.
NeverDeadlocked == execution # "DEADLOCKED"

\* A plain task is handed to a worker only when everything it depends on has
\* really been done: each parent's process returned a result and the parent is,
\* and remains, COMPLETED, however cancellations, errors and confirmations of
\* other tasks interleave (task_completed, set_task_error,
\* confirm_task_cancellation).
ParentsDidTheirWork ==
  \A t \in Tasks \ OnError : worker[t] # "none" =>
    \A d \in DependsOn[t] : task[d] = "COMPLETED" /\ process[d] = "completed"

\* An execution reported COMPLETED has all of its tasks completed by their
\* processes, but for cleanup that only an error calls for.
CompletedMeansDone ==
  execution = "COMPLETED" =>
    \A t \in Tasks : \/ task[t] = "COMPLETED" /\ process[t] = "completed"
                     \/ task[t] = "EXECUTE_ON_ERROR_ONLY" /\ worker[t] = "none"

\* When an execution has failed or was cancelled, the cleanup which depends on a plain
\* task that completed has been started in a process of its own, unless no worker was
\* found for it.  The one way for it not to run after it was handed to a worker is that
\* it was stopped before its process started: by another cancellation, which unschedules
\* it like any task that is pending (see PendingCleanupKept), or by its worker's error
\* (_cancel_tasks_execution, _advance_execution_state, set_task_host).
CleanupRuns ==
  execution \in {"ERROR", "CANCELED"} =>
    \A t \in OnError :
      (\E d \in DependsOn[t] \ OnError : task[d] = "COMPLETED") =>
        \/ task[t] = "FAILED_TO_SCHEDULE"
        \/ /\ worker[t] # "none"
           /\ \/ process[t] # "none"
              \/ task[t] \in {"UNSCHEDULED", "FORCE_CANCELED", "ERROR"}

\* _cancel_tasks_execution: it works by "telling workers to kill any already running
\* non-on-error tasks" and by "cancelling any non-on-error tasks which are pending".
\* On-error tasks which are pending are kept: one that was handed to a worker is not
\* unscheduled.
PendingCleanupKept ==
  \A t \in OnError : task[t] = "UNSCHEDULED" => worker[t] = "none"

\* constants.py, CLEANUP_TASK_TRIGGER_STATUSES: the resources of a task which
\* completed its work are ones "that on-error cleanup tasks must destroy".
CompletedWorkIsCleanedUp ==
  execution \in {"ERROR", "CANCELED"} =>
    \A t \in OnError :
      (\E d \in DependsOn[t] \ OnError :
          task[d] \in CLEANUP_TASK_TRIGGER_STATUSES) => worker[t] # "none"

\* _check_clean_execution_deadlock: "Deadlocked executions have no currently
\* running/pending tasks but some remaining scheduled tasks."
DeadlockedHasNothingActive ==
  execution = "DEADLOCKED" => ~Some(task, ACTIVE_TASK_STATUSES)

\* set_task_error: "the OSMorphing task always runs by itself so no further
\* tasks should be running" when an execution is kept for debugging.
DebuggedHasNothingActive ==
  execution = "CANCELED_FOR_DEBUGGING" => ~Some(task, ACTIVE_TASK_STATUSES)
=============================================================================

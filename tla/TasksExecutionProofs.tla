------------------------ MODULE TasksExecutionProofs ------------------------
(***************************************************************************)
(* Proofs about TasksExecution, for every task graph, every set of faults  *)
(* and any number of cancellations and timeouts: no execution deadlocks, a *)
(* failed or cancelled execution cleans up after the tasks which           *)
(* completed, and the tasks of every execution go through the workflow.    *)
(***************************************************************************)
EXTENDS TasksExecution, WellFoundedInduction, TLAPS

\* Most steps below are first-order consequences of a few facts: Zenon is tried first, and
\* the steps which need records, functions or arithmetic name SMT.
USE Zenon

-----------------------------------------------------------------------------
(***************************************************************************)
(* Type correctness                                                        *)
(***************************************************************************)

\* The constants' types, as the proofs below need them.
LEMMA ConstantTypes ==
  /\ NTasks \in Nat /\ NTasks >= 1
  /\ CreatedStatus \in [Tasks -> TaskStatuses]
<1>1. NTasks \in Nat /\ NTasks >= 1
  BY SMT, GraphAssumption
<1>2. WAITING_TASK_STATUSES \subseteq TaskStatuses
  BY DEF TaskStatuses
<1>3. CreatedStatus \in [Tasks -> WAITING_TASK_STATUSES]
  BY CreatedStatusAssumption
<1> QED
  BY <1>1, <1>2, <1>3

\* The variables of the handler in progress are well-typed wherever it goes.
LEMMA GotoType ==
  ASSUME NEW p \in Places, NEW tasks \in SUBSET Tasks, Goto(p, tasks)
  PROVE  /\ pc' \in Places /\ at' \in 1..(NTasks + 1)
         /\ seen' \in [Tasks -> TaskStatuses]
         /\ scope' \subseteq Tasks /\ started' \subseteq Tasks
  BY SMT, ConstantTypes DEF Goto

\* Init establishes the type invariant.
LEMMA InitType == Init => TypeOK
  BY SMT, ConstantTypes, EnvironmentAssumption
     DEF Init, TypeOK, ExecutionStatuses, WorkerPhases, ProcessStates, Places

\* Every step of the conductor and of the workers keeps the types.
LEMMA NextType == TypeOK /\ [Next]_vars => TypeOK'
<1> SUFFICES ASSUME TypeOK, [Next]_vars PROVE TypeOK'
  OBVIOUS
<1> USE ConstantTypes, EnvironmentAssumption
<1>1. ASSUME NEW t \in Tasks, BeginTask(t) PROVE TypeOK'
  <2>1. CASE /\ SetStatus(t, "PENDING") /\ Dispatch(t) /\ begin' = t
             /\ UNCHANGED handler
    BY SMT, <1>1, <2>1 DEF BeginTask, TypeOK, SetStatus, Dispatch, Call, handler,
         budgets, Tasks, TaskStatuses, ACTIVE_TASK_STATUSES, WorkerPhases,
         Operations
  <2>2. CASE /\ SetStatus(t, "FAILED_TO_SCHEDULE") /\ begin' = NTasks + 1
             /\ Goto("cancel", Tasks) /\ UNCHANGED workers
    BY SMT, <1>1, <2>2, GotoType DEF Places, BeginTask, TypeOK, SetStatus, workers,
         budgets, TaskStatuses, FINALIZED_TASK_STATUSES, CANCELED_TASK_STATUSES
  <2> QED
    BY <1>1, <2>1, <2>2 DEF BeginTask
<1>2. CASE BeginReturns
  BY SMT, <1>2 DEF BeginReturns, TypeOK, handler, workers, budgets, Tasks,
       ExecutionStatuses, ACTIVE_EXECUTION_STATUSES
<1>3. CASE CancelTasksExecution
  BY SMT, <1>3, GotoType DEF Places, CancelTasksExecution, TypeOK, Loop, Release, workers,
       budgets, ExecutionStatuses, ACTIVE_EXECUTION_STATUSES
<1>4. CASE TasksCanceled
  BY <1>4, GotoType DEF Places, TasksCanceled, TypeOK, workers, budgets, Tasks
<1>5. CASE EnterAdvance
  BY SMT, <1>5, GotoType DEF Places, EnterAdvance, TypeOK, Loop, Release, CleanDeadlock,
       workers, budgets, ExecutionStatuses, FINALIZED_EXECUTION_STATUSES,
       TaskStatuses, FINALIZED_TASK_STATUSES, CANCELED_TASK_STATUSES
<1>6. CASE Advanced
  <2>1. /\ task' \in [Tasks -> TaskStatuses] /\ execution' \in ExecutionStatuses
    BY <1>6 DEF Advanced, TypeOK, CleanDeadlock, ExecutionStatus,
         ExecutionStatuses, ACTIVE_EXECUTION_STATUSES,
         FINALIZED_EXECUTION_STATUSES, TaskStatuses, FINALIZED_TASK_STATUSES,
         CANCELED_TASK_STATUSES
  <2> QED
    BY <1>6, <2>1, GotoType DEF Places, Advanced, TypeOK, Release, workers, budgets
<1>7. ASSUME NEW t \in Tasks, CancelTask(t) PROVE TypeOK'
  <2>1. task' \in [Tasks -> TaskStatuses]
    BY <1>7 DEF CancelTask, RequestCancellation, CanceledStatus, SetStatus,
         TypeOK, TaskStatuses, ACTIVE_TASK_STATUSES, FINALIZED_TASK_STATUSES,
         CANCELED_TASK_STATUSES, WAITING_TASK_STATUSES
  <2>2. /\ process' \in [Tasks -> ProcessStates]
        /\ calls' \subseteq [op : Operations, task : Tasks]
    BY SMT, <1>7 DEF CancelTask, RequestCancellation, Interrupt, Call, TypeOK,
         ProcessStates, Operations
  <2> QED
    BY SMT, <1>7, <2>1, <2>2 DEF CancelTask, TypeOK, budgets, Tasks
<1>8. ASSUME NEW t \in Tasks, AdvanceTask(t) PROVE TypeOK'
  <2>1. CASE StartTask(t)
    BY SMT, <1>8, <2>1 DEF AdvanceTask, StartTask, SetStatus, Dispatch, Call, TypeOK,
         budgets, Tasks, TaskStatuses, ACTIVE_TASK_STATUSES, WorkerPhases,
         Operations
  <2>2. CASE FailToSchedule(t)
    BY <1>8, <2>2, GotoType DEF Places, AdvanceTask, FailToSchedule, SetStatus, TypeOK,
         workers, budgets, Tasks, TaskStatuses, FINALIZED_TASK_STATUSES,
         CANCELED_TASK_STATUSES
  <2>3. CASE Unschedule(t)
    BY SMT, <1>8, <2>3 DEF AdvanceTask, Unschedule, SetStatus, TypeOK, workers,
         budgets, Tasks, TaskStatuses, FINALIZED_TASK_STATUSES,
         CANCELED_TASK_STATUSES
  <2> QED
    BY <1>8, <2>1, <2>2, <2>3 DEF AdvanceTask
<1>9. ASSUME NEW t \in Tasks, SetTaskHost(t) PROVE TypeOK'
  BY SMT, <1>9 DEF SetTaskHost, SetStatus, Answer, Refuse, Call, TypeOK, handler,
       budgets, TaskStatuses, ACTIVE_TASK_STATUSES, WorkerPhases, Operations
<1>10. ASSUME NEW t \in Tasks, SetTaskProcess(t) PROVE TypeOK'
  BY SMT, <1>10 DEF SetTaskProcess, SetStatus, Answer, Refuse, Call, TypeOK, handler,
       budgets, TaskStatuses, ACTIVE_TASK_STATUSES, WorkerPhases, Operations
<1>11. ASSUME NEW t \in Tasks, TaskCompleted(t) PROVE TypeOK'
  <2>1. TasksOfInstance(t) \subseteq Tasks
    BY DEF TasksOfInstance
  <2>2. task' \in [Tasks -> TaskStatuses]
    BY <1>11 DEF TaskCompleted, SetStatus, CompletedStatus, TypeOK, TaskStatuses,
         FINALIZED_TASK_STATUSES, CANCELED_TASK_STATUSES
  <2> QED
    BY <1>11, <2>1, <2>2, GotoType DEF Places, TaskCompleted, Answer, TypeOK, handler,
         budgets, WorkerPhases
<1>12. ASSUME NEW t \in Tasks,
              NEW operation \in {"confirm_task_cancellation", "process_gone"},
              ConfirmTaskCancellation(operation, t)
       PROVE  TypeOK'
  BY <1>12, GotoType DEF Places, ConfirmTaskCancellation, SetStatus, Answer, TypeOK,
       handler, budgets, WorkerPhases, TaskStatuses, FINALIZED_TASK_STATUSES,
       CANCELED_TASK_STATUSES
<1>13. ASSUME NEW t \in Tasks, SetTaskError(t) PROVE TypeOK'
  <2>1. /\ task' \in [Tasks -> TaskStatuses] /\ execution' \in ExecutionStatuses
    BY <1>13 DEF SetTaskError, SetStatus, ErroredStatus, TypeOK,
         ExecutionStatuses, FINALIZED_EXECUTION_STATUSES, TaskStatuses,
         FINALIZED_TASK_STATUSES, CANCELED_TASK_STATUSES
  <2> QED
    BY <1>13, <2>1, GotoType DEF Places, SetTaskError, Answer, TypeOK, handler, budgets,
         WorkerPhases
<1>14. ASSUME NEW t \in Tasks, WorkerStartsProcess(t) PROVE TypeOK'
  BY SMT, <1>14 DEF WorkerStartsProcess, Call, TypeOK, handler, budgets,
       WorkerPhases, ProcessStates, Operations
<1>15. ASSUME NEW t \in Tasks, NEW outcome \in Ended, ProcessEnds(t, outcome)
       PROVE  TypeOK'
  BY <1>15 DEF ProcessEnds, Ended, TypeOK, handler, budgets, ProcessStates
<1>16. ASSUME NEW t \in Tasks, WorkerReports(t) PROVE TypeOK'
  BY SMT, <1>16 DEF WorkerReports, Call, TypeOK, handler, budgets, WorkerPhases,
       Operations
<1>17. ASSUME NEW p \in {"cancel", "force_cancel"}, UserCancel(p) PROVE TypeOK'
  BY SMT, <1>17, GotoType DEF Places, UserCancel, TypeOK, workers
<1>18. ASSUME NEW t \in Tasks, WorkerTimesOut(t) PROVE TypeOK'
  BY SMT, <1>18 DEF WorkerTimesOut, Call, TypeOK, handler, WorkerPhases, Operations
<1>19. ASSUME NEW t \in Tasks, WorkerCrashes(t) PROVE TypeOK'
  BY <1>19 DEF WorkerCrashes, TypeOK, handler, budgets, WorkerPhases
<1>20. ASSUME NEW t \in Tasks, PostTaskActionsFail(t) PROVE TypeOK'
  <2>1. task' \in [Tasks -> TaskStatuses]
    BY <1>20 DEF PostTaskActionsFail, SetStatus, CompletedStatus, TypeOK, TaskStatuses,
         FINALIZED_TASK_STATUSES, CANCELED_TASK_STATUSES
  <2>2. /\ worker' \in [Tasks -> WorkerPhases]
        /\ calls' \subseteq [op : Operations, task : Tasks]
    BY SMT, <1>20 DEF PostTaskActionsFail, Refuse, Call, TypeOK, WorkerPhases, Operations
  <2> QED
    BY <1>20, <2>1, <2>2 DEF PostTaskActionsFail, TypeOK, handler, budgets
<1>21. CASE UNCHANGED vars
  BY <1>21 DEF vars, handler, workers, budgets, TypeOK
<1> QED
  BY <1>1, <1>2, <1>3, <1>4, <1>5, <1>6, <1>7, <1>8, <1>9, <1>10, <1>11, <1>12,
     <1>13, <1>14, <1>15, <1>16, <1>17, <1>18, <1>19, <1>20, <1>21
     DEF Next, Progress, ConductorStep, WorkerStep

\* Every variable of the conductor and of the workers keeps its type: statuses
\* are ones constants.py knows, loops stay within the tasks of the execution.
THEOREM TypeCorrect == Spec => []TypeOK
<1>1. Init => TypeOK
  BY InitType
<1>2. TypeOK /\ [Next]_vars => TypeOK'
  BY NextType
<1> QED
  BY <1>1, <1>2, PTL DEF Spec

-----------------------------------------------------------------------------
(***************************************************************************)
(* The inductive invariant                                                 *)
(***************************************************************************)

\* Until _begin_tasks returns, it alone has touched the execution.
FreshInv ==
  ~BeginReturned =>
    /\ pc = "idle"
    /\ execution = "UNEXECUTED"
    /\ \A t \in Tasks : task[t] = IF First(t) /\ t <= begin THEN "PENDING"
                                  ELSE CreatedStatus[t]

BegunInv ==
  BeginReturned =>
    execution \in {"RUNNING", "CANCELLING", "COMPLETED", "CANCELED", "ERROR"}

\* Only tasks which have been started have workers, and get reports.
ReportsInv ==
  /\ \A t \in Tasks : worker[t] # "none" => task[t] \notin WAITING_TASK_STATUSES
  /\ \A c \in calls : task[c.task] \notin WAITING_TASK_STATUSES

\* What a scheduled task depends on does not wait for an error.
ScheduledInv ==
  \A t \in Tasks : task[t] = "SCHEDULED" =>
    \A d \in DependsOn[t] : task[d] # "EXECUTE_ON_ERROR_ONLY"

RunningInv ==
  execution = "RUNNING" => \A t \in Tasks : task[t] # "FAILED_TO_CANCEL"

\* Where the loop of _cancel_tasks_execution stands.
CancelingInv ==
  Canceling =>
    /\ execution = "CANCELLING"
    /\ \A t \in Tasks : t >= at => seen[t] = task[t]
    /\ \A t \in Tasks : t < at => task[t] # "EXECUTE_ON_ERROR_ONLY"
    /\ pc = "canceling" =>
         \A t \in Tasks : t >= at => task[t] # "FAILED_TO_CANCEL"

\* Where the loop of _advance_execution_state stands.
AdvancingInv ==
  pc = "advance" =>
    /\ execution \in {"RUNNING", "CANCELLING"}
    /\ seen = task
    /\ \A t \in started : task[t] = "PENDING"

\* No decision is left behind: a task whose parents have all finalized is one
\* which the handler in progress is yet to come to.
Ahead(t) ==
  \/ pc \in {"cancel", "force_cancel", "canceling", "force_canceling"}
  \/ pc = "enter" /\ t \in scope
  \/ pc = "advance" /\ t \in scope /\ t >= at

DecidedInv ==
  execution \in {"RUNNING", "CANCELLING"} =>
    \A t \in Tasks : Decidable(t, task) => Ahead(t)

ClosedInv ==
  execution \in FINALIZED_EXECUTION_STATUSES =>
    \A t \in Tasks : task[t] \notin ACTIVE_TASK_STATUSES \cup {"SCHEDULED"}

\* A state advancement is about the tasks of whole instances.
ScopeInv ==
  \A t \in scope, u \in Tasks : Instance[u] = Instance[t] => u \in scope

Inv ==
  /\ TypeOK
  /\ FreshInv
  /\ BegunInv
  /\ ReportsInv
  /\ ScheduledInv
  /\ RunningInv
  /\ CancelingInv
  /\ AdvancingInv
  /\ DecidedInv
  /\ ClosedInv

-----------------------------------------------------------------------------
(***************************************************************************)
(* Facts about the constants and the operators                             *)
(***************************************************************************)

\* In regular circumstances the lock is free only after _begin_tasks.
LEMMA RegularLock == ASSUME Regular, LockFree PROVE BeginReturned /\ pc = "idle"
  BY Zenon DEF Regular, LockFree

\* In regular circumstances nothing is kept for debugging.
LEMMA RegularErrors == ASSUME Regular, NEW t \in Tasks PROVE ~KeepForDebugging(t)
  BY Zenon DEF Regular, KeepForDebugging

\* In regular circumstances what follows the completion of a task does not raise.
LEMMA RegularPostTask ==
  ASSUME Regular, NEW t \in Tasks PROVE ~PostTaskActionsFail(t)
  BY Zenon DEF Regular, PostTaskActionsFail

\* The dependencies of a task are earlier tasks of the same instance.
LEMMA Parents ==
  ASSUME NEW t \in Tasks, NEW d \in DependsOn[t]
  PROVE  d \in Tasks /\ d < t /\ Instance[d] = Instance[t] /\ t \in Int /\ d \in Int
  BY SMT, GraphAssumption DEF Tasks

\* Every non-empty set of tasks has a first one.
LEMMA FirstTask ==
  ASSUME NEW S \in SUBSET Tasks, S # {}
  PROVE  \E t \in S : \A u \in S : t <= u
<1>1. S \subseteq Nat
  BY SMT, ConstantTypes DEF Tasks
<1>2. PICK t \in S : \A u \in S : <<u, t>> \notin OpToRel(<, Nat)
  BY <1>1, WFMin, NatLessThanWellFounded
<1>3. ASSUME NEW u \in S PROVE t <= u
  <2>1. <<u, t>> \in Nat \X Nat
    BY <1>1
  <2>2. ~(u < t)
    BY <1>2, <2>1 DEF OpToRel
  <2> QED
    BY SMT, <1>1, <2>2
<1> QED
  BY <1>2, <1>3

\* If all decisions have been taken and nothing is active, nothing is scheduled:
\* the first scheduled task would have only finalized parents.
LEMMA NothingScheduled ==
  ASSUME TypeOK, ScheduledInv, ~Some(task, ACTIVE_TASK_STATUSES),
         \A t \in Tasks : ~Decidable(t, task)
  PROVE  ~Some(task, {"SCHEDULED"})
<1> DEFINE S == {t \in Tasks : task[t] = "SCHEDULED"}
<1> SUFFICES ASSUME S # {} PROVE FALSE
  BY DEF Some
<1>1. PICK t \in S : \A u \in S : t <= u
  BY FirstTask
<1>2. ASSUME NEW d \in DependsOn[t] PROVE task[d] \in FINALIZED_TASK_STATUSES
  <2>1. d \in Tasks /\ d < t /\ t \in Int /\ d \in Int
    BY Parents
  <2>2. task[d] # "SCHEDULED"
    BY SMT, <1>1, <2>1
  <2>3. task[d] # "EXECUTE_ON_ERROR_ONLY"
    BY DEF ScheduledInv
  <2>4. task[d] \notin ACTIVE_TASK_STATUSES
    BY <2>1 DEF Some
  <2> QED
    BY <2>1, <2>2, <2>3, <2>4 DEF TypeOK, TaskStatuses, WAITING_TASK_STATUSES
<1>3. Decidable(t, task)
  BY <1>2 DEF Decidable
<1> QED
  BY <1>3

-----------------------------------------------------------------------------
(***************************************************************************)
(* Every step preserves the invariant                                      *)
(***************************************************************************)

\* Init establishes the invariant.
LEMMA InitInv == ASSUME Regular, Init PROVE Inv
<1>1. TypeOK
  BY InitType
<1>2. BeginReturned => FALSE
  BY SMT, ConstantTypes DEF Init, BeginReturned
<1>3. \A t \in Tasks : ~(First(t) /\ t <= begin)
  BY SMT, ConstantTypes DEF Init, Tasks
<1> QED
  BY <1>1, <1>2, <1>3 DEF Init, Inv, FreshInv, BegunInv, ReportsInv,
     ScheduledInv, RunningInv, CancelingInv, AdvancingInv, DecidedInv, ClosedInv,
     Canceling, Regular, FINALIZED_EXECUTION_STATUSES

\* Steps of the workers change no statuses; reports come from started tasks.
LEMMA WorkerStepInv ==
  ASSUME Inv, TypeOK', NEW t \in Tasks,
         \/ WorkerStartsProcess(t) \/ WorkerReports(t) \/ WorkerTimesOut(t)
         \/ WorkerCrashes(t) \/ \E outcome \in Ended : ProcessEnds(t, outcome)
  PROVE  Inv'
<1>1. UNCHANGED <<task, execution, begin, pc, at, seen, scope, started>>
  BY DEF WorkerStartsProcess, WorkerReports, WorkerTimesOut, WorkerCrashes,
     ProcessEnds, handler
<1>2. ASSUME NEW u \in Tasks, worker'[u] # "none" PROVE worker[u] # "none"
  BY <1>2 DEF WorkerStartsProcess, WorkerReports, WorkerTimesOut, WorkerCrashes,
     ProcessEnds, Inv, TypeOK
<1>3. ASSUME NEW c \in calls' PROVE c \in calls \/ (c.task = t /\ worker[t] # "none")
  BY SMT DEF WorkerStartsProcess, WorkerReports, WorkerTimesOut, WorkerCrashes,
     ProcessEnds, Call
<1>4. ReportsInv'
  BY <1>1, <1>2, <1>3 DEF Inv, ReportsInv
<1> QED
  BY <1>1, <1>4 DEF Inv, FreshInv, BegunInv, ScheduledInv, RunningInv,
     CancelingInv, AdvancingInv, DecidedInv, ClosedInv, Canceling, Ahead,
     BeginReturned, Decidable

\* set_task_host and set_task_process move a task from one active status to
\* another.
LEMMA RegisteringInv ==
  ASSUME Regular, Inv, TypeOK', NEW t \in Tasks, SetTaskHost(t) \/ SetTaskProcess(t)
  PROVE  Inv'
<1>1. BeginReturned /\ pc = "idle"
  BY RegularLock DEF SetTaskHost, SetTaskProcess
<1>2. UNCHANGED <<execution, begin, pc, at, seen, scope, started>>
  BY DEF SetTaskHost, SetTaskProcess, handler
<1>3. \/ task' = task
      \/ /\ task[t] \in ACTIVE_TASK_STATUSES
         /\ \E s \in ACTIVE_TASK_STATUSES : task' = [task EXCEPT ![t] = s]
  BY DEF SetTaskHost, SetTaskProcess, SetStatus, ACTIVE_TASK_STATUSES
<1>4. ReportsInv'
  <2>1. \A u \in Tasks : worker'[u] # "none" => worker[u] # "none"
    BY DEF SetTaskHost, SetTaskProcess, Answer, Refuse, Inv, TypeOK
  <2>2. \A c \in calls' : c \in calls \/ (c.task = t /\ worker[t] # "none")
    BY SMT DEF SetTaskHost, SetTaskProcess, Answer, Refuse, Call
  <2>3. \A u \in Tasks : task[u] \notin WAITING_TASK_STATUSES
                           => task'[u] \notin WAITING_TASK_STATUSES
    BY <1>3 DEF Inv, TypeOK, ACTIVE_TASK_STATUSES, WAITING_TASK_STATUSES
  <2>4. \A c \in calls : c.task \in Tasks
    BY DEF Inv, TypeOK
  <2> QED
    BY <2>1, <2>2, <2>3, <2>4 DEF Inv, ReportsInv
<1>5. ScheduledInv' /\ RunningInv' /\ ClosedInv'
  BY SMT, <1>2, <1>3, Parents DEF Inv, TypeOK, ScheduledInv, RunningInv, ClosedInv,
     ACTIVE_TASK_STATUSES
<1>6. DecidedInv'
  <2> SUFFICES ASSUME NEW u \in Tasks, Decidable(u, task)' PROVE Decidable(u, task)
    BY <1>2 DEF Inv, DecidedInv, Ahead
  <2> QED
    BY <1>3, Parents DEF Decidable, Inv, TypeOK, ACTIVE_TASK_STATUSES,
       FINALIZED_TASK_STATUSES, CANCELED_TASK_STATUSES
<1> QED
  BY <1>1, <1>2, <1>4, <1>5, <1>6 DEF Inv, FreshInv, BegunInv, CancelingInv,
     AdvancingInv, Canceling, BeginReturned

\* _begin_tasks starts the next task without dependencies.
LEMMA BeginTaskInv ==
  ASSUME Regular, Inv, TypeOK', NEW t \in Tasks, BeginTask(t)
  PROVE  Inv'
<1>1. /\ SetStatus(t, "PENDING") /\ Dispatch(t) /\ begin' = t
      /\ UNCHANGED <<execution, pc, at, seen, scope, started>>
  BY DEF BeginTask, Regular, handler
<1>2. /\ begin < t /\ First(t) /\ \A u \in (begin + 1)..(t - 1) : ~First(u)
      /\ begin \in Int /\ t \in Int /\ t <= NTasks
  BY SMT, ConstantTypes DEF BeginTask, Inv, TypeOK, Tasks
<1>3. ~BeginReturned /\ ~BeginReturned' /\ pc = "idle" /\ execution = "UNEXECUTED"
  BY SMT, <1>1, <1>2, ConstantTypes DEF BeginReturned, Inv, FreshInv
<1>4. FreshInv'
  <2> SUFFICES ASSUME NEW u \in Tasks
               PROVE  task'[u] = IF First(u) /\ u <= begin' THEN "PENDING"
                                 ELSE CreatedStatus[u]
    BY <1>1, <1>3 DEF FreshInv, First
  <2>1. task[u] = IF First(u) /\ u <= begin THEN "PENDING" ELSE CreatedStatus[u]
    BY <1>3 DEF Inv, FreshInv
  <2>2. CASE u = t
    BY SMT, <2>2, <1>1, <1>2 DEF SetStatus, Inv, TypeOK
  <2>3. CASE u # t
    <3>1. task'[u] = task[u] /\ u \in Int
      BY SMT, <2>3, <1>1 DEF SetStatus, Inv, TypeOK, Tasks
    <3>2. First(u) => (u <= begin <=> u <= t)
      BY SMT, <3>1, <1>2, <2>3
    <3> QED
      BY <2>1, <3>1, <3>2, <1>1
  <2> QED
    BY <2>2, <2>3
<1>5. ReportsInv'
  <2>1. \A u \in Tasks : task'[u] = IF u = t THEN "PENDING" ELSE task[u]
    BY <1>1 DEF SetStatus, Inv, TypeOK
  <2>2. \A u \in Tasks : worker'[u] # "none" => worker[u] # "none" \/ u = t
    BY <1>1 DEF Dispatch, Inv, TypeOK
  <2>3. \A c \in calls' : c \in calls \/ c.task = t
    BY SMT, <1>1 DEF Dispatch, Call
  <2>4. \A c \in calls : c.task \in Tasks
    BY DEF Inv, TypeOK
  <2> QED
    BY <2>1, <2>2, <2>3, <2>4 DEF Inv, ReportsInv, WAITING_TASK_STATUSES
<1>6. ScheduledInv'
  BY <1>1, Parents DEF SetStatus, Inv, TypeOK, ScheduledInv
<1> QED
  BY <1>1, <1>3, <1>4, <1>5, <1>6 DEF Inv, BegunInv, RunningInv, CancelingInv,
     AdvancingInv, DecidedInv, ClosedInv, Canceling, FINALIZED_EXECUTION_STATUSES

\* When _begin_tasks returns, every scheduled task waits for another one.
LEMMA BeginReturnsInv ==
  ASSUME Regular, Inv, TypeOK', BeginReturns
  PROVE  Inv'
<1>1. /\ begin \in Tasks /\ \A u \in (begin + 1)..NTasks : ~First(u)
      /\ execution' = "RUNNING" /\ begin' = NTasks + 1
      /\ UNCHANGED <<task, pc, at, seen, scope, started, worker, calls>>
  BY DEF BeginReturns, handler, workers
<1>2. ~BeginReturned /\ BeginReturned' /\ pc = "idle"
  BY SMT, <1>1, ConstantTypes DEF BeginReturned, Inv, FreshInv, Tasks
<1>3. \A t \in Tasks : task[t] = IF First(t) THEN "PENDING" ELSE CreatedStatus[t]
  <2> SUFFICES ASSUME NEW t \in Tasks, First(t) PROVE t <= begin
    BY <1>2 DEF Inv, FreshInv
  <2> QED
    BY SMT, <1>1, ConstantTypes DEF Tasks
<1>4. \A t \in Tasks : task[t] \in WAITING_TASK_STATUSES \cup {"PENDING"}
  BY <1>3, CreatedStatusAssumption
<1>5. DecidedInv'
  <2> SUFFICES ASSUME NEW t \in Tasks, Decidable(t, task) PROVE FALSE
    BY <1>1 DEF DecidedInv, Decidable
  <2>1. \A d \in DependsOn[t] : FALSE
    BY <1>4, Parents DEF Decidable, FINALIZED_TASK_STATUSES,
       CANCELED_TASK_STATUSES, WAITING_TASK_STATUSES
  <2> QED
    BY <1>3, <2>1 DEF Decidable, First
<1>6. RunningInv'
  BY <1>1, <1>4 DEF RunningInv, WAITING_TASK_STATUSES
<1> QED
  BY <1>1, <1>2, <1>5, <1>6 DEF Inv, FreshInv, BegunInv, ReportsInv,
     ScheduledInv, CancelingInv, AdvancingInv, ClosedInv, Canceling,
     FINALIZED_EXECUTION_STATUSES

\* A report that a task has ended gives it a final status and goes on to
\* cancel the execution, or to advance the tasks which may depend on the task.
LEMMA EndInv ==
  ASSUME Regular, Inv, TypeOK', NEW t \in Tasks, NEW c \in calls, c.task = t,
         NEW s \in FINALIZED_TASK_STATUSES \ {"FAILED_TO_CANCEL"}, SetStatus(t, s),
         NEW tasks \in SUBSET Tasks, TasksOfInstance(t) \subseteq tasks,
         NEW p \in {"enter", "cancel"}, Goto(p, tasks),
         BeginReturned, pc = "idle", UNCHANGED <<execution, begin>>,
         calls' \subseteq calls,
         \A u \in Tasks : worker'[u] # "none" => worker[u] # "none"
  PROVE  Inv'
<1>1. \A u \in Tasks : task'[u] = IF u = t THEN s ELSE task[u]
  BY DEF SetStatus, Inv, TypeOK
<1>2. s \notin WAITING_TASK_STATUSES \cup ACTIVE_TASK_STATUSES \cup {"FAILED_TO_CANCEL"}
  BY DEF WAITING_TASK_STATUSES, ACTIVE_TASK_STATUSES, FINALIZED_TASK_STATUSES,
     CANCELED_TASK_STATUSES
<1>3. pc' \in {"enter", "cancel"} /\ scope' = tasks
  BY DEF Goto
<1>4. ReportsInv'
  <2>1. \A k \in calls : k.task \in Tasks
    BY DEF Inv, TypeOK
  <2> QED
    BY <1>1, <1>2, <2>1 DEF Inv, ReportsInv
<1>5. ScheduledInv' /\ RunningInv' /\ ClosedInv'
  BY <1>1, <1>2, Parents DEF Inv, ScheduledInv, RunningInv, ClosedInv,
     WAITING_TASK_STATUSES
<1>6. DecidedInv'
  <2> SUFFICES ASSUME execution \in {"RUNNING", "CANCELLING"}, NEW u \in Tasks,
                      Decidable(u, task)', u \notin tasks
               PROVE  FALSE
    BY <1>3 DEF DecidedInv, Ahead
  <2>1. Instance[u] # Instance[t]
    BY DEF TasksOfInstance
  <2>2. Decidable(u, task)
    BY SMT, <2>1, <1>1, <1>2, Parents DEF Decidable, WAITING_TASK_STATUSES
  <2> QED
    BY <2>2 DEF Inv, DecidedInv, Ahead
<1> QED
  BY <1>3, <1>4, <1>5, <1>6 DEF Inv, FreshInv, BegunInv, CancelingInv,
     AdvancingInv, Canceling, BeginReturned

\* A report that changes no status: only calls and workers move on.
LEMMA IgnoredInv ==
  ASSUME Inv, TypeOK', UNCHANGED <<task, execution, begin, handler>>,
         calls' \subseteq calls,
         \A u \in Tasks : worker'[u] # "none" => worker[u] # "none"
  PROVE  Inv'
  BY DEF Inv, FreshInv, BegunInv, ReportsInv, ScheduledInv, RunningInv,
     CancelingInv, AdvancingInv, DecidedInv, ClosedInv, Canceling, Ahead,
     BeginReturned, Decidable, handler

\* task_completed, confirm_task_cancellation and set_task_error
LEMMA ReportInv ==
  ASSUME Regular, Inv, TypeOK', NEW t \in Tasks,
         \/ TaskCompleted(t) \/ SetTaskError(t)
         \/ ConfirmTaskCancellation("confirm_task_cancellation", t)
         \/ ConfirmTaskCancellation("process_gone", t)
  PROVE  Inv'
<1>1. BeginReturned /\ pc = "idle"
  BY RegularLock DEF TaskCompleted, SetTaskError, ConfirmTaskCancellation
<1>2. /\ calls' \subseteq calls
      /\ \A u \in Tasks : worker'[u] # "none" => worker[u] # "none"
  BY DEF TaskCompleted, SetTaskError, ConfirmTaskCancellation, Answer, Inv, TypeOK
<1>3. \E c \in calls : c.task = t
  BY DEF TaskCompleted, SetTaskError, ConfirmTaskCancellation, Call
<1>4. UNCHANGED <<execution, begin>>
  BY RegularErrors DEF TaskCompleted, SetTaskError, ConfirmTaskCancellation
<1>5. CASE TaskCompleted(t)
  <2>1. CASE UNCHANGED <<task, handler>>
    BY <1>2, <1>4, <2>1, IgnoredInv
  <2>2. CASE /\ SetStatus(t, CompletedStatus(task[t]))
             /\ Goto("enter", TasksOfInstance(t))
    <3>1. CompletedStatus(task[t]) \in FINALIZED_TASK_STATUSES \ {"FAILED_TO_CANCEL"}
      BY DEF CompletedStatus, FINALIZED_TASK_STATUSES, CANCELED_TASK_STATUSES
    <3>2. TasksOfInstance(t) \in SUBSET Tasks
      BY DEF TasksOfInstance
    <3> QED
      BY <1>1, <1>2, <1>3, <1>4, <2>2, <3>1, <3>2, EndInv
  <2> QED
    BY <1>5, <2>1, <2>2 DEF TaskCompleted
<1>6. CASE \/ ConfirmTaskCancellation("confirm_task_cancellation", t)
           \/ ConfirmTaskCancellation("process_gone", t)
  <2>1. CASE UNCHANGED <<task, handler>>
    BY <1>2, <1>4, <2>1, IgnoredInv
  <2>2. CASE SetStatus(t, "CANCELED") /\ Goto("enter", Tasks)
    <3>1. "CANCELED" \in FINALIZED_TASK_STATUSES \ {"FAILED_TO_CANCEL"}
      BY DEF FINALIZED_TASK_STATUSES, CANCELED_TASK_STATUSES
    <3>2. TasksOfInstance(t) \subseteq Tasks
      BY DEF TasksOfInstance
    <3> QED
      BY <1>1, <1>2, <1>3, <1>4, <2>2, <3>1, <3>2, EndInv
  <2> QED
    BY <1>6, <2>1, <2>2 DEF ConfirmTaskCancellation
<1>7. CASE SetTaskError(t)
  <2>1. SetStatus(t, ErroredStatus(task[t])) /\ Goto("cancel", Tasks)
    BY <1>7, RegularErrors DEF SetTaskError
  <2>2. ErroredStatus(task[t]) \in FINALIZED_TASK_STATUSES \ {"FAILED_TO_CANCEL"}
    BY DEF ErroredStatus, FINALIZED_TASK_STATUSES, CANCELED_TASK_STATUSES
  <2>3. TasksOfInstance(t) \subseteq Tasks
    BY DEF TasksOfInstance
  <2> QED
    BY <1>1, <1>2, <1>3, <1>4, <2>1, <2>2, <2>3, EndInv
<1> QED
  BY <1>5, <1>6, <1>7

\* A user cancels the execution.
LEMMA UserCancelInv ==
  ASSUME Regular, Inv, TypeOK', NEW p \in {"cancel", "force_cancel"}, UserCancel(p)
  PROVE  Inv'
<1>1. BeginReturned /\ pc = "idle"
  BY RegularLock DEF UserCancel
<1>2. /\ UNCHANGED <<task, execution, begin, worker, calls>>
      /\ pc' \in {"cancel", "force_cancel"}
  BY DEF UserCancel, Goto, workers
<1> QED
  BY <1>1, <1>2 DEF Inv, FreshInv, BegunInv, ReportsInv, ScheduledInv, RunningInv,
     CancelingInv, AdvancingInv, DecidedInv, ClosedInv, Canceling, Ahead,
     BeginReturned, Decidable

\* _cancel_tasks_execution decides whether to go through the tasks.
LEMMA CancelTasksExecutionInv ==
  ASSUME Inv, TypeOK', CancelTasksExecution
  PROVE  Inv'
<1>1. pc \in {"cancel", "force_cancel"} /\ UNCHANGED <<task, begin, worker, calls>>
  BY DEF CancelTasksExecution, workers
<1>2. BeginReturned /\ BeginReturned'
  BY <1>1 DEF Inv, FreshInv, BeginReturned
<1>3. CASE Loop("canceling") \/ Loop("force_canceling")
  <2>1. pc' \in {"canceling", "force_canceling"} /\ at' = 1 /\ seen' = task
    BY <1>3 DEF Loop
  <2>2. execution' = "CANCELLING"
    BY <1>3, <1>2 DEF CancelTasksExecution, Loop, Release, Goto, Inv, BegunInv,
       FINALIZED_TASK_STATUSES, CANCELED_TASK_STATUSES
  <2>3. pc' = "canceling" => execution = "RUNNING"
    BY <2>1, <1>2 DEF CancelTasksExecution, Loop, Release, Goto, Inv, BegunInv,
       FINALIZED_TASK_STATUSES, CANCELED_TASK_STATUSES
  <2>4. CancelingInv'
    BY SMT, <1>1, <2>1, <2>2, <2>3, ConstantTypes DEF CancelingInv, Inv, RunningInv, Tasks
  <2> QED
    BY <1>1, <1>2, <2>1, <2>2, <2>4 DEF Inv, FreshInv, BegunInv, ReportsInv,
       ScheduledInv, RunningInv, AdvancingInv, DecidedInv, ClosedInv, Ahead,
       BeginReturned, Decidable, FINALIZED_EXECUTION_STATUSES
<1>4. CASE Goto("enter", Tasks) /\ UNCHANGED execution
  <2>1. pc' = "enter" /\ scope' = Tasks
    BY <1>4 DEF Goto
  <2> QED
    BY <1>1, <1>2, <1>4, <2>1 DEF Inv, FreshInv, BegunInv, ReportsInv,
       ScheduledInv, RunningInv, CancelingInv, AdvancingInv, DecidedInv, ClosedInv,
       Canceling, Ahead, BeginReturned
<1>5. CASE /\ execution \in FINALIZED_TASK_STATUSES
           /\ Release /\ UNCHANGED execution
  <2>1. pc' = "idle"
    BY <1>5 DEF Release, Goto
  <2>2. execution \notin {"RUNNING", "CANCELLING"}
    BY <1>5 DEF FINALIZED_TASK_STATUSES, CANCELED_TASK_STATUSES
  <2> QED
    BY <1>1, <1>2, <1>5, <2>1, <2>2 DEF Inv, FreshInv, BegunInv, ReportsInv,
       ScheduledInv, RunningInv, CancelingInv, AdvancingInv, DecidedInv, ClosedInv,
       Canceling, BeginReturned
<1> QED
  BY <1>3, <1>4, <1>5 DEF CancelTasksExecution

\* Calls carry tasks of the execution.
LEMMA CalledTasks ==
  ASSUME TypeOK
  PROVE  \A c \in calls : c.task \in Tasks
  BY DEF TypeOK

\* A request to cancel may add a call, when the task has failed to cancel.
LEMMA CallsOfRequest ==
  ASSUME task \in [Tasks -> TaskStatuses], NEW t \in Tasks,
         RequestCancellation(t), NEW c \in calls'
  PROVE  c \in calls \/ (c.task = t /\ task'[t] = "FAILED_TO_CANCEL")
<1>1. CASE UNCHANGED calls
  BY <1>1
<1>2. CASE /\ SetStatus(t, "FAILED_TO_CANCEL")
           /\ calls' = calls \cup {Call("process_gone", t)}
  BY SMT, <1>2 DEF SetStatus, Call
<1> QED
  BY <1>1, <1>2 DEF RequestCancellation

\* The loop of _cancel_tasks_execution takes its decision about one task: an
\* on-error task is scheduled only after all it depends on has been gone through.
LEMMA CancelTaskInv ==
  ASSUME Inv, TypeOK', NEW t \in Tasks, CancelTask(t)
  PROVE  Inv'
<1>1. /\ Canceling /\ at <= t /\ at' = t + 1
      /\ UNCHANGED <<execution, begin, pc, seen, scope, started, worker>>
  BY DEF CancelTask
<1>2. BeginReturned /\ BeginReturned' /\ execution = "CANCELLING"
  BY <1>1 DEF Canceling, Inv, FreshInv, CancelingInv, BeginReturned
<1>3. seen[t] = task[t] /\ t \in Int /\ at \in Int
  BY SMT, <1>1, ConstantTypes DEF Inv, CancelingInv, TypeOK, Tasks
<1>4. /\ \A u \in Tasks : u # t => task'[u] = task[u]
      /\ task'[t] # "EXECUTE_ON_ERROR_ONLY"
      /\ task'[t] = "SCHEDULED" => task[t] = "EXECUTE_ON_ERROR_ONLY"
  <2>1. CASE RequestCancellation(t)
    BY <2>1 DEF RequestCancellation, SetStatus, Inv, TypeOK
  <2>2. CASE SetStatus(t, CanceledStatus(t))
    BY <1>3, <2>2 DEF SetStatus, CanceledStatus, Inv, TypeOK
  <2> QED
    BY <2>1, <2>2 DEF CancelTask
<1>5. ASSUME NEW u \in Tasks, u < t PROVE task[u] # "EXECUTE_ON_ERROR_ONLY"
  <2>1. CASE u < at
    BY <1>1, <2>1 DEF Inv, CancelingInv
  <2>2. CASE ~(u < at)
    <3>1. u \in at..(t - 1) /\ u >= at
      BY SMT, <1>3, <1>5, <2>2, ConstantTypes DEF Tasks
    <3>2. ~Cancels(u)
      BY <3>1 DEF CancelTask
    <3> QED
      BY <1>1, <3>1, <3>2 DEF Cancels, Inv, CancelingInv
  <2> QED
    BY <2>1, <2>2
<1>6. ScheduledInv'
  <2> SUFFICES ASSUME NEW u \in Tasks, task'[u] = "SCHEDULED",
                      NEW d \in DependsOn[u]
               PROVE  task'[d] # "EXECUTE_ON_ERROR_ONLY"
    BY DEF ScheduledInv
  <2>1. d \in Tasks /\ d < u
    BY Parents
  <2>2. CASE u = t
    BY <1>4, <1>5, <2>1, <2>2
  <2>3. CASE u # t
    BY <1>4, <2>1, <2>3 DEF Inv, ScheduledInv
  <2> QED
    BY <2>2, <2>3
<1>7. CancelingInv'
  <2>1. ASSUME NEW u \in Tasks, u >= at'
        PROVE  u # t /\ u >= at
    BY SMT, <1>1, <1>3, <2>1, ConstantTypes DEF Tasks
  <2>2. ASSUME NEW u \in Tasks, u < at', u # t
        PROVE  u < t
    BY SMT, <1>1, <1>3, <2>2, ConstantTypes DEF Tasks
  <2> QED
    BY SMT, <1>1, <1>2, <1>4, <1>5, <2>1, <2>2 DEF Inv, CancelingInv
<1>8. ReportsInv'
  <2>1. ASSUME NEW c \in calls'
        PROVE  c \in calls \/ (c.task = t /\ task'[t] = "FAILED_TO_CANCEL")
    <3>1. CASE RequestCancellation(t)
      <4>1. task \in [Tasks -> TaskStatuses]
        BY DEF Inv, TypeOK
      <4> QED
        BY <2>1, <3>1, <4>1, CallsOfRequest
    <3>2. CASE UNCHANGED calls
      BY <2>1, <3>2
    <3> QED
      BY <3>1, <3>2 DEF CancelTask
  <2>2. ASSUME NEW u \in Tasks, task[u] \notin WAITING_TASK_STATUSES
        PROVE  task'[u] \notin WAITING_TASK_STATUSES
    BY <1>4, <2>2 DEF WAITING_TASK_STATUSES
  <2>3. /\ \A c \in calls : c.task \in Tasks
        /\ ReportsInv
    BY CalledTasks DEF Inv
  <2> QED
    BY <1>1, <2>1, <2>2, <2>3 DEF ReportsInv, WAITING_TASK_STATUSES
<1> QED
  BY <1>1, <1>2, <1>6, <1>7, <1>8 DEF Inv, FreshInv, BegunInv, RunningInv,
     AdvancingInv, DecidedInv, ClosedInv, Canceling, Ahead, BeginReturned,
     FINALIZED_EXECUTION_STATUSES

\* The loop of _cancel_tasks_execution ends with advancing the whole execution.
LEMMA TasksCanceledInv ==
  ASSUME Inv, TypeOK', TasksCanceled
  PROVE  Inv'
<1>1. /\ Canceling /\ pc' = "enter" /\ scope' = Tasks
      /\ UNCHANGED <<task, execution, begin, worker, calls>>
  BY DEF TasksCanceled, Goto, workers
<1>2. BeginReturned
  BY <1>1 DEF Canceling, Inv, FreshInv
<1> QED
  BY <1>1, <1>2 DEF Inv, FreshInv, BegunInv, ReportsInv, ScheduledInv, RunningInv,
     CancelingInv, AdvancingInv, DecidedInv, ClosedInv, Canceling, Ahead,
     BeginReturned

\* _advance_execution_state begins; on a finalized execution it does nothing.
LEMMA EnterAdvanceInv ==
  ASSUME Inv, TypeOK', EnterAdvance
  PROVE  Inv'
<1>1. pc = "enter" /\ UNCHANGED <<begin, worker, calls>>
  BY DEF EnterAdvance, workers
<1>2. BeginReturned /\ BeginReturned'
  BY <1>1 DEF Inv, FreshInv, BeginReturned
<1>3. CASE execution \in ACTIVE_EXECUTION_STATUSES
  <2>1. /\ pc' = "advance" /\ at' = 1 /\ seen' = task /\ started' = {}
        /\ UNCHANGED <<task, execution, scope>>
    BY <1>3 DEF EnterAdvance, Loop
  <2>2. execution \in {"RUNNING", "CANCELLING"}
    BY <1>2, <1>3 DEF Inv, BegunInv, ACTIVE_EXECUTION_STATUSES
  <2>3. \A t \in Tasks : t >= 1
    BY SMT, ConstantTypes DEF Tasks
  <2>4. DecidedInv'
    BY <1>1, <2>1, <2>3 DEF Inv, DecidedInv, Decidable, Ahead
  <2> QED
    BY <1>1, <1>2, <2>1, <2>2, <2>4 DEF Inv, FreshInv, BegunInv, ReportsInv,
       ScheduledInv, RunningInv, CancelingInv, AdvancingInv, ClosedInv, Canceling
<1>4. CASE execution \notin ACTIVE_EXECUTION_STATUSES
  <2>1. execution \in {"COMPLETED", "CANCELED", "ERROR"}
    BY <1>2, <1>4 DEF Inv, BegunInv, ACTIVE_EXECUTION_STATUSES
  <2>2. ~Deadlocked(task)
    BY <2>1 DEF Inv, ClosedInv, Deadlocked, Some, FINALIZED_EXECUTION_STATUSES
  <2>3. pc' = "idle" /\ UNCHANGED <<task, execution>>
    BY <1>4, <2>2 DEF EnterAdvance, Release, Goto
  <2> QED
    BY <1>1, <1>2, <2>1, <2>3 DEF Inv, FreshInv, BegunInv, ReportsInv,
       ScheduledInv, RunningInv, CancelingInv, AdvancingInv, DecidedInv, ClosedInv,
       Canceling
<1> QED
  BY <1>3, <1>4

\* The scope of a state advancement consists of whole instances.
LEMMA ScopeStep ==
  ASSUME ScopeInv, [Next]_vars
  PROVE  ScopeInv'
<1>1. ASSUME scope' = Tasks \/ (\E t \in Tasks : scope' = TasksOfInstance(t))
             \/ UNCHANGED scope
      PROVE  ScopeInv'
  BY <1>1 DEF ScopeInv, TasksOfInstance
<1>2. CASE UNCHANGED vars
  BY <1>1, <1>2 DEF vars, handler
<1>3. CASE (\E t \in Tasks : BeginTask(t)) \/ BeginReturns \/ ConductorStep
  BY <1>1, <1>3 DEF BeginTask, BeginReturns, ConductorStep, CancelTasksExecution,
     TasksCanceled, EnterAdvance, Advanced, CancelTask, AdvanceTask, StartTask,
     FailToSchedule, Unschedule, Goto, Release, Loop, handler
<1>4. CASE WorkerStep
  BY <1>1, <1>4 DEF WorkerStep, SetTaskHost, SetTaskProcess, TaskCompleted,
     ConfirmTaskCancellation, SetTaskError, WorkerStartsProcess, ProcessEnds,
     WorkerReports, Goto, handler
<1>5. CASE \/ \E p \in {"cancel", "force_cancel"} : UserCancel(p)
           \/ \E t \in Tasks : \/ WorkerTimesOut(t) \/ WorkerCrashes(t)
                               \/ PostTaskActionsFail(t)
  BY <1>1, <1>5 DEF UserCancel, WorkerTimesOut, WorkerCrashes, PostTaskActionsFail, Goto,
     handler
<1> QED
  BY <1>2, <1>3, <1>4, <1>5 DEF Next, Progress

\* The loop of _advance_execution_state decides about one task.
LEMMA AdvanceTaskInv ==
  ASSUME Inv, ScopeInv, TypeOK', NEW t \in Tasks, AdvanceTask(t)
  PROVE  Inv'
<1>1. /\ pc = "advance" /\ at <= t /\ t \in scope /\ Decidable(t, seen)
      /\ UNCHANGED <<execution, begin>>
  BY DEF AdvanceTask, Advances
<1>2. /\ BeginReturned /\ BeginReturned'
      /\ execution \in {"RUNNING", "CANCELLING"} /\ seen = task
      /\ task[t] = "SCHEDULED" /\ t \in Int /\ at \in Int
  BY SMT, <1>1, ConstantTypes DEF Inv, FreshInv, AdvancingInv, BeginReturned,
     Decidable, TypeOK, Tasks
<1>3. /\ \A u \in Tasks : u # t => task'[u] = task[u]
      /\ task'[t] \in {"PENDING", "FAILED_TO_SCHEDULE", "UNSCHEDULED"}
  BY DEF AdvanceTask, StartTask, FailToSchedule, Unschedule, SetStatus, Inv, TypeOK
<1>4. ScheduledInv'
  <2> SUFFICES ASSUME NEW u \in Tasks, task'[u] = "SCHEDULED",
                      NEW d \in DependsOn[u]
               PROVE  task'[d] # "EXECUTE_ON_ERROR_ONLY"
    BY DEF ScheduledInv
  <2>1. d \in Tasks
    BY Parents
  <2> QED
    BY <1>3, <2>1 DEF Inv, ScheduledInv
<1>5. RunningInv' /\ ClosedInv' /\ FreshInv' /\ BegunInv' /\ CancelingInv'
  <2>1. pc' \in {"advance", "cancel"}
    BY <1>1 DEF AdvanceTask, StartTask, FailToSchedule, Unschedule, Goto
  <2> QED
    BY <1>1, <1>2, <1>3, <2>1 DEF Inv, RunningInv, ClosedInv, FreshInv, BegunInv,
       CancelingInv, Canceling, FINALIZED_EXECUTION_STATUSES
<1>6. ReportsInv'
  <2>1. \A u \in Tasks : worker'[u] # "none" => worker[u] # "none" \/ u = t
    BY DEF AdvanceTask, StartTask, FailToSchedule, Unschedule, Dispatch, workers,
       Inv, TypeOK
  <2>2. \A c \in calls' : c \in calls \/ c.task = t
    BY SMT DEF AdvanceTask, StartTask, FailToSchedule, Unschedule, Dispatch, workers, Call
  <2>3. \A c \in calls : c.task \in Tasks
    BY DEF Inv, TypeOK
  <2> QED
    BY <1>3, <2>1, <2>2, <2>3 DEF Inv, ReportsInv, WAITING_TASK_STATUSES
<1>7. CASE FailToSchedule(t)
  <2>1. pc' = "cancel"
    BY <1>7 DEF FailToSchedule, Goto
  <2> QED
    BY <1>4, <1>5, <1>6, <2>1 DEF Inv, AdvancingInv, DecidedInv, Ahead
<1>8. CASE StartTask(t) \/ Unschedule(t)
  <2>1. /\ pc' = "advance" /\ at' = t + 1 /\ scope' = scope /\ seen' = task'
        /\ started' = started \/ (started' = started \cup {t} /\ task'[t] = "PENDING")
    BY <1>1, <1>2, <1>8 DEF StartTask, Unschedule, SetStatus, Inv, TypeOK
  <2>2. AdvancingInv'
    <3>1. \A u \in started : u \in Tasks /\ task[u] = "PENDING"
      BY <1>1 DEF Inv, AdvancingInv, TypeOK
    <3>2. \A u \in started : task'[u] = "PENDING"
      BY <1>2, <1>3, <3>1
    <3> QED
      BY <1>1, <1>2, <2>1, <3>2 DEF AdvancingInv
  <2>3. DecidedInv'
    <3> SUFFICES ASSUME NEW u \in Tasks, Decidable(u, task')
                 PROVE  Ahead(u)'
      BY DEF DecidedInv, Decidable
    <3>1. u # t /\ task[u] = "SCHEDULED" /\ u \in Int
      BY SMT, <1>3, ConstantTypes DEF Decidable, Tasks
    <3>2. CASE t \in DependsOn[u]
      <4>1. u \in scope /\ u >= t + 1
        BY SMT, <1>1, <1>2, <3>1, <3>2, Parents DEF ScopeInv
      <4> QED
        BY <2>1, <4>1 DEF Ahead
    <3>3. CASE t \notin DependsOn[u]
      <4>1. ASSUME NEW d \in DependsOn[u] PROVE task[d] \in FINALIZED_TASK_STATUSES
        BY <1>3, <3>3, Parents DEF Decidable
      <4>2. Decidable(u, task)
        BY <3>1, <4>1 DEF Decidable
      <4>3. u \in scope /\ u >= at
        BY <1>1, <1>2, <4>2 DEF Inv, DecidedInv, Ahead
      <4>4. ~(u \in at..(t - 1))
        BY <1>2, <4>2, <4>3 DEF AdvanceTask, Advances
      <4>5. u >= t + 1
        BY SMT, <1>2, <3>1, <4>3, <4>4
      <4> QED
        BY <2>1, <4>3, <4>5 DEF Ahead
    <3> QED
      BY <3>2, <3>3
  <2> QED
    BY <1>4, <1>5, <1>6, <2>2, <2>3 DEF Inv
<1> QED
  BY <1>7, <1>8 DEF AdvanceTask

\* When the loop of _advance_execution_state is through, no decision is due.
LEMMA NothingDecidable ==
  ASSUME Inv, Advanced
  PROVE  /\ seen = task /\ execution \in {"RUNNING", "CANCELLING"} /\ BeginReturned
         /\ \A t \in Tasks : ~Decidable(t, task)
         /\ ~Deadlocked(task)
<1>1. /\ pc = "advance" /\ seen = task /\ execution \in {"RUNNING", "CANCELLING"}
      /\ BeginReturned
  BY DEF Advanced, Inv, AdvancingInv, FreshInv
<1>2. ASSUME NEW t \in Tasks, Decidable(t, task) PROVE FALSE
  <2>1. t \in scope /\ t >= at
    BY <1>1, <1>2 DEF Inv, DecidedInv, Ahead
  <2>2. t \in at..NTasks
    BY SMT, <2>1, ConstantTypes DEF Tasks, Inv, TypeOK
  <2> QED
    BY <1>1, <1>2, <2>1, <2>2 DEF Advanced, Advances
<1>3. ~Deadlocked(task)
  BY <1>2, NothingScheduled DEF Deadlocked, Inv
<1> QED
  BY <1>1, <1>2, <1>3

\* _advance_execution_state sets the execution's status; it finds no deadlock.
LEMMA AdvancedInv ==
  ASSUME Inv, TypeOK', Advanced
  PROVE  Inv'
<1>1. /\ seen = task /\ BeginReturned /\ ~Deadlocked(task)
      /\ \A t \in Tasks : ~Decidable(t, task)
  BY NothingDecidable
<1>2. /\ execution' = ExecutionStatus(task) /\ pc' = "idle"
      /\ UNCHANGED <<task, begin, worker, calls>>
  BY <1>1 DEF Advanced, Release, Goto, workers
<1>3. execution' \in {"RUNNING", "CANCELLING", "COMPLETED", "CANCELED", "ERROR"}
  BY <1>1, <1>2 DEF ExecutionStatus
<1>4. RunningInv'
  BY <1>1, <1>2 DEF ExecutionStatus, RunningInv, Some, CANCELED_TASK_STATUSES
<1>5. ClosedInv'
  <2> SUFFICES ASSUME execution' \in FINALIZED_EXECUTION_STATUSES
               PROVE  /\ ~Some(task, ACTIVE_TASK_STATUSES)
                      /\ ~Some(task, {"SCHEDULED"})
    BY <1>2 DEF ClosedInv, Some
  <2>1. ~Some(task, ACTIVE_TASK_STATUSES)
    BY <1>1, <1>2 DEF ExecutionStatus, FINALIZED_EXECUTION_STATUSES
  <2> QED
    BY <1>1, <2>1, NothingScheduled DEF Inv
<1>6. DecidedInv'
  BY <1>1, <1>2 DEF DecidedInv, Decidable
<1> QED
  BY <1>1, <1>2, <1>3, <1>4, <1>5, <1>6 DEF Inv, FreshInv, BegunInv, ReportsInv,
     ScheduledInv, CancelingInv, AdvancingInv, Canceling, BeginReturned

\* Every step of the conductor, of the workers and of users keeps the invariant.
LEMMA NextInv ==
  ASSUME Regular, Inv, ScopeInv, [Next]_vars
  PROVE  Inv'
<1>1. TypeOK'
  BY NextType DEF Inv
<1>2. ASSUME NEW t \in Tasks, BeginTask(t) PROVE Inv'
  BY <1>1, <1>2, BeginTaskInv
<1>3. CASE BeginReturns
  BY <1>1, <1>3, BeginReturnsInv
<1>4. CASE ConductorStep
  BY <1>1, <1>4, CancelTasksExecutionInv, TasksCanceledInv, EnterAdvanceInv,
     AdvancedInv, CancelTaskInv, AdvanceTaskInv DEF ConductorStep
<1>5. CASE WorkerStep
  BY <1>1, <1>5, RegisteringInv, ReportInv, WorkerStepInv DEF WorkerStep
<1>6. CASE \E p \in {"cancel", "force_cancel"} : UserCancel(p)
  BY <1>1, <1>6, UserCancelInv
<1>7. CASE \E t \in Tasks : WorkerTimesOut(t) \/ WorkerCrashes(t)
  BY <1>1, <1>7, WorkerStepInv
<1>8. CASE UNCHANGED vars
  <2>1. UNCHANGED <<task, execution, begin, handler>> /\ UNCHANGED <<worker, calls>>
    BY <1>8 DEF vars, workers
  <2> QED
    BY <1>1, <2>1, IgnoredInv
<1> QED
  BY <1>2, <1>3, <1>4, <1>5, <1>6, <1>7, <1>8, RegularPostTask DEF Next, Progress

\* In regular circumstances the invariant always holds.
THEOREM Invariance == ASSUME Regular PROVE Spec => [](Inv /\ ScopeInv)
<1>1. Init => Inv /\ ScopeInv
  BY InitInv DEF Init, ScopeInv
<1>2. Inv /\ ScopeInv /\ [Next]_vars => (Inv /\ ScopeInv)'
  BY NextInv, ScopeStep
<1> QED
  BY <1>1, <1>2, PTL DEF Spec

\* State advancement never strands an execution, whatever the task graph, the
\* cancellations, the errors, the lost requests and the timeouts:
\* _check_clean_execution_deadlock never finds a scheduled task with nothing
\* active.
THEOREM Deadlockfree == ASSUME Regular PROVE Spec => []NeverDeadlocked
<1>1. Inv => NeverDeadlocked
  BY DEF Inv, FreshInv, BegunInv, NeverDeadlocked
<1> QED
  BY <1>1, Invariance, PTL

-----------------------------------------------------------------------------
(***************************************************************************)
(* What was completed is cleaned up                                        *)
(***************************************************************************)

\* The graphs and circumstances in which no task is cancelled without its execution: a
\* process which vanishes is taken for one that was cancelled, and nothing then schedules
\* the tasks which wait for an error.
Signalled ==
  "vanish" \notin Faults \/ \A t \in Tasks : CreatedStatus[t] = "SCHEDULED"

\* No task waits for an error.
NoneWaits == \A t \in Tasks : task[t] # "EXECUTE_ON_ERROR_ONLY"

\* _cancel_tasks_execution has scheduled what waits for an error, or is about to.
Swept == NoneWaits \/ Canceling

Sound == WAITING_TASK_STATUSES \cup {"PENDING", "STARTING", "RUNNING", "COMPLETED"}

Disturbed == \E t \in Tasks : task[t] \notin Sound

\* Wherever something has gone wrong, the cancellation which schedules the cleanup has
\* been begun, or the handler in progress is about to begin it.
SweptInv ==
  /\ Disturbed \/ execution \in {"CANCELLING", "CANCELED", "ERROR"}
       => \/ Swept
          \/ execution = "COMPLETED"
          \/ pc \in {"cancel", "force_cancel"} /\ execution = "RUNNING"
  /\ \A t \in Tasks : process[t] \in {"interrupted", "killed"} => Swept
  /\ \A c \in calls :
       c.op \in {"confirm_task_cancellation", "process_gone"} => Swept

\* Only what all parents of a task have finalized has become of it.
OrderInv ==
  \A t \in Tasks : task[t] \notin WAITING_TASK_STATUSES
                     => \A d \in DependsOn[t] : task[d] \in FINALIZED_TASK_STATUSES

\* What is active, or reported about, was handed to a worker.
HandedInv ==
  /\ \A t \in Tasks : task[t] \in ACTIVE_TASK_STATUSES \cup {"FAILED_TO_CANCEL"}
                        => worker[t] # "none"
  /\ \A c \in calls : worker[c.task] # "none"

Cleaned(t) ==
  \/ task[t] \in WAITING_TASK_STATUSES
  \/ worker[t] # "none"
  \/ task[t] = "FAILED_TO_SCHEDULE"

\* No cleanup is given up on for which a parent has completed its work.
CleanedInv ==
  \A t \in OnError : \A d \in DependsOn[t] \ OnError :
    task[d] = "COMPLETED" => Cleaned(t)

CInv == OrderInv /\ HandedInv /\ CleanedInv

\* The statuses, as the lemmas below tell them apart.
LEMMA StatusFacts ==
  /\ \A s \in TaskStatuses : \/ s \in WAITING_TASK_STATUSES
                             \/ s \in ACTIVE_TASK_STATUSES
                             \/ s \in FINALIZED_TASK_STATUSES
  /\ \A s \in WAITING_TASK_STATUSES :
       s \notin ACTIVE_TASK_STATUSES \cup FINALIZED_TASK_STATUSES
  /\ \A s \in ACTIVE_TASK_STATUSES : s \notin FINALIZED_TASK_STATUSES
  /\ {"COMPLETED", "FAILED_TO_CANCEL", "FAILED_TO_SCHEDULE", "UNSCHEDULED", "CANCELED",
      "FORCE_CANCELED", "CANCELED_AFTER_COMPLETION", "ERROR"} \subseteq FINALIZED_TASK_STATUSES
  BY DEF TaskStatuses, WAITING_TASK_STATUSES, ACTIVE_TASK_STATUSES,
     FINALIZED_TASK_STATUSES, CANCELED_TASK_STATUSES

\* A step of one task, which is decided about after its parents and only once.
LEMMA OneTaskClean ==
  ASSUME TypeOK, TypeOK', CInv, NEW t \in Tasks,
         \A u \in Tasks : u # t => task'[u] = task[u],
         \A u \in Tasks : worker[u] # "none" => worker'[u] # "none",
         task[t] \in FINALIZED_TASK_STATUSES => task'[t] \in FINALIZED_TASK_STATUSES,
         task'[t] \in WAITING_TASK_STATUSES => task[t] \in WAITING_TASK_STATUSES,
         task'[t] \notin WAITING_TASK_STATUSES
           => \/ task[t] \notin WAITING_TASK_STATUSES
              \/ \A d \in DependsOn[t] : task[d] \in FINALIZED_TASK_STATUSES,
         task'[t] \in ACTIVE_TASK_STATUSES \cup {"FAILED_TO_CANCEL"} => worker'[t] # "none",
         \A c \in calls' : c \in calls \/ (c.task = t /\ worker'[t] # "none"),
         task'[t] = "COMPLETED" => task[t] \in {"COMPLETED"} \cup ACTIVE_TASK_STATUSES,
         \/ t \notin OnError
         \/ Cleaned(t)'
         \/ \A d \in DependsOn[t] \ OnError : task[d] # "COMPLETED"
         \/ ~Cleaned(t)
  PROVE  CInv'
<1>1. OrderInv'
  <2> SUFFICES ASSUME NEW u \in Tasks, task'[u] \notin WAITING_TASK_STATUSES,
                      NEW d \in DependsOn[u]
               PROVE  task'[d] \in FINALIZED_TASK_STATUSES
    BY DEF OrderInv
  <2>1. d \in Tasks /\ d # u
    BY SMT, Parents
  <2>2. task[d] \in FINALIZED_TASK_STATUSES
    BY <2>1 DEF CInv, OrderInv
  <2> QED
    BY <2>1, <2>2
<1>2. HandedInv'
  <2>1. \A c \in calls : c.task \in Tasks
    BY CalledTasks
  <2> QED
    BY <2>1 DEF CInv, HandedInv
<1>3. CleanedInv'
  <2> SUFFICES ASSUME NEW u \in OnError, NEW d \in DependsOn[u] \ OnError,
                      task'[d] = "COMPLETED"
               PROVE  Cleaned(u)'
    BY DEF CleanedInv
  <2>1. u \in Tasks /\ d \in Tasks /\ d # u
    BY Parents, GraphAssumption
  <2>2. CASE d = t
    <3>1. CASE task[t] = "COMPLETED"
      BY <2>1, <2>2, <3>1 DEF CInv, CleanedInv, Cleaned
    <3>2. CASE task[t] \in ACTIVE_TASK_STATUSES
      <4>1. task[u] \in WAITING_TASK_STATUSES
        BY <2>1, <2>2, <3>2, StatusFacts DEF CInv, OrderInv
      <4> QED
        BY <2>1, <2>2, <4>1 DEF Cleaned
    <3> QED
      BY <2>2, <3>1, <3>2
  <2>3. CASE d # t
    BY <2>1, <2>3 DEF CInv, CleanedInv, Cleaned
  <2> QED
    BY <2>2, <2>3
<1> QED
  BY <1>1, <1>2, <1>3 DEF CInv

\* A step in which no status changes.
LEMMA NoTaskClean ==
  ASSUME TypeOK, CInv, UNCHANGED task,
         \A u \in Tasks : worker[u] # "none" => worker'[u] # "none",
         \A c \in calls' : c \in calls \/ (c.task \in Tasks /\ worker'[c.task] # "none")
  PROVE  CInv'
<1>1. \A c \in calls : c.task \in Tasks
  BY CalledTasks
<1>2. OnError \subseteq Tasks
  BY GraphAssumption
<1> QED
  BY <1>1, <1>2 DEF CInv, OrderInv, HandedInv, CleanedInv, Cleaned

\* Workers' steps and registrations keep what is cleaned up.
LEMMA WorkerStepClean ==
  ASSUME TypeOK, TypeOK', CInv, NEW t \in Tasks,
         \/ WorkerStartsProcess(t) \/ WorkerReports(t) \/ WorkerTimesOut(t)
         \/ WorkerCrashes(t) \/ (\E outcome \in Ended : ProcessEnds(t, outcome))
         \/ SetTaskHost(t) \/ SetTaskProcess(t)
  PROVE  CInv'
<1>1. \A u \in Tasks : worker[u] # "none" => worker'[u] # "none"
  BY DEF WorkerStartsProcess, WorkerReports, WorkerTimesOut, WorkerCrashes, ProcessEnds,
     SetTaskHost, SetTaskProcess, Answer, Refuse, TypeOK
<1>2. \A c \in calls' : c \in calls \/ (c.task = t /\ worker'[t] # "none")
  BY SMT, <1>1 DEF WorkerStartsProcess, WorkerReports, WorkerTimesOut, WorkerCrashes,
     ProcessEnds, SetTaskHost, SetTaskProcess, Answer, Refuse, Call
<1>3. CASE UNCHANGED task
  BY <1>1, <1>2, <1>3, NoTaskClean
<1>4. CASE task[t] \in ACTIVE_TASK_STATUSES
           /\ \E s \in ACTIVE_TASK_STATUSES : SetStatus(t, s)
  <2>1. /\ \A u \in Tasks : u # t => task'[u] = task[u]
        /\ task'[t] \in ACTIVE_TASK_STATUSES
    BY <1>4 DEF SetStatus, TypeOK
  <2>2. worker'[t] # "none" /\ task'[t] # "COMPLETED"
    BY <1>1, <1>4, <2>1 DEF CInv, HandedInv, ACTIVE_TASK_STATUSES
  <2>3. Cleaned(t)'
    BY <2>2 DEF Cleaned
  <2> QED
    BY <1>1, <1>2, <1>4, <2>1, <2>2, <2>3, StatusFacts, OneTaskClean
<1> QED
  BY <1>3, <1>4 DEF WorkerStartsProcess, WorkerReports, WorkerTimesOut, WorkerCrashes,
     ProcessEnds, SetTaskHost, SetTaskProcess, ACTIVE_TASK_STATUSES

\* _begin_tasks hands the tasks without parents to workers.
LEMMA BeginTaskClean ==
  ASSUME Regular, TypeOK, TypeOK', CInv, NEW t \in Tasks, BeginTask(t), FreshInv
  PROVE  CInv'
<1>1. SetStatus(t, "PENDING") /\ Dispatch(t) /\ DependsOn[t] = {} /\ begin < t
  BY DEF BeginTask, Regular, First
<1>2. /\ \A u \in Tasks : u # t => task'[u] = task[u]
      /\ task'[t] = "PENDING" /\ worker'[t] # "none"
      /\ \A u \in Tasks : worker[u] # "none" => worker'[u] # "none"
  BY <1>1 DEF SetStatus, Dispatch, TypeOK
<1>3. \A c \in calls' : c \in calls \/ c.task = t
  BY SMT, <1>1 DEF Dispatch, Call
<1>4. task[t] \in WAITING_TASK_STATUSES
  <2>1. t \in 1..NTasks /\ begin \in 0..(NTasks + 1)
    BY DEF TypeOK, Tasks
  <2>2. begin # NTasks + 1 /\ ~(t <= begin)
    BY SMT, <1>1, <2>1, ConstantTypes
  <2>3. ~BeginReturned
    BY <2>2 DEF BeginReturned
  <2> QED
    BY <2>2, <2>3, CreatedStatusAssumption DEF FreshInv
<1>5. task'[t] \in ACTIVE_TASK_STATUSES /\ Cleaned(t)'
  BY <1>2 DEF Cleaned, ACTIVE_TASK_STATUSES
<1> QED
  BY <1>1, <1>2, <1>3, <1>4, <1>5, StatusFacts, OneTaskClean

\* A report ends a task which was handed to its worker.
LEMMA ReportClean ==
  ASSUME Regular, Inv, TypeOK', CInv, NEW t \in Tasks,
         \/ TaskCompleted(t) \/ SetTaskError(t)
         \/ ConfirmTaskCancellation("confirm_task_cancellation", t)
         \/ ConfirmTaskCancellation("process_gone", t)
  PROVE  CInv'
<1>0. TypeOK
  BY DEF Inv
<1>1. /\ calls' \subseteq calls
      /\ \A u \in Tasks : worker[u] # "none" => worker'[u] # "none"
  BY <1>0 DEF TaskCompleted, SetTaskError, ConfirmTaskCancellation, Answer, TypeOK
<1>2. worker[t] # "none" /\ task[t] \notin WAITING_TASK_STATUSES
  <2>1. \E c \in calls : c.task = t
    BY DEF TaskCompleted, SetTaskError, ConfirmTaskCancellation, Call
  <2> QED
    BY <2>1 DEF CInv, HandedInv, Inv, ReportsInv
<1>3. CASE UNCHANGED task
  BY <1>0, <1>1, <1>3, NoTaskClean
<1>4. CASE \E s \in FINALIZED_TASK_STATUSES :
             SetStatus(t, s) /\ (s = "COMPLETED" => task[t] \notin FINALIZED_TASK_STATUSES)
  <2>1. /\ \A u \in Tasks : u # t => task'[u] = task[u]
        /\ task'[t] \in FINALIZED_TASK_STATUSES
        /\ task'[t] = "COMPLETED" => task[t] \notin FINALIZED_TASK_STATUSES
    BY <1>0, <1>4 DEF SetStatus, TypeOK
  <2>2. worker'[t] # "none" /\ Cleaned(t)'
    BY <1>1, <1>2 DEF Cleaned
  <2>3. task'[t] = "COMPLETED" => task[t] \in ACTIVE_TASK_STATUSES
    BY <1>0, <1>2, <2>1, StatusFacts DEF TypeOK
  <2> QED
    BY <1>0, <1>1, <1>2, <2>1, <2>2, <2>3, StatusFacts, OneTaskClean
<1>5. CASE TaskCompleted(t)
  <2>1. task[t] \in Settled => UNCHANGED task
    BY <1>5 DEF TaskCompleted
  <2>2. task[t] \notin Settled => SetStatus(t, CompletedStatus(task[t]))
    BY <1>5 DEF TaskCompleted
  <2>3. /\ CompletedStatus(task[t]) \in FINALIZED_TASK_STATUSES
        /\ CompletedStatus(task[t]) = "COMPLETED" => task[t] # "FAILED_TO_CANCEL"
    BY DEF CompletedStatus, BeingCanceled, FINALIZED_TASK_STATUSES, CANCELED_TASK_STATUSES
  <2> QED
    BY <1>3, <1>4, <2>1, <2>2, <2>3 DEF Settled
<1>6. CASE \/ ConfirmTaskCancellation("confirm_task_cancellation", t)
           \/ ConfirmTaskCancellation("process_gone", t)
  <2>1. UNCHANGED task \/ SetStatus(t, "CANCELED")
    BY <1>6 DEF ConfirmTaskCancellation
  <2> QED
    BY <1>3, <1>4, <2>1, StatusFacts
<1>7. CASE SetTaskError(t)
  <2>1. SetStatus(t, ErroredStatus(task[t]))
    BY <1>7, RegularErrors DEF SetTaskError
  <2>2. ErroredStatus(task[t]) \in FINALIZED_TASK_STATUSES \ {"COMPLETED"}
    BY DEF ErroredStatus, FINALIZED_TASK_STATUSES, CANCELED_TASK_STATUSES
  <2> QED
    BY <1>4, <2>1, <2>2
<1> QED
  BY <1>5, <1>6, <1>7

\* _cancel_tasks_execution ends what is active and schedules what waits; it gives up on
\* nothing which has parents.
LEMMA CancelTaskClean ==
  ASSUME Inv, TypeOK', CInv, NEW t \in Tasks, CancelTask(t)
  PROVE  CInv'
<1>0. TypeOK
  BY DEF Inv
<1>1. /\ Canceling /\ at <= t /\ UNCHANGED worker
  BY DEF CancelTask
<1>2. /\ seen[t] = task[t] /\ Cancels(t)
      /\ pc = "canceling" => task[t] # "FAILED_TO_CANCEL"
  BY <1>1, ConstantTypes DEF CancelTask, Inv, CancelingInv, TypeOK, Tasks
<1>3. CASE AsksWorker(t) /\ RequestCancellation(t)
  <2>1. task[t] = "RUNNING" /\ worker[t] # "none"
    BY <1>2, <1>3 DEF AsksWorker, CInv, HandedInv, ACTIVE_TASK_STATUSES
  <2>2. /\ \A u \in Tasks : u # t => task'[u] = task[u]
        /\ task'[t] \in {"CANCELLING", "FAILED_TO_CANCEL"}
    BY <1>0, <1>3 DEF RequestCancellation, SetStatus, TypeOK
  <2>3. \A c \in calls' : c \in calls \/ c.task = t
    BY <1>0, <1>3, CallsOfRequest DEF TypeOK
  <2>4. Cleaned(t)' /\ "CANCELLING" \in ACTIVE_TASK_STATUSES /\ "RUNNING" \in ACTIVE_TASK_STATUSES
    BY <1>1, <2>1 DEF Cleaned, ACTIVE_TASK_STATUSES
  <2> QED
    BY <1>0, <1>1, <2>1, <2>2, <2>3, <2>4, StatusFacts, OneTaskClean
<1>4. CASE SetStatus(t, CanceledStatus(t)) /\ UNCHANGED calls
  <2>1. /\ \A u \in Tasks : u # t => task'[u] = task[u]
        /\ task'[t] = CanceledStatus(t)
    BY <1>0, <1>4 DEF SetStatus, TypeOK
  <2>2. task[t] = "FAILED_TO_CANCEL" => ForceCancels(t)
    BY <1>1, <1>2 DEF ForceCancels, Canceling
  <2>3. CASE ForceCancels(t)
    <3>1. worker[t] # "none" /\ task'[t] = "FORCE_CANCELED" /\ task[t] \notin WAITING_TASK_STATUSES
      BY <1>2, <2>1, <2>3, StatusFacts DEF ForceCancels, CanceledStatus, CInv, HandedInv
    <3>2. Cleaned(t)'
      BY <1>1, <3>1 DEF Cleaned
    <3> QED
      BY <1>0, <1>1, <1>4, <2>1, <3>1, <3>2, StatusFacts, OneTaskClean
  <2>4. CASE ~ForceCancels(t) /\ task[t] = "EXECUTE_ON_ERROR_ONLY"
    <3>1. /\ task'[t] = "SCHEDULED" /\ task'[t] \in WAITING_TASK_STATUSES
          /\ task[t] \in WAITING_TASK_STATUSES
      BY <1>2, <2>1, <2>4 DEF CanceledStatus, WAITING_TASK_STATUSES
    <3>2. Cleaned(t)'
      BY <3>1 DEF Cleaned
    <3> QED
      BY <1>0, <1>1, <1>4, <2>1, <3>1, <3>2, StatusFacts, OneTaskClean
  <2>5. CASE ~ForceCancels(t) /\ task[t] \in {"PENDING", "STARTING", "RUNNING"}
    <3>1. worker[t] # "none" /\ task[t] \in ACTIVE_TASK_STATUSES
      BY <2>5 DEF CInv, HandedInv, ACTIVE_TASK_STATUSES
    <3>2. task'[t] \in {"CANCELLING_AFTER_COMPLETION", "UNSCHEDULED"}
      BY <1>2, <2>1, <2>5 DEF CanceledStatus
    <3>3. Cleaned(t)' /\ "CANCELLING_AFTER_COMPLETION" \in ACTIVE_TASK_STATUSES
      BY <1>1, <3>1 DEF Cleaned, ACTIVE_TASK_STATUSES
    <3> QED
      BY <1>0, <1>1, <1>4, <2>1, <3>1, <3>2, <3>3, StatusFacts, OneTaskClean
  <2>6. CASE ~ForceCancels(t) /\ task[t] = "SCHEDULED" /\ DependsOn[t] = {}
    <3>1. task'[t] = "UNSCHEDULED" /\ task[t] \in WAITING_TASK_STATUSES
      BY <1>2, <2>1, <2>6 DEF CanceledStatus, WAITING_TASK_STATUSES
    <3> QED
      BY <1>0, <1>1, <1>4, <2>1, <2>6, <3>1, StatusFacts, OneTaskClean
  <2> QED
    BY <1>2, <2>2, <2>3, <2>4, <2>5, <2>6 DEF Cancels
<1> QED
  BY <1>3, <1>4 DEF CancelTask

\* _advance_execution_state gives up only on cleanup for which no parent has completed.
LEMMA AdvanceTaskClean ==
  ASSUME Inv, TypeOK', CInv, NEW t \in Tasks, AdvanceTask(t)
  PROVE  CInv'
<1>0. TypeOK
  BY DEF Inv
<1>1. /\ Decidable(t, task) /\ seen = task
  BY DEF AdvanceTask, Advances, Inv, AdvancingInv
<1>2. /\ \A d \in DependsOn[t] : task[d] \in FINALIZED_TASK_STATUSES
      /\ task[t] = "SCHEDULED" /\ task[t] \in WAITING_TASK_STATUSES
  BY <1>1 DEF Decidable, WAITING_TASK_STATUSES
<1>3. /\ \A u \in Tasks : u # t => task'[u] = task[u]
      /\ \A u \in Tasks : worker[u] # "none" => worker'[u] # "none"
  BY <1>0 DEF AdvanceTask, StartTask, FailToSchedule, Unschedule, SetStatus, Dispatch,
     workers, TypeOK
<1>4. CASE StartTask(t)
  <2>1. task'[t] = "PENDING" /\ worker'[t] # "none"
    BY <1>0, <1>4 DEF StartTask, SetStatus, Dispatch, TypeOK
  <2>2. \A c \in calls' : c \in calls \/ c.task = t
    BY SMT, <1>4 DEF StartTask, Dispatch, Call
  <2>3. Cleaned(t)' /\ task'[t] \in ACTIVE_TASK_STATUSES
    BY <2>1 DEF Cleaned, ACTIVE_TASK_STATUSES
  <2> QED
    BY <1>0, <1>2, <1>3, <2>1, <2>2, <2>3, StatusFacts, OneTaskClean
<1>5. CASE FailToSchedule(t)
  <2>1. task'[t] = "FAILED_TO_SCHEDULE" /\ UNCHANGED calls
    BY <1>0, <1>5 DEF FailToSchedule, SetStatus, TypeOK, workers
  <2>2. Cleaned(t)'
    BY <2>1 DEF Cleaned
  <2> QED
    BY <1>0, <1>2, <1>3, <2>1, <2>2, StatusFacts, OneTaskClean
<1>6. CASE Unschedule(t)
  <2>1. task'[t] = "UNSCHEDULED" /\ UNCHANGED calls /\ ~MayStart(t, task)
    BY <1>0, <1>1, <1>6 DEF Unschedule, SetStatus, TypeOK, workers
  <2>2. CASE t \in OnError
    <3>1. \A d \in DependsOn[t] \ OnError : task[d] # "COMPLETED"
      BY <2>1, <2>2 DEF MayStart, CLEANUP_TASK_TRIGGER_STATUSES
    <3> QED
      BY <1>0, <1>2, <1>3, <2>1, <3>1, StatusFacts, OneTaskClean
  <2>3. CASE t \notin OnError
    BY <1>0, <1>2, <1>3, <2>1, <2>3, StatusFacts, OneTaskClean
  <2> QED
    BY <2>2, <2>3
<1> QED
  BY <1>4, <1>5, <1>6 DEF AdvanceTask

\* No task begins to wait for an error once it is created.
LEMMA NoNewWait ==
  ASSUME Regular, Inv, TypeOK', [Next]_vars, NoneWaits
  PROVE  NoneWaits'
<1>0. TypeOK
  BY DEF Inv
<1>1. ASSUME NEW t \in Tasks,
             \E s \in TaskStatuses \ {"EXECUTE_ON_ERROR_ONLY"} : SetStatus(t, s)
      PROVE  NoneWaits'
  BY <1>0, <1>1 DEF NoneWaits, SetStatus, TypeOK
<1>2. CASE UNCHANGED task
  BY <1>2 DEF NoneWaits
<1>3. \A s \in {"PENDING", "STARTING", "RUNNING", "COMPLETED", "UNSCHEDULED", "CANCELED",
                "FAILED_TO_SCHEDULE", "FAILED_TO_CANCEL", "CANCELLING", "ERROR", "SCHEDULED",
                "CANCELLING_AFTER_COMPLETION", "FORCE_CANCELED", "CANCELED_AFTER_COMPLETION"} :
        s \in TaskStatuses \ {"EXECUTE_ON_ERROR_ONLY"}
  BY DEF TaskStatuses, WAITING_TASK_STATUSES, ACTIVE_TASK_STATUSES,
     FINALIZED_TASK_STATUSES, CANCELED_TASK_STATUSES
<1>4. ASSUME NEW t \in Tasks, BeginTask(t) \/ SetTaskHost(t) \/ SetTaskProcess(t)
      PROVE  NoneWaits'
  BY <1>1, <1>2, <1>3, <1>4 DEF BeginTask, Regular, SetTaskHost, SetTaskProcess
<1>5. ASSUME NEW t \in Tasks,
             \/ TaskCompleted(t) \/ SetTaskError(t)
             \/ ConfirmTaskCancellation("confirm_task_cancellation", t)
             \/ ConfirmTaskCancellation("process_gone", t)
      PROVE  NoneWaits'
  <2>1. /\ CompletedStatus(task[t]) \in {"COMPLETED", "CANCELED_AFTER_COMPLETION"}
        /\ ErroredStatus(task[t]) \in {"CANCELED", "FORCE_CANCELED", "ERROR"}
    BY DEF CompletedStatus, ErroredStatus
  <2> QED
    BY <1>1, <1>2, <1>3, <1>5, <2>1, RegularErrors
       DEF TaskCompleted, SetTaskError, ConfirmTaskCancellation
<1>6. ASSUME NEW t \in Tasks, CancelTask(t)
      PROVE  NoneWaits'
  <2>1. CanceledStatus(t) \in {"FORCE_CANCELED", "SCHEDULED", "CANCELLING_AFTER_COMPLETION",
                               "UNSCHEDULED"}
    BY DEF CanceledStatus
  <2>2. CASE RequestCancellation(t)
    BY <1>1, <1>3, <2>2 DEF RequestCancellation
  <2> QED
    BY <1>1, <1>3, <1>6, <2>1, <2>2 DEF CancelTask
<1>7. ASSUME NEW t \in Tasks, AdvanceTask(t)
      PROVE  NoneWaits'
  BY <1>1, <1>3, <1>7 DEF AdvanceTask, StartTask, FailToSchedule, Unschedule
<1>8. CASE Advanced \/ EnterAdvance \/ CancelTasksExecution \/ TasksCanceled
  <2>1. EnterAdvance => UNCHANGED task
    BY DEF EnterAdvance, Inv, FreshInv, BegunInv, ClosedInv, Deadlocked, Some,
       ACTIVE_EXECUTION_STATUSES, FINALIZED_EXECUTION_STATUSES
  <2>2. Advanced => UNCHANGED task
    BY NothingDecidable DEF Advanced
  <2> QED
    BY <1>2, <1>8, <2>1, <2>2 DEF CancelTasksExecution, TasksCanceled
<1>9. CASE \/ BeginReturns
           \/ \E p \in {"cancel", "force_cancel"} : UserCancel(p)
           \/ \E t \in Tasks : \/ WorkerStartsProcess(t) \/ WorkerReports(t)
                               \/ \E outcome \in Ended : ProcessEnds(t, outcome)
                               \/ WorkerTimesOut(t) \/ WorkerCrashes(t)
           \/ UNCHANGED vars
  BY <1>2, <1>9 DEF BeginReturns, UserCancel, WorkerStartsProcess, WorkerReports,
     ProcessEnds, WorkerTimesOut, WorkerCrashes, vars
<1> QED
  BY <1>4, <1>5, <1>6, <1>7, <1>8, <1>9, RegularPostTask DEF Next, Progress, ConductorStep, WorkerStep

\* The loop of _cancel_tasks_execution leaves nothing waiting for an error.
LEMMA LoopSweeps ==
  ASSUME Inv, TasksCanceled
  PROVE  NoneWaits'
<1> SUFFICES ASSUME NEW t \in Tasks
             PROVE  task[t] # "EXECUTE_ON_ERROR_ONLY"
  BY DEF NoneWaits, TasksCanceled
<1>1. Canceling /\ \A u \in at..NTasks : ~Cancels(u)
  BY DEF TasksCanceled
<1>2. CASE t < at
  BY <1>1, <1>2 DEF Inv, CancelingInv
<1>3. CASE ~(t < at)
  <2>1. t \in at..NTasks /\ t >= at
    BY SMT, <1>3, ConstantTypes DEF Tasks, Inv, TypeOK
  <2> QED
    BY <1>1, <2>1 DEF Cancels, Inv, CancelingInv
<1> QED
  BY <1>2, <1>3

\* A step which is not one of the handler that holds the lock needs it free, or leaves
\* the handler where it is.
LEMMA OthersWait ==
  ASSUME Regular, Inv, Canceling, [Next]_vars
  PROVE  TasksCanceled \/ UNCHANGED pc
<1>1. pc # "idle" /\ ~LockFree /\ BeginReturned
  BY DEF Canceling, LockFree, Inv, FreshInv
<1>2. ASSUME NEW t \in Tasks, BeginTask(t)
      PROVE  FALSE
  BY SMT, <1>1, <1>2, ConstantTypes DEF BeginTask, BeginReturned, Tasks
<1>3. ~BeginReturns
  BY SMT, <1>1, ConstantTypes DEF BeginReturns, BeginReturned, Tasks
<1>4. CASE WorkerStep
  BY <1>1, <1>4 DEF WorkerStep, SetTaskHost, SetTaskProcess, TaskCompleted,
     ConfirmTaskCancellation, SetTaskError, WorkerStartsProcess, ProcessEnds,
     WorkerReports, handler
<1>5. CASE ConductorStep
  BY <1>1, <1>5 DEF ConductorStep, Canceling, CancelTasksExecution, EnterAdvance,
     Advanced, CancelTask, AdvanceTask
<1>6. CASE \/ \E p \in {"cancel", "force_cancel"} : UserCancel(p)
           \/ \E t \in Tasks : WorkerTimesOut(t) \/ WorkerCrashes(t)
           \/ UNCHANGED vars
  BY <1>1, <1>6 DEF UserCancel, WorkerTimesOut, WorkerCrashes, vars, handler
<1> QED
  BY <1>2, <1>3, <1>4, <1>5, <1>6, RegularPostTask DEF Next, Progress

\* What the cancellation has scheduled stays so.
LEMMA SweptStays ==
  ASSUME Regular, Inv, TypeOK', [Next]_vars, Swept
  PROVE  Swept'
<1>1. CASE NoneWaits
  BY <1>1, NoNewWait DEF Swept
<1>2. CASE Canceling
  BY <1>2, OthersWait, LoopSweeps DEF Swept, Canceling
<1> QED
  BY <1>1, <1>2 DEF Swept

\* A task which is not disturbed by a step disturbs nothing.
LEMMA SoundStep ==
  ASSUME TypeOK, NEW t \in Tasks, NEW s, SetStatus(t, s), s \in Sound \/ s = task[t],
         Disturbed'
  PROVE  Disturbed
<1>1. PICK u \in Tasks : task'[u] \notin Sound
  BY DEF Disturbed
<1>2. task[u] \notin Sound
  BY <1>1 DEF SetStatus, TypeOK
<1> QED
  BY <1>2 DEF Disturbed

\* What interrupts a process, or confirms a cancellation, comes from a cancellation.
LEMMA SignalsAreSwept ==
  ASSUME Regular, Signalled, Inv, TypeOK', [Next]_vars, SweptInv,
         "vanish" \in Faults => NoneWaits, ~Swept
  PROVE  /\ \A t \in Tasks : process'[t] \notin {"interrupted", "killed"}
         /\ \A c \in calls' : c.op \notin {"confirm_task_cancellation", "process_gone"}
<1> USE DEF Inv
<1>1. /\ \A t \in Tasks : process[t] \notin {"interrupted", "killed"}
      /\ \A c \in calls : c.op \notin {"confirm_task_cancellation", "process_gone"}
      /\ "vanish" \notin Faults /\ ~Canceling
  BY DEF SweptInv, Swept
<1>2. CASE UNCHANGED <<process, calls>>
  BY <1>1, <1>2
<1>3. ASSUME NEW t \in Tasks, BeginTask(t) \/ AdvanceTask(t)
      PROVE  /\ process' = process
             /\ \A c \in calls' : c \in calls \/ c.op = "set_task_host"
  BY SMT, <1>3 DEF BeginTask, AdvanceTask, StartTask, FailToSchedule, Unschedule, Dispatch,
     workers, Call
<1>4. ASSUME NEW t \in Tasks,
             \/ SetTaskHost(t) \/ SetTaskProcess(t) \/ TaskCompleted(t) \/ SetTaskError(t)
             \/ \E o \in {"confirm_task_cancellation", "process_gone"} :
                  ConfirmTaskCancellation(o, t)
      PROVE  /\ process' = process
             /\ \A c \in calls' : c \in calls \/ c.op = "set_task_error"
  BY SMT, <1>4 DEF SetTaskHost, SetTaskProcess, TaskCompleted, SetTaskError,
     ConfirmTaskCancellation, Answer, Refuse, Call
<1>5. ASSUME NEW t \in Tasks,
             \/ WorkerStartsProcess(t) \/ WorkerTimesOut(t) \/ WorkerCrashes(t)
      PROVE  /\ process' = [process EXCEPT ![t] = "alive"] \/ process' = process
             /\ \A c \in calls' :
                  c \in calls \/ c.op \in {"set_task_process", "set_task_error"}
  BY SMT, <1>5 DEF WorkerStartsProcess, WorkerTimesOut, WorkerCrashes, Call
<1>6. ASSUME NEW t \in Tasks, NEW outcome \in Ended, ProcessEnds(t, outcome)
      PROVE  /\ process' = [process EXCEPT ![t] = outcome] /\ outcome # "killed"
             /\ outcome # "interrupted"
             /\ calls' = calls
  BY <1>1, <1>6 DEF ProcessEnds, Ended
<1>7. ASSUME NEW t \in Tasks, WorkerReports(t)
      PROVE  /\ process' = process
             /\ \A c \in calls' : c \in calls \/ c.op \in {"task_completed", "set_task_error"}
  BY SMT, <1>1, <1>7 DEF WorkerReports, Ended, Call
<1>8. CASE WorkerStep \/ \E t \in Tasks : WorkerTimesOut(t) \/ WorkerCrashes(t)
  <2>1. CASE \E t \in Tasks, outcome \in Ended : ProcessEnds(t, outcome)
    BY <1>1, <1>6, <2>1 DEF TypeOK
  <2>2. CASE \E t \in Tasks : \/ WorkerStartsProcess(t) \/ WorkerTimesOut(t)
                              \/ WorkerCrashes(t)
    BY <1>1, <1>5, <2>2 DEF TypeOK
  <2> QED
    BY <1>1, <1>4, <1>7, <1>8, <2>1, <2>2 DEF WorkerStep
<1>9. CASE ConductorStep
  BY <1>1, <1>2, <1>3, <1>9 DEF ConductorStep, CancelTasksExecution, TasksCanceled,
     EnterAdvance, Advanced, CancelTask, workers
<1>10. CASE \/ BeginReturns \/ UNCHANGED vars
            \/ \E p \in {"cancel", "force_cancel"} : UserCancel(p)
  BY <1>2, <1>10 DEF BeginReturns, UserCancel, vars, workers
<1> QED
  BY <1>1, <1>3, <1>8, <1>9, <1>10, RegularPostTask DEF Next, Progress

\* A report which finds something wrong begins a cancellation, or comes after one.
LEMMA ReportsSweep ==
  ASSUME Regular, Inv, TypeOK', SweptInv, ~Swept, NEW t \in Tasks,
         \/ SetTaskHost(t) \/ SetTaskProcess(t) \/ TaskCompleted(t) \/ SetTaskError(t)
         \/ \E o \in {"confirm_task_cancellation", "process_gone"} :
              ConfirmTaskCancellation(o, t),
         Disturbed' \/ execution' \in {"CANCELLING", "CANCELED", "ERROR"}
  PROVE  \/ execution' = "COMPLETED"
         \/ pc' \in {"cancel", "force_cancel"} /\ execution' = "RUNNING"
<1>1. execution' = execution /\ BeginReturned /\ pc = "idle"
  BY RegularLock, RegularErrors
     DEF SetTaskHost, SetTaskProcess, TaskCompleted, SetTaskError, ConfirmTaskCancellation
<1>2. execution \in {"RUNNING", "COMPLETED"}
  BY <1>1 DEF Inv, BegunInv, SweptInv
<1>3. Disturbed => execution = "COMPLETED"
  BY <1>1 DEF SweptInv
<1>4. CASE SetTaskError(t)
  BY <1>1, <1>2, <1>4, RegularErrors DEF SetTaskError, Goto
<1>5. CASE TaskCompleted(t)
  <2>1. CASE UNCHANGED task
    BY <1>1, <1>2, <1>3, <2>1 DEF Disturbed
  <2>2. CASE SetStatus(t, CompletedStatus(task[t]))
    <3>1. CASE task[t] \in BeingCanceled
      BY <1>1, <1>3, <3>1 DEF Disturbed, BeingCanceled, Sound, WAITING_TASK_STATUSES
    <3>2. CASE task[t] \notin BeingCanceled
      <4>1. CompletedStatus(task[t]) \in Sound
        BY <3>2 DEF CompletedStatus, Sound
      <4> QED
        BY <1>1, <1>2, <1>3, <2>2, <4>1, SoundStep DEF Inv
    <3> QED
      BY <3>1, <3>2
  <2> QED
    BY <1>5, <2>1, <2>2 DEF TaskCompleted
<1>6. CASE SetTaskHost(t) \/ SetTaskProcess(t)
  <2>1. CASE UNCHANGED task
    BY <1>1, <1>2, <1>3, <2>1 DEF Disturbed
  <2>2. CASE \E s : SetStatus(t, s) /\ (s \in Sound \/ s = task[t])
    BY <1>1, <1>2, <1>3, <2>2, SoundStep DEF Inv
  <2> QED
    BY <1>6, <2>1, <2>2 DEF SetTaskHost, SetTaskProcess, Sound
<1>7. CASE \E o \in {"confirm_task_cancellation", "process_gone"} :
             ConfirmTaskCancellation(o, t)
  BY <1>7 DEF ConfirmTaskCancellation, SweptInv, Call
<1> QED
  BY <1>4, <1>5, <1>6, <1>7

\* So does state advancement: it gives up on a task, or on the execution, only because of
\* one which has not completed its work.
LEMMA AdvancingSweeps ==
  ASSUME Regular, Inv, TypeOK', SweptInv, ~Swept,
         Advanced \/ EnterAdvance \/ \E t \in Tasks : AdvanceTask(t),
         Disturbed' \/ execution' \in {"CANCELLING", "CANCELED", "ERROR"}
  PROVE  \/ execution' = "COMPLETED"
         \/ pc' \in {"cancel", "force_cancel"} /\ execution' = "RUNNING"
<1>1. CASE EnterAdvance
  <2>1. pc = "enter"
    BY <1>1 DEF EnterAdvance
  <2>2. UNCHANGED <<task, execution>>
    BY <1>1 DEF EnterAdvance, Inv, FreshInv, BegunInv, ClosedInv, Deadlocked, Some,
       ACTIVE_EXECUTION_STATUSES, FINALIZED_EXECUTION_STATUSES
  <2> QED
    BY <2>1, <2>2 DEF SweptInv, Disturbed
<1>2. CASE pc = "advance"
  <2>1. execution = "RUNNING" /\ ~Disturbed /\ seen = task
    BY <1>2 DEF SweptInv, Inv, AdvancingInv
  <2>2. CASE Advanced
    <3>1. execution' = ExecutionStatus(task) /\ UNCHANGED task
      BY <2>2, NothingDecidable DEF Advanced
    <3>2. ~Some(task, {"CANCELLING", "CANCELLING_AFTER_COMPLETION", "ERROR",
                       "FAILED_TO_SCHEDULE"}) /\ ~Some(task, CANCELED_TASK_STATUSES)
      BY <2>1 DEF Some, Disturbed, Sound, WAITING_TASK_STATUSES, CANCELED_TASK_STATUSES
    <3>3. /\ ~Some(task, {"CANCELLING", "CANCELLING_AFTER_COMPLETION"})
          /\ ~Some(task, {"ERROR", "FAILED_TO_SCHEDULE"})
      BY <3>2 DEF Some
    <3>4. execution' \notin {"CANCELLING", "CANCELED", "ERROR"}
      BY <3>1, <3>2, <3>3 DEF ExecutionStatus
    <3> QED
      BY <2>1, <3>1, <3>4 DEF Disturbed
  <2>3. ASSUME NEW t \in Tasks, AdvanceTask(t)
        PROVE  \/ execution' = "COMPLETED"
               \/ pc' \in {"cancel", "force_cancel"} /\ execution' = "RUNNING"
    <3>1. execution' = execution
      BY <2>3 DEF AdvanceTask
    <3>2. CASE StartTask(t)
      BY <2>1, <3>1, <3>2, SoundStep DEF StartTask, Inv, Sound
    <3>3. CASE FailToSchedule(t)
      BY <2>1, <3>1, <3>3 DEF FailToSchedule, Goto
    <3>4. CASE Unschedule(t)
      <4>1. \A d \in DependsOn[t] : task[d] \in FINALIZED_TASK_STATUSES /\ d \in Tasks
        BY <2>1, <2>3, Parents DEF AdvanceTask, Advances, Decidable
      <4>2. \A d \in DependsOn[t] : task[d] = "COMPLETED"
        BY <2>1, <4>1 DEF Disturbed, Sound, WAITING_TASK_STATUSES, FINALIZED_TASK_STATUSES,
           CANCELED_TASK_STATUSES
      <4>3. MayStart(t, seen)
        BY <2>1, <4>2 DEF MayStart, CLEANUP_TASK_TRIGGER_STATUSES
      <4> QED
        BY <3>4, <4>3 DEF Unschedule
    <3> QED
      BY <2>3, <3>2, <3>3, <3>4 DEF AdvanceTask
  <2> QED
    BY <1>2, <2>2, <2>3 DEF EnterAdvance
<1> QED
  BY <1>1, <1>2 DEF Advanced, AdvanceTask

\* Every step keeps to it that whatever goes wrong is followed by a cancellation.
LEMMA SweptStep ==
  ASSUME Regular, Signalled, Inv, TypeOK', [Next]_vars, SweptInv,
         "vanish" \in Faults => NoneWaits
  PROVE  SweptInv'
<1>1. CASE Swept
  BY <1>1, SweptStays DEF SweptInv
<1>2. CASE ~Swept
  <2>1. /\ \A t \in Tasks : process'[t] \notin {"interrupted", "killed"}
        /\ \A c \in calls' : c.op \notin {"confirm_task_cancellation", "process_gone"}
    BY <1>2, SignalsAreSwept
  <2> SUFFICES ASSUME Disturbed' \/ execution' \in {"CANCELLING", "CANCELED", "ERROR"}
               PROVE  \/ Swept' \/ execution' = "COMPLETED"
                      \/ pc' \in {"cancel", "force_cancel"} /\ execution' = "RUNNING"
    BY <2>1 DEF SweptInv
  <2>2. CASE UNCHANGED <<task, execution, pc>>
    BY <1>2, <2>2 DEF SweptInv, Disturbed
  <2>3. ASSUME NEW t \in Tasks, BeginTask(t)
        PROVE  FALSE
    <3>1. /\ execution = "UNEXECUTED" /\ execution' = execution /\ pc = "idle"
          /\ SetStatus(t, "PENDING")
      BY SMT, <2>3, ConstantTypes DEF BeginTask, Regular, Inv, FreshInv, BeginReturned, Tasks
    <3>2. Disturbed
      BY <2>3, <3>1, SoundStep DEF Inv, Sound
    <3> QED
      BY <1>2, <3>1, <3>2 DEF SweptInv
  <2>4. CASE BeginReturns
    <3>1. execution = "UNEXECUTED" /\ task' = task /\ execution' = "RUNNING"
      BY SMT, <2>4, ConstantTypes DEF BeginReturns, Inv, FreshInv, BeginReturned, Tasks
    <3> QED
      BY <1>2, <3>1 DEF SweptInv, Disturbed
  <2>5. CASE CancelTasksExecution
    <3>1. CASE pc' \in {"canceling", "force_canceling"}
      BY <3>1 DEF Swept, Canceling
    <3>2. CASE pc' \notin {"canceling", "force_canceling"}
      <4>1. execution # "RUNNING" /\ UNCHANGED <<task, execution>>
        BY <2>5, <3>2 DEF CancelTasksExecution, Loop, FINALIZED_TASK_STATUSES,
           CANCELED_TASK_STATUSES
      <4> QED
        BY <1>2, <4>1 DEF SweptInv, Disturbed
    <3> QED
      BY <3>1, <3>2
  <2>6. CASE TasksCanceled \/ \E t \in Tasks : CancelTask(t)
    BY <1>2, <2>6 DEF TasksCanceled, CancelTask, Swept
  <2>7. CASE Advanced \/ EnterAdvance \/ \E t \in Tasks : AdvanceTask(t)
    BY <1>2, <2>7, AdvancingSweeps
  <2>8. CASE \E p \in {"cancel", "force_cancel"} : UserCancel(p)
    <3>1. /\ UNCHANGED <<task, execution>> /\ pc = "idle" /\ BeginReturned
          /\ execution \in ACTIVE_EXECUTION_STATUSES /\ pc' \in {"cancel", "force_cancel"}
      BY <2>8, RegularLock DEF UserCancel, Goto
    <3> QED
      BY <1>2, <3>1 DEF SweptInv, Disturbed, ACTIVE_EXECUTION_STATUSES, Inv, BegunInv
  <2>9. CASE WorkerStep
    <3>1. CASE \E t \in Tasks : \/ WorkerStartsProcess(t) \/ WorkerReports(t)
                                \/ \E outcome \in Ended : ProcessEnds(t, outcome)
      BY <2>2, <3>1 DEF WorkerStartsProcess, WorkerReports, ProcessEnds, handler
    <3> QED
      BY <1>2, <2>9, <3>1, ReportsSweep DEF WorkerStep
  <2>10. CASE UNCHANGED vars \/ \E t \in Tasks : WorkerTimesOut(t) \/ WorkerCrashes(t)
    BY <2>2, <2>10 DEF WorkerTimesOut, WorkerCrashes, handler, vars
  <2> QED
    BY <2>3, <2>4, <2>5, <2>6, <2>7, <2>8, <2>9, <2>10, RegularPostTask DEF Next, Progress, ConductorStep
<1> QED
  BY <1>1, <1>2

\* Every step keeps to it that no cleanup is given up on after a parent completed.
LEMMA CleanStep ==
  ASSUME Regular, Inv, TypeOK', [Next]_vars, CInv
  PROVE  CInv'
<1>0. TypeOK /\ FreshInv
  BY DEF Inv
<1>1. CASE UNCHANGED <<task, worker, calls>>
  BY <1>0, <1>1, NoTaskClean
<1>2. ASSUME NEW t \in Tasks, BeginTask(t) PROVE CInv'
  BY <1>0, <1>2, BeginTaskClean
<1>3. CASE ConductorStep
  <2>1. EnterAdvance => UNCHANGED task
    BY DEF EnterAdvance, Inv, FreshInv, BegunInv, ClosedInv, Deadlocked, Some,
       ACTIVE_EXECUTION_STATUSES, FINALIZED_EXECUTION_STATUSES
  <2>2. Advanced => UNCHANGED task
    BY NothingDecidable DEF Advanced
  <2>3. CASE CancelTasksExecution \/ TasksCanceled \/ EnterAdvance \/ Advanced
    BY <1>1, <2>1, <2>2, <2>3 DEF CancelTasksExecution, TasksCanceled, EnterAdvance, Advanced,
       workers
  <2> QED
    BY <1>3, <2>3, CancelTaskClean, AdvanceTaskClean DEF ConductorStep
<1>4. CASE WorkerStep \/ \E t \in Tasks : WorkerTimesOut(t) \/ WorkerCrashes(t)
  BY <1>0, <1>4, WorkerStepClean, ReportClean DEF WorkerStep
<1>5. CASE \/ BeginReturns \/ UNCHANGED vars
           \/ \E p \in {"cancel", "force_cancel"} : UserCancel(p)
  BY <1>1, <1>5 DEF BeginReturns, UserCancel, vars, workers
<1> QED
  BY <1>2, <1>3, <1>4, <1>5, RegularPostTask DEF Next, Progress

\* The statuses of tasks which have, or have had, a process.
Ran ==
  {"RUNNING", "CANCELLING", "CANCELLING_AFTER_COMPLETION", "FAILED_TO_CANCEL",
   "COMPLETED", "CANCELED", "CANCELED_AFTER_COMPLETION"}

\* Whatever has such a status, or is reported to have ended, has a process.
RanInv ==
  /\ \A t \in Tasks : task[t] \in Ran \/ seen[t] \in Ran => process[t] # "none"
  /\ \A t \in Tasks : worker[t] \in {"registering", "running"} => process[t] # "none"
  /\ \A c \in calls : c.op \notin {"set_task_host", "set_task_error"}
                        => process[c.task] # "none"
  /\ \A t \in Tasks :
       task[t] \notin {"STRANDED_AFTER_DEADLOCK", "CANCELED_FOR_DEBUGGING"}

\* A handler goes through statuses which were written before, or through none.
LEMMA SeenRan ==
  ASSUME TypeOK, RanInv, \A t \in Tasks : process[t] # "none" => process'[t] # "none",
         \/ UNCHANGED seen \/ seen' = task \/ seen' = CreatedStatus
  PROVE  \A t \in Tasks : seen'[t] \in Ran => process'[t] # "none"
<1>1. \A t \in Tasks : CreatedStatus[t] \notin Ran
  BY CreatedStatusAssumption DEF Ran, WAITING_TASK_STATUSES
<1> QED
  BY <1>1 DEF RanInv

\* Starting tasks and giving up on them.
LEMMA AdvanceTaskRan ==
  ASSUME Regular, Inv, RanInv, NEW t \in Tasks, BeginTask(t) \/ AdvanceTask(t)
  PROVE  RanInv'
<1> USE DEF Inv, TypeOK
<1>1. /\ UNCHANGED process
      /\ task' = [task EXCEPT ![t] = task'[t]]
      /\ task'[t] \in {"PENDING", "UNSCHEDULED", "FAILED_TO_SCHEDULE"}
  BY DEF BeginTask, AdvanceTask, StartTask, FailToSchedule, Unschedule, SetStatus, Dispatch,
     workers
<1>2. \/ UNCHANGED seen \/ seen' = CreatedStatus
      \/ seen' = [seen EXCEPT ![t] = "PENDING"]
      \/ seen' = [seen EXCEPT ![t] = "UNSCHEDULED"]
  BY DEF BeginTask, AdvanceTask, StartTask, FailToSchedule, Unschedule, Goto, handler
<1>3. \A u \in Tasks : seen'[u] \in Ran => process'[u] # "none"
  <2>1. CASE UNCHANGED seen \/ seen' = CreatedStatus
    BY <1>1, <2>1, SeenRan
  <2>2. CASE \/ seen' = [seen EXCEPT ![t] = "PENDING"]
             \/ seen' = [seen EXCEPT ![t] = "UNSCHEDULED"]
    BY <1>1, <2>2 DEF RanInv, Ran
  <2> QED
    BY <1>2, <2>1, <2>2
<1>4. \A u \in Tasks : task'[u] \in Ran => process'[u] # "none"
  BY <1>1 DEF RanInv, Ran
<1>5. /\ worker' = worker \/ worker' = [worker EXCEPT ![t] = "hosting"]
      /\ \A c \in calls' : c \in calls \/ c.op = "set_task_host"
  BY SMT DEF BeginTask, AdvanceTask, StartTask, FailToSchedule, Unschedule, Dispatch, Call,
     workers
<1> QED
  BY <1>1, <1>3, <1>4, <1>5 DEF RanInv

\* Cancelling a task: only those which have a process are asked to stop.
LEMMA CancelTaskRan ==
  ASSUME Inv, RanInv, NEW t \in Tasks, CancelTask(t)
  PROVE  RanInv'
<1> USE DEF Inv, TypeOK
<1>1. UNCHANGED <<worker, seen>>
  BY DEF CancelTask
<1>2. \A u \in Tasks : process[u] # "none" => process'[u] # "none"
  BY DEF CancelTask, RequestCancellation, Interrupt
<1>3. \A c \in calls' : c \in calls \/ (c.task = t /\ process[t] \in Ended)
  BY SMT DEF CancelTask, RequestCancellation, Call
<1>4. /\ task' = [task EXCEPT ![t] = task'[t]]
      /\ task'[t] \in {"CANCELLING", "FAILED_TO_CANCEL", "FORCE_CANCELED", "SCHEDULED",
                       "CANCELLING_AFTER_COMPLETION", "UNSCHEDULED"}
      /\ task'[t] \in Ran => seen[t] \in {"RUNNING", "FAILED_TO_CANCEL"}
  BY DEF CancelTask, RequestCancellation, CanceledStatus, AsksWorker, SetStatus, Ran
<1>5. \A u \in Tasks : task'[u] \in Ran => process[u] # "none"
  BY <1>4 DEF RanInv, Ran
<1> QED
  BY <1>1, <1>2, <1>3, <1>4, <1>5 DEF RanInv, Ended

\* Reports: a task runs, is completed or confirms its cancellation in a process.
LEMMA ReportRan ==
  ASSUME Regular, Inv, RanInv, NEW t \in Tasks,
         \/ SetTaskHost(t) \/ SetTaskProcess(t) \/ TaskCompleted(t) \/ SetTaskError(t)
         \/ \E o \in {"confirm_task_cancellation", "process_gone"} :
              ConfirmTaskCancellation(o, t)
  PROVE  RanInv'
<1> USE DEF Inv, TypeOK
<1>1. /\ UNCHANGED process /\ (UNCHANGED seen \/ seen' = CreatedStatus)
      /\ task' = [task EXCEPT ![t] = task'[t]]
  BY RegularErrors DEF SetTaskHost, SetTaskProcess, TaskCompleted, SetTaskError,
     ConfirmTaskCancellation, SetStatus, Goto, handler
<1>2. \A u \in Tasks : seen'[u] \in Ran => process'[u] # "none"
  BY <1>1, SeenRan
<1>3. /\ \A c \in calls' : c \in calls \/ c.op = "set_task_error"
      /\ \A u \in Tasks : worker'[u] \in {"registering", "running"} =>
                             worker[u] \in {"registering", "running"}
  BY SMT DEF SetTaskHost, SetTaskProcess, TaskCompleted, SetTaskError,
     ConfirmTaskCancellation, Answer, Refuse, Call
<1>4. /\ task'[t] \in Ran => process[t] # "none"
      /\ task'[t] \notin {"STRANDED_AFTER_DEADLOCK", "CANCELED_FOR_DEBUGGING"}
  <2>1. CASE SetTaskHost(t)
    BY <2>1 DEF SetTaskHost, SetStatus, Ran, RanInv
  <2>2. ASSUME NEW o \in {"set_task_process", "task_completed", "process_gone",
                          "confirm_task_cancellation"}, Call(o, t) \in calls
        PROVE  process[t] # "none"
    BY SMT, <2>2 DEF Call, RanInv
  <2>3. CASE SetTaskProcess(t)
    BY <2>2, <2>3 DEF SetTaskProcess, SetStatus, RanInv
  <2>4. CASE TaskCompleted(t)
    BY <2>2, <2>4 DEF TaskCompleted, SetStatus, CompletedStatus, RanInv
  <2>5. CASE SetTaskError(t)
    <3>1. task'[t] = ErroredStatus(task[t])
      BY <2>5, RegularErrors DEF SetTaskError, SetStatus
    <3>2. ErroredStatus(task[t]) \in Ran => task[t] \in BeingCanceled
      BY DEF ErroredStatus, Ran
    <3>3. BeingCanceled \subseteq Ran
      BY DEF BeingCanceled, Ran
    <3> QED
      BY <3>1, <3>2, <3>3 DEF RanInv, ErroredStatus
  <2>6. CASE \E o \in {"confirm_task_cancellation", "process_gone"} :
               ConfirmTaskCancellation(o, t)
    BY <2>2, <2>6 DEF ConfirmTaskCancellation, SetStatus, RanInv
  <2> QED
    BY <2>1, <2>3, <2>4, <2>5, <2>6
<1> QED
  BY <1>1, <1>2, <1>3, <1>4 DEF RanInv

\* Every step keeps to it that what has run has had a process.
LEMMA RanStep ==
  ASSUME Regular, Inv, RanInv, [Next]_vars
  PROVE  RanInv'
<1> USE DEF Inv, TypeOK
<1>1. ASSUME UNCHANGED <<task, worker, process, calls>>,
             UNCHANGED seen \/ seen' = task \/ seen' = CreatedStatus
      PROVE  RanInv'
  <2>1. \A t \in Tasks : seen'[t] \in Ran => process'[t] # "none"
    BY <1>1, SeenRan
  <2> QED
    BY <1>1, <2>1 DEF RanInv
<1>2. CASE ConductorStep
  <2>1. EnterAdvance => UNCHANGED task
    BY DEF EnterAdvance, FreshInv, BegunInv, ClosedInv, Deadlocked, Some,
       ACTIVE_EXECUTION_STATUSES, FINALIZED_EXECUTION_STATUSES
  <2>2. Advanced => UNCHANGED task
    BY NothingDecidable DEF Advanced
  <2>3. CASE CancelTasksExecution \/ TasksCanceled \/ EnterAdvance \/ Advanced
    BY <1>1, <2>1, <2>2, <2>3 DEF CancelTasksExecution, TasksCanceled, EnterAdvance, Advanced,
       Goto, Release, Loop, workers
  <2> QED
    BY <1>2, <2>3, CancelTaskRan, AdvanceTaskRan DEF ConductorStep
<1>3. CASE \/ BeginReturns \/ UNCHANGED vars
           \/ \E p \in {"cancel", "force_cancel"} : UserCancel(p)
  BY <1>1, <1>3 DEF BeginReturns, UserCancel, Goto, vars, workers, handler
<1>4. ASSUME NEW t \in Tasks,
             \/ WorkerStartsProcess(t) \/ WorkerReports(t)
             \/ \E outcome \in Ended : ProcessEnds(t, outcome)
             \/ WorkerTimesOut(t) \/ WorkerCrashes(t)
      PROVE  RanInv'
  <2>1. /\ UNCHANGED <<task, seen>>
        /\ \A u \in Tasks : process[u] # "none" => process'[u] # "none"
    BY <1>4 DEF WorkerStartsProcess, WorkerReports, ProcessEnds, WorkerTimesOut, WorkerCrashes,
       Ended, handler
  <2>2. \A c \in calls' : \/ c \in calls
                          \/ c.op = "set_task_error"
                          \/ c.task = t /\ process'[t] # "none"
    <3>1. CASE WorkerStartsProcess(t) \/ WorkerReports(t)
      <4>1. process'[t] # "none"
        BY <3>1 DEF WorkerStartsProcess, WorkerReports, Ended
      <4>2. \A c \in calls' : c \in calls \/ c.task = t
        BY SMT, <3>1 DEF WorkerStartsProcess, WorkerReports, Call
      <4> QED
        BY <4>1, <4>2
    <3>2. CASE \/ \E outcome \in Ended : ProcessEnds(t, outcome)
               \/ WorkerTimesOut(t) \/ WorkerCrashes(t)
      BY SMT, <3>2 DEF ProcessEnds, WorkerTimesOut, WorkerCrashes, Call
    <3> QED
      BY <1>4, <3>1, <3>2
  <2>3. \A u \in Tasks : worker'[u] \in {"registering", "running"} =>
          \/ worker[u] \in {"registering", "running"}
          \/ process'[u] # "none"
    BY <1>4 DEF WorkerStartsProcess, WorkerReports, ProcessEnds, WorkerTimesOut, WorkerCrashes
  <2> QED
    BY <2>1, <2>2, <2>3 DEF RanInv
<1> QED
  BY <1>2, <1>3, <1>4, AdvanceTaskRan, ReportRan, RegularPostTask
     DEF Next, Progress, WorkerStep

\* All of these hold of an execution which was just created.
LEMMA InitClean ==
  ASSUME Init, Signalled
  PROVE  SweptInv /\ CInv /\ RanInv /\ ("vanish" \in Faults => NoneWaits)
<1>1. \A t \in Tasks : task[t] \in WAITING_TASK_STATUSES /\ task[t] = CreatedStatus[t]
  BY CreatedStatusAssumption DEF Init
<1>2. calls = {} /\ execution = "UNEXECUTED" /\ \A t \in Tasks : process[t] = "none"
  BY DEF Init
<1>3. OnError \subseteq Tasks
  BY GraphAssumption
<1>4. SweptInv
  BY <1>1, <1>2 DEF SweptInv, Disturbed, Sound
<1>5. CInv
  BY <1>1, <1>2, <1>3, StatusFacts DEF CInv, OrderInv, HandedInv, CleanedInv, Cleaned
<1>6. RanInv
  BY <1>1, <1>2 DEF RanInv, Ran, Init, WAITING_TASK_STATUSES
<1> QED
  BY <1>1, <1>4, <1>5, <1>6 DEF Signalled, NoneWaits

\* The cleanup after whatever the plain tasks of an execution that failed or was cancelled
\* have completed is started in a process, in every graph and however errors,
\* cancellations, lost requests, crashes, timeouts and late reports interleave, unless no
\* worker is found for it or another cancellation or its worker's error stops it before
\* its process starts; this as long as no process vanishes of an execution some of whose
\* tasks wait for an error (_cancel_tasks_execution, _advance_execution_state).
THEOREM CleanupIsRun == ASSUME Regular, Signalled PROVE Spec => []CleanupRuns
<1> DEFINE I == SweptInv /\ CInv /\ RanInv /\ ("vanish" \in Faults => NoneWaits)
<1>1. Init => I
  BY InitClean
<1>2. Inv /\ ScopeInv /\ I /\ [Next]_vars => I'
  <2> SUFFICES ASSUME Inv, ScopeInv, I, [Next]_vars
               PROVE  I'
    OBVIOUS
  <2>1. TypeOK'
    BY NextType DEF Inv
  <2>2. "vanish" \in Faults => NoneWaits'
    BY <2>1, NoNewWait
  <2> QED
    BY <2>1, <2>2, SweptStep, CleanStep, RanStep
<1>3. Inv /\ I => CleanupRuns
  <2> SUFFICES ASSUME Inv, I, execution \in {"ERROR", "CANCELED"}, NEW t \in OnError,
                      NEW d \in DependsOn[t] \ OnError, task[d] = "COMPLETED"
               PROVE  \/ task[t] = "FAILED_TO_SCHEDULE"
                      \/ /\ worker[t] # "none"
                         /\ \/ process[t] # "none"
                            \/ task[t] \in {"UNSCHEDULED", "FORCE_CANCELED", "ERROR"}
    BY DEF CleanupRuns
  <2>1. t \in Tasks
    BY GraphAssumption
  <2>2. NoneWaits
    BY DEF SweptInv, Swept, Inv, CancelingInv
  <2>3. task[t] \notin WAITING_TASK_STATUSES
    BY <2>1, <2>2 DEF NoneWaits, WAITING_TASK_STATUSES, Inv, ClosedInv,
       FINALIZED_EXECUTION_STATUSES
  <2>4. Cleaned(t)
    BY DEF CInv, CleanedInv
  <2>5. task[t] \in FINALIZED_TASK_STATUSES
    BY <2>1, <2>3, StatusFacts DEF Inv, TypeOK, ClosedInv, FINALIZED_EXECUTION_STATUSES
  <2>6. \/ process[t] # "none"
        \/ task[t] \in {"UNSCHEDULED", "FORCE_CANCELED", "ERROR", "FAILED_TO_SCHEDULE"}
    BY <2>1, <2>5 DEF RanInv, Ran, FINALIZED_TASK_STATUSES, CANCELED_TASK_STATUSES
  <2> QED
    BY <2>3, <2>4, <2>6 DEF Cleaned
<1> QED
  BY <1>1, <1>2, <1>3, Invariance, PTL DEF Spec

-----------------------------------------------------------------------------
(***************************************************************************)
(* The execution implements the abstract workflow: every step of the       *)
(* conductor and of the workers maps to a step of Workflow, or to a        *)
(* stutter, for every task graph.                                          *)
(***************************************************************************)

\* The stages partition the statuses.
LEMMA Stages ==
  ASSUME NEW status
  PROVE  /\ status \in WAITING_TASK_STATUSES => Stage(status) = "waiting"
         /\ status \in ACTIVE_TASK_STATUSES => Stage(status) = "active"
         /\ status \in FINALIZED_TASK_STATUSES => Stage(status) = "done"
  BY DEF Stage, WAITING_TASK_STATUSES, ACTIVE_TASK_STATUSES,
     FINALIZED_TASK_STATUSES, CANCELED_TASK_STATUSES

\* A step which changes the stage of no task and not the phase stutters.
LEMMA Stutters ==
  ASSUME TypeOK, TypeOK', \A u \in Tasks : Stage(task'[u]) = Stage(task[u]),
         Phase(execution') = Phase(execution)
  PROVE  [W!Next]_(<<[t \in Tasks |-> Stage(task[t])], Phase(execution)>>)
  OBVIOUS

\* A step which finalizes one task of an execution that is not.
LEMMA Finishes ==
  ASSUME TypeOK, TypeOK', NEW t \in Tasks,
         \A u \in Tasks : u # t => task'[u] = task[u],
         task'[t] \in FINALIZED_TASK_STATUSES,
         execution \notin FINALIZED_EXECUTION_STATUSES \/ Stage(task[t]) = "done",
         UNCHANGED execution
  PROVE  [W!Next]_(<<[u \in Tasks |-> Stage(task[u])], Phase(execution)>>)
<1>1. Stage(task'[t]) = "done"
  BY Stages
<1>2. CASE Stage(task[t]) = "done"
  BY <1>1, <1>2, Stutters
<1>3. CASE Stage(task[t]) # "done"
  <2>1. Phase(execution) # "closed"
    BY <1>3 DEF Phase
  <2>2. \A u \in Tasks :
          Stage(task'[u]) = IF u = t THEN "done" ELSE Stage(task[u])
    BY <1>1
  <2>3. W!Finish(t)
    BY <1>3, <2>1, <2>2 DEF W!Finish
  <2> QED
    BY <2>3 DEF W!Next
<1> QED
  BY <1>2, <1>3

\* A step which starts a task whose parents have finalized.
LEMMA Starts ==
  ASSUME TypeOK, TypeOK', NEW t \in Tasks,
         \A u \in Tasks : u # t => task'[u] = task[u],
         task[t] \in WAITING_TASK_STATUSES,
         \A d \in DependsOn[t] : task[d] \in FINALIZED_TASK_STATUSES,
         task'[t] = "PENDING",
         execution \notin FINALIZED_EXECUTION_STATUSES,
         UNCHANGED execution
  PROVE  [W!Next]_(<<[u \in Tasks |-> Stage(task[u])], Phase(execution)>>)
<1>1. Stage(task[t]) = "waiting" /\ Stage(task'[t]) = "active"
  BY Stages DEF ACTIVE_TASK_STATUSES
<1>2. \A d \in DependsOn[t] : d \in Tasks /\ Stage(task[d]) = "done"
  BY Stages, Parents
<1>3. Phase(execution) # "closed"
  BY DEF Phase
<1>4. W!Start(t)
  BY <1>1, <1>2, <1>3 DEF W!Start
<1> QED
  BY <1>4 DEF W!Next

\* A step which leaves the statuses of the tasks alone, and those of the
\* execution within a phase.
LEMMA TasksUnchanged ==
  ASSUME TypeOK, TypeOK', UNCHANGED task,
         \/ UNCHANGED execution
         \/ /\ execution \in {"RUNNING", "CANCELLING"}
            /\ execution' \in {"RUNNING", "CANCELLING"}
  PROVE  [W!Next]_(<<[t \in Tasks |-> Stage(task[t])], Phase(execution)>>)
<1>1. \A s \in {"RUNNING", "CANCELLING"} : Phase(s) = "open"
  BY DEF Phase, ACTIVE_EXECUTION_STATUSES, FINALIZED_EXECUTION_STATUSES
<1>2. \A u \in Tasks : Stage(task'[u]) = Stage(task[u])
  OBVIOUS
<1>3. Phase(execution') = Phase(execution)
  BY <1>1
<1> QED
  BY <1>2, <1>3, Stutters

\* _begin_tasks starts the first tasks.
LEMMA BeginTaskRefines ==
  ASSUME Regular, Inv, TypeOK', NEW t \in Tasks, BeginTask(t)
  PROVE  [W!Next]_(<<[u \in Tasks |-> Stage(task[u])], Phase(execution)>>)
<1>1. SetStatus(t, "PENDING") /\ First(t) /\ begin < t /\ UNCHANGED execution
  BY DEF BeginTask, Regular
<1>2. ~BeginReturned /\ ~(t <= begin)
  BY SMT, <1>1, ConstantTypes DEF BeginReturned, Inv, TypeOK, Tasks
<1>3. execution = "UNEXECUTED" /\ task[t] = "SCHEDULED" /\ DependsOn[t] = {}
  BY <1>1, <1>2 DEF Inv, FreshInv, First
<1>4. task'[t] = "PENDING" /\ \A u \in Tasks : u # t => task'[u] = task[u]
  BY <1>1 DEF SetStatus, Inv, TypeOK
<1>5. /\ execution \notin FINALIZED_EXECUTION_STATUSES
      /\ task[t] \in WAITING_TASK_STATUSES
  BY <1>3 DEF FINALIZED_EXECUTION_STATUSES, WAITING_TASK_STATUSES
<1> QED
  BY <1>1, <1>3, <1>4, <1>5, Starts DEF Inv

\* Its return opens the workflow.
LEMMA BeginReturnsRefines ==
  ASSUME Inv, BeginReturns
  PROVE  [W!Next]_(<<[t \in Tasks |-> Stage(task[t])], Phase(execution)>>)
<1>1. execution' = "RUNNING" /\ UNCHANGED task /\ ~BeginReturned
  BY SMT, ConstantTypes DEF BeginReturns, BeginReturned, Tasks
<1>2. execution = "UNEXECUTED"
  BY <1>1 DEF Inv, FreshInv
<1>3. Phase(execution) = "new" /\ Phase(execution') = "open"
  BY <1>1, <1>2 DEF Phase, ACTIVE_EXECUTION_STATUSES, FINALIZED_EXECUTION_STATUSES
<1>4. W!Open
  BY <1>1, <1>3 DEF W!Open
<1> QED
  BY <1>4 DEF W!Next

\* Statuses which are equal, or both active, have the same stage.
LEMMA SameStage ==
  ASSUME NEW old, NEW new,
         \/ new = old
         \/ old \in ACTIVE_TASK_STATUSES /\ new \in ACTIVE_TASK_STATUSES
  PROVE  Stage(new) = Stage(old)
  BY SMT, Stages

\* set_task_host and set_task_process move tasks which are active.
LEMMA TakenRefines ==
  ASSUME TypeOK, TypeOK', NEW t \in Tasks, SetTaskHost(t) \/ SetTaskProcess(t)
  PROVE  [W!Next]_(<<[u \in Tasks |-> Stage(task[u])], Phase(execution)>>)
<1>1. UNCHANGED execution
  BY DEF SetTaskHost, SetTaskProcess
<1>2. \A u \in Tasks :
        \/ task'[u] = task[u]
        \/ task[u] \in ACTIVE_TASK_STATUSES /\ task'[u] \in ACTIVE_TASK_STATUSES
  BY DEF SetTaskHost, SetTaskProcess, SetStatus, TypeOK, ACTIVE_TASK_STATUSES
<1>3. \A u \in Tasks : Stage(task'[u]) = Stage(task[u])
  BY <1>2, SameStage
<1> QED
  BY <1>1, <1>3, Stutters

\* A report of an end finalizes its task, or is ignored.
LEMMA EndReported ==
  ASSUME Regular, NEW t \in Tasks,
         \/ TaskCompleted(t) \/ SetTaskError(t)
         \/ ConfirmTaskCancellation("confirm_task_cancellation", t)
         \/ ConfirmTaskCancellation("process_gone", t)
  PROVE  /\ UNCHANGED execution
         /\ \E c \in calls : c.task = t
         /\ \/ UNCHANGED task
            \/ \E s \in FINALIZED_TASK_STATUSES : SetStatus(t, s)
<1>1. UNCHANGED execution
  BY RegularErrors DEF TaskCompleted, SetTaskError, ConfirmTaskCancellation
<1>2. \E c \in calls : c.task = t
  BY DEF TaskCompleted, SetTaskError, ConfirmTaskCancellation, Call
<1>3. \/ UNCHANGED task
      \/ \E s \in FINALIZED_TASK_STATUSES : SetStatus(t, s)
  BY RegularErrors DEF TaskCompleted, SetTaskError, ConfirmTaskCancellation,
     CompletedStatus, ErroredStatus, FINALIZED_TASK_STATUSES,
     CANCELED_TASK_STATUSES
<1> QED
  BY <1>1, <1>2, <1>3

\* Only active tasks are finalized by such a report.
LEMMA EndRefines ==
  ASSUME Inv, TypeOK', NEW t \in Tasks, UNCHANGED execution,
         \E c \in calls : c.task = t,
         NEW s \in FINALIZED_TASK_STATUSES, SetStatus(t, s)
  PROVE  [W!Next]_(<<[u \in Tasks |-> Stage(task[u])], Phase(execution)>>)
<1>1. TypeOK
  BY DEF Inv
<1>2. /\ task'[t] \in FINALIZED_TASK_STATUSES
      /\ \A u \in Tasks : u # t => task'[u] = task[u]
  BY <1>1 DEF SetStatus, TypeOK
<1>3. task[t] \notin WAITING_TASK_STATUSES
  BY DEF Inv, ReportsInv
<1>4. \/ execution \notin FINALIZED_EXECUTION_STATUSES
      \/ task[t] \in FINALIZED_TASK_STATUSES
  BY <1>1, <1>3 DEF Inv, ClosedInv, TypeOK, TaskStatuses
<1>5. execution \notin FINALIZED_EXECUTION_STATUSES \/ Stage(task[t]) = "done"
  BY <1>4, Stages
<1> QED
  BY <1>1, <1>2, <1>5, Finishes

\* The reports of workers finalize active tasks, and only those.
LEMMA ReportsRefine ==
  ASSUME Regular, Inv, TypeOK', WorkerStep
  PROVE  [W!Next]_(<<[u \in Tasks |-> Stage(task[u])], Phase(execution)>>)
<1>1. TypeOK
  BY DEF Inv
<1>2. PICK t \in Tasks :
        \/ SetTaskHost(t) \/ SetTaskProcess(t) \/ TaskCompleted(t)
        \/ ConfirmTaskCancellation("confirm_task_cancellation", t)
        \/ ConfirmTaskCancellation("process_gone", t)
        \/ SetTaskError(t) \/ WorkerStartsProcess(t)
        \/ (\E outcome \in Ended : ProcessEnds(t, outcome)) \/ WorkerReports(t)
  BY DEF WorkerStep
<1>3. CASE \/ WorkerStartsProcess(t) \/ WorkerReports(t)
           \/ \E outcome \in Ended : ProcessEnds(t, outcome)
  <2>1. UNCHANGED <<task, execution>>
    BY <1>3 DEF WorkerStartsProcess, WorkerReports, ProcessEnds
  <2> QED
    BY <1>1, <2>1, TasksUnchanged
<1>4. CASE SetTaskHost(t) \/ SetTaskProcess(t)
  BY <1>1, <1>4, TakenRefines
<1>5. CASE \/ TaskCompleted(t) \/ SetTaskError(t)
           \/ ConfirmTaskCancellation("confirm_task_cancellation", t)
           \/ ConfirmTaskCancellation("process_gone", t)
  <2>1. /\ UNCHANGED execution
        /\ \E c \in calls : c.task = t
        /\ UNCHANGED task \/ \E s \in FINALIZED_TASK_STATUSES : SetStatus(t, s)
    BY <1>5, EndReported
  <2>2. CASE UNCHANGED task
    BY <1>1, <2>1, <2>2, TasksUnchanged
  <2>3. CASE \E s \in FINALIZED_TASK_STATUSES : SetStatus(t, s)
    BY <2>1, <2>3, EndRefines
  <2> QED
    BY <2>1, <2>2, <2>3
<1> QED
  BY <1>2, <1>3, <1>4, <1>5

\* _advance_execution_state closes the workflow when nothing is active.
LEMMA AdvancedRefines ==
  ASSUME Inv, Inv', Advanced
  PROVE  [W!Next]_(<<[u \in Tasks |-> Stage(task[u])], Phase(execution)>>)
<1>0. TypeOK /\ TypeOK'
  BY DEF Inv
<1>1. /\ seen = task /\ ~Deadlocked(task)
      /\ execution \in {"RUNNING", "CANCELLING"}
  BY NothingDecidable
<1>2. UNCHANGED task /\ execution' = ExecutionStatus(task)
  BY <1>1 DEF Advanced
<1>3. CASE execution' \in {"RUNNING", "CANCELLING"}
  BY <1>0, <1>1, <1>2, <1>3, TasksUnchanged
<1>4. CASE execution' \notin {"RUNNING", "CANCELLING"}
  <2>1. execution' \in {"ERROR", "CANCELED", "COMPLETED"}
    BY <1>1, <1>2, <1>4 DEF ExecutionStatus
  <2>2. Phase(execution) = "open" /\ Phase(execution') = "closed"
    BY <1>1, <2>1 DEF Phase, ACTIVE_EXECUTION_STATUSES,
       FINALIZED_EXECUTION_STATUSES
  <2>3. \A t \in Tasks : task[t] \notin ACTIVE_TASK_STATUSES
    BY <1>2, <2>1 DEF Inv, ClosedInv, FINALIZED_EXECUTION_STATUSES
  <2>4. \A t \in Tasks : Stage(task'[t]) # "active"
    BY <1>2, <2>3 DEF Stage
  <2>5. \E given \in SUBSET Tasks :
          [t \in Tasks |-> Stage(task'[t])]
            = [t \in Tasks |-> IF t \in given THEN "done"
                               ELSE [u \in Tasks |-> Stage(task[u])][t]]
    <3> WITNESS {} \in SUBSET Tasks
    <3> QED
      BY <1>2
  <2>6. W!Close
    BY <2>2, <2>4, <2>5 DEF W!Close
  <2> QED
    BY <2>6 DEF W!Next
<1> QED
  BY <1>3, <1>4

\* _cancel_tasks_execution gives up waiting tasks and finalizes active ones.
LEMMA CancelTaskRefines ==
  ASSUME Inv, TypeOK', NEW t \in Tasks, CancelTask(t)
  PROVE  [W!Next]_(<<[u \in Tasks |-> Stage(task[u])], Phase(execution)>>)
<1>0. TypeOK
  BY DEF Inv
<1>1. /\ Canceling /\ at <= t /\ UNCHANGED execution
  BY DEF CancelTask
<1>2. execution = "CANCELLING" /\ seen[t] = task[t]
  BY <1>1, ConstantTypes DEF Inv, CancelingInv, TypeOK, Tasks
<1>3. pc = "canceling" => task[t] # "FAILED_TO_CANCEL"
  BY <1>1, ConstantTypes DEF Inv, CancelingInv, TypeOK, Tasks
<1>4. /\ \A u \in Tasks : u # t => task'[u] = task[u]
      /\ \/ task'[t] \in FINALIZED_TASK_STATUSES
         \/ task[t] = "EXECUTE_ON_ERROR_ONLY" /\ task'[t] = "SCHEDULED"
         \/ task[t] = "RUNNING" /\ task'[t] \in ACTIVE_TASK_STATUSES
  <2>1. CASE AsksWorker(t) /\ RequestCancellation(t)
    BY <1>0, <1>2, <1>3, <2>1 DEF AsksWorker, RequestCancellation, SetStatus,
       TypeOK, FINALIZED_TASK_STATUSES, CANCELED_TASK_STATUSES,
       ACTIVE_TASK_STATUSES
  <2>2. CASE SetStatus(t, CanceledStatus(t))
    <3>1. task[t] = "FAILED_TO_CANCEL" => ForceCancels(t)
      BY <1>1, <1>2, <1>3 DEF ForceCancels, Canceling
    <3> QED
      BY <1>0, <1>2, <2>2, <3>1 DEF CanceledStatus, SetStatus, TypeOK,
         FINALIZED_TASK_STATUSES, CANCELED_TASK_STATUSES, ACTIVE_TASK_STATUSES
  <2> QED
    BY <2>1, <2>2 DEF CancelTask
<1>5. CASE task'[t] \in FINALIZED_TASK_STATUSES
  BY <1>0, <1>1, <1>2, <1>4, <1>5, Finishes DEF FINALIZED_EXECUTION_STATUSES
<1>6. CASE \/ task[t] = "EXECUTE_ON_ERROR_ONLY" /\ task'[t] = "SCHEDULED"
           \/ task[t] = "RUNNING" /\ task'[t] \in ACTIVE_TASK_STATUSES
  <2>1. Stage(task'[t]) = Stage(task[t])
    BY <1>6, Stages DEF WAITING_TASK_STATUSES, ACTIVE_TASK_STATUSES
  <2> QED
    BY <1>0, <1>1, <1>4, <2>1, Stutters
<1> QED
  BY <1>4, <1>5, <1>6

\* _advance_execution_state starts the tasks which may be, and gives up others.
LEMMA AdvanceTaskRefines ==
  ASSUME Inv, TypeOK', NEW t \in Tasks, AdvanceTask(t)
  PROVE  [W!Next]_(<<[u \in Tasks |-> Stage(task[u])], Phase(execution)>>)
<1>0. TypeOK
  BY DEF Inv
<1>1. /\ UNCHANGED execution /\ Decidable(t, task)
      /\ execution \in {"RUNNING", "CANCELLING"}
  BY DEF AdvanceTask, Advances, Inv, AdvancingInv
<1>2. /\ \A u \in Tasks : u # t => task'[u] = task[u]
      /\ task'[t] \in {"PENDING", "FAILED_TO_SCHEDULE", "UNSCHEDULED"}
  BY <1>0 DEF AdvanceTask, StartTask, FailToSchedule, Unschedule,
     SetStatus, TypeOK
<1>3. execution \notin FINALIZED_EXECUTION_STATUSES
  BY <1>1 DEF FINALIZED_EXECUTION_STATUSES
<1>4. CASE task'[t] = "PENDING"
  <2>1. task[t] \in WAITING_TASK_STATUSES
    BY <1>1 DEF Decidable, WAITING_TASK_STATUSES
  <2>2. \A d \in DependsOn[t] : task[d] \in FINALIZED_TASK_STATUSES
    BY <1>1 DEF Decidable
  <2> QED
    BY <1>0, <1>1, <1>2, <1>3, <1>4, <2>1, <2>2, Starts
<1>5. CASE task'[t] \in {"FAILED_TO_SCHEDULE", "UNSCHEDULED"}
  <2>1. task'[t] \in FINALIZED_TASK_STATUSES
    BY <1>5 DEF FINALIZED_TASK_STATUSES, CANCELED_TASK_STATUSES
  <2> QED
    BY <1>0, <1>1, <1>2, <1>3, <2>1, Finishes
<1> QED
  BY <1>2, <1>4, <1>5

\* Cancelling and advancing give up waiting tasks, finalize active ones, start
\* those which may be, and close the workflow when nothing is active.
LEMMA ConductorRefines ==
  ASSUME Inv, Inv', ConductorStep
  PROVE  [W!Next]_(<<[t \in Tasks |-> Stage(task[t])], Phase(execution)>>)
<1>1. TypeOK /\ TypeOK'
  BY DEF Inv
<1>2. CASE CancelTasksExecution
  BY <1>1, <1>2, TasksUnchanged DEF CancelTasksExecution
<1>3. CASE TasksCanceled
  BY <1>1, <1>3, TasksUnchanged DEF TasksCanceled
<1>4. CASE EnterAdvance
  <2>1. execution \notin ACTIVE_EXECUTION_STATUSES => ~Deadlocked(task)
    BY <1>4 DEF EnterAdvance, Inv, FreshInv, BegunInv, ClosedInv, Deadlocked, Some,
       ACTIVE_EXECUTION_STATUSES, FINALIZED_EXECUTION_STATUSES
  <2> QED
    BY <1>1, <1>4, <2>1, TasksUnchanged DEF EnterAdvance
<1>5. CASE Advanced
  BY <1>5, AdvancedRefines
<1>6. ASSUME NEW t \in Tasks, CancelTask(t)
      PROVE  [W!Next]_(<<[u \in Tasks |-> Stage(task[u])], Phase(execution)>>)
  BY <1>1, <1>6, CancelTaskRefines
<1>7. ASSUME NEW t \in Tasks, AdvanceTask(t)
      PROVE  [W!Next]_(<<[u \in Tasks |-> Stage(task[u])], Phase(execution)>>)
  BY <1>1, <1>7, AdvanceTaskRefines
<1> QED
  BY <1>2, <1>3, <1>4, <1>5, <1>6, <1>7 DEF ConductorStep

\* The conductor and its workers implement a workflow, for every task graph:
\* no task is started twice or before its parents have finalized, and a
\* finalized execution has nothing active and is never reopened.
THEOREM ImplementsWorkflow == ASSUME Regular PROVE Spec => WorkflowSpec
<1>1. Init => W!Init
  <2> SUFFICES ASSUME Init PROVE W!Init
    OBVIOUS
  <2>1. \A t \in Tasks : Stage(task[t]) = "waiting"
    BY CreatedStatusAssumption, Stages DEF Init
  <2>2. Phase(execution) = "new"
    BY DEF Init, Phase, ACTIVE_EXECUTION_STATUSES, FINALIZED_EXECUTION_STATUSES
  <2> QED
    BY <2>1, <2>2 DEF W!Init
<1>2. Inv /\ Inv' /\ [Next]_vars =>
        [W!Next]_(<<[t \in Tasks |-> Stage(task[t])], Phase(execution)>>)
  <2> SUFFICES ASSUME Inv, Inv', [Next]_vars
               PROVE  [W!Next]_(<<[t \in Tasks |-> Stage(task[t])],
                                  Phase(execution)>>)
    OBVIOUS
  <2>1. CASE \/ \E p \in {"cancel", "force_cancel"} : UserCancel(p)
             \/ \E t \in Tasks : WorkerTimesOut(t) \/ WorkerCrashes(t)
             \/ UNCHANGED vars
    <3>1. UNCHANGED <<task, execution>>
      BY <2>1 DEF UserCancel, WorkerTimesOut, WorkerCrashes, vars
    <3> QED
      BY <3>1, TasksUnchanged DEF Inv
  <2> QED
    BY <2>1, BeginTaskRefines, BeginReturnsRefines, ReportsRefine, ConductorRefines,
       RegularPostTask
       DEF Inv, Next, Progress
<1> QED
  BY <1>1, <1>2, Invariance, PTL DEF Spec, WorkflowSpec, W!Spec
=============================================================================

----------------------------- MODULE LockOrder -----------------------------
(***************************************************************************)
(* The locks which the conductor's RPC handlers take: on a transfer, on a  *)
(* deployment of it, on the execution of each and on a task of each        *)
(* execution.  lockutils.synchronized(..., external=True) blocks without a *)
(* timeout and is not reentrant, so a circle of handlers which wait for    *)
(* one another stays forever.  The locks on endpoints, schedules, regions  *)
(* and services are left out: no handler takes another lock under one of   *)
(* them, so they are in no circle.                                         *)
(*                                                                         *)
(* A handler is the set of sequences of lock steps which it may go         *)
(* through; between them it may raise, which releases what it holds.  The  *)
(* work done under the locks is in the other modules, but for the          *)
(* cancellation of an execution, which is here to see who does it at once. *)
(***************************************************************************)
EXTENDS Integers, Sequences

CONSTANT Procs           \* threads of the conductor, each with one request

Free == "free"           \* the owner of a lock which nobody has

ASSUME ProcsAssumption == Free \notin Procs

VARIABLES
  steps,     \* the steps which the handler of a thread has still to take
  reports,   \* the threads whose handler is a report of a worker
  owner      \* who has each lock

lockVars == <<steps, reports, owner>>

ActionLocks == {"transfer", "deployment"}

Executions == {"transfer execution", "deployment execution"}

Tasks == {"transfer task", "deployment task"}

Locks == ActionLocks \cup Executions \cup Tasks

ExecutionOf(a) ==
  IF a = "transfer" THEN "transfer execution" ELSE "deployment execution"

TaskOf(a) == IF a = "transfer" THEN "transfer task" ELSE "deployment task"

-----------------------------------------------------------------------------
(* What a handler is made of.                                              *)

Skip == {<<>>}

Then(P, Q) == {p \o q : p \in P, q \in Q}

\* with lockutils.lock(l, external=True): P
Under(l, P) == {<<<<"acquire", l>>>> \o p \o <<<<"release", l>>>> : p \in P}

transfer_synchronized(P) == Under("transfer", P)

deployment_synchronized(P) == Under("deployment", P)

tasks_execution_synchronized(e, P) == Under(e, P)

task_synchronized(t, P) == Under(t, P)

parent_tasks_execution_synchronized(a, P) ==
  Under(ExecutionOf(a), Under(TaskOf(a), P))

get_deployment == deployment_synchronized(Skip)

get_transfer_tasks_execution ==
  tasks_execution_synchronized("transfer execution", Skip)

_cancel_tasks_execution(a) ==
  {<<<<"cancel", ExecutionOf(a)>>, <<"canceled", ExecutionOf(a)>>>>}

\* A task which cannot be started cancels the whole execution.
_begin_tasks(a) == Skip \cup _cancel_tasks_execution(a)

-----------------------------------------------------------------------------
(* The handlers of the API's and of the other services' requests.          *)

execute_transfer_tasks_locks == transfer_synchronized(_begin_tasks("transfer"))

delete_transfer_disks ==
  transfer_synchronized(
    Then(_begin_tasks("transfer"), get_transfer_tasks_execution))

update_transfer ==
  transfer_synchronized(
    Then(_begin_tasks("transfer"), get_transfer_tasks_execution))

delete_transfer_tasks_execution ==
  tasks_execution_synchronized("transfer execution", Skip)

cancel_transfer_tasks_execution ==
  tasks_execution_synchronized("transfer execution",
                               _cancel_tasks_execution("transfer"))

delete_transfer_locks == transfer_synchronized(Skip)

\* The deployment's lock is held while its minion machines are asked for.
_execute_deployment ==
  deployment_synchronized(Skip) \cup _begin_tasks("deployment")

deploy_transfer_instances_locks ==
  transfer_synchronized(Then(Skip \cup _execute_deployment, get_deployment))

\* A mutant: the deployment's lock is kept.
ConfirmDeployerNested ==
  Under("deployment", Under("transfer", _execute_deployment))

\* The deployment's lock is released before the transfer's is taken.
confirm_deployer_completed ==
  Then(Under("deployment", Skip), Under("transfer", _execute_deployment))

report_deployer_failure == deployment_synchronized(Skip)

confirm_transfer_minions_allocation ==
  transfer_synchronized(_begin_tasks("transfer"))

report_transfer_minions_allocation_error ==
  transfer_synchronized(_cancel_tasks_execution("transfer"))

confirm_deployment_minions_allocation ==
  deployment_synchronized(_begin_tasks("deployment"))

report_deployment_minions_allocation_error ==
  deployment_synchronized(_cancel_tasks_execution("deployment"))

delete_deployment == deployment_synchronized(Skip)

cancel_deployment ==
  deployment_synchronized(
    Under("deployment execution", _cancel_tasks_execution("deployment")))

RequestHandlers ==
  UNION {execute_transfer_tasks_locks, delete_transfer_disks, update_transfer,
         delete_transfer_tasks_execution, cancel_transfer_tasks_execution,
         delete_transfer_locks, deploy_transfer_instances_locks, confirm_deployer_completed,
         report_deployer_failure, confirm_transfer_minions_allocation,
         report_transfer_minions_allocation_error,
         confirm_deployment_minions_allocation,
         report_deployment_minions_allocation_error,
         delete_deployment, cancel_deployment}

-----------------------------------------------------------------------------
(* The handlers of what the workers report of a task of action a.          *)

set_task_host(a) == parent_tasks_execution_synchronized(a, Skip)

add_task_event(a) == task_synchronized(TaskOf(a), Skip)

_update_volumes_info_for_deployment_parent_transfer ==
  Under("transfer", Skip)

_handle_post_task_actions(a) ==
  IF a = "deployment"
    THEN Skip \cup _update_volumes_info_for_deployment_parent_transfer
    ELSE Skip

task_completed(a) ==
  parent_tasks_execution_synchronized(a, Under(a, _handle_post_task_actions(a)))

confirm_task_cancellation(a) == parent_tasks_execution_synchronized(a, Skip)

set_task_error(a) ==
  parent_tasks_execution_synchronized(a, Under(a, _cancel_tasks_execution(a)))

ReportHandlers ==
  UNION {set_task_host(a) \cup add_task_event(a) \cup task_completed(a) \cup
         confirm_task_cancellation(a) \cup set_task_error(a) : a \in ActionLocks}

-----------------------------------------------------------------------------
LockInit ==
  /\ steps = [p \in Procs |-> <<>>]
  /\ reports = {}
  /\ owner = [l \in Locks |-> Free]

\* A request comes in.
Handle(p) ==
  /\ steps[p] = <<>>
  /\ \/ /\ \E h \in RequestHandlers : steps' = [steps EXCEPT ![p] = h]
        /\ reports' = reports \ {p}
     \/ /\ \E h \in ReportHandlers : steps' = [steps EXCEPT ![p] = h]
        /\ reports' = reports \cup {p}
  /\ UNCHANGED owner

Waits(p) ==
  steps[p] # <<>> /\ Head(steps[p])[1] = "acquire"
                  /\ owner[Head(steps[p])[2]] # Free

Step(p) ==
  /\ steps[p] # <<>> /\ ~Waits(p)
  /\ LET op == Head(steps[p])[1]
         l == Head(steps[p])[2]
     IN owner' = IF op = "acquire" THEN [owner EXCEPT ![l] = p]
                 ELSE IF op = "release" THEN [owner EXCEPT ![l] = Free]
                 ELSE owner
  /\ steps' = [steps EXCEPT ![p] = Tail(@)]
  /\ UNCHANGED reports

\* An exception leaves the handler and the locks it holds.
Raise(p) ==
  /\ steps[p] # <<>> /\ Head(steps[p])[1] # "acquire"
  /\ steps' = [steps EXCEPT ![p] = <<>>]
  /\ owner' = [l \in Locks |-> IF owner[l] = p THEN Free ELSE owner[l]]
  /\ UNCHANGED reports

LockNext == \E p \in Procs : Handle(p) \/ Step(p) \/ Raise(p)

LockSpec == LockInit /\ [][LockNext]_lockVars

-----------------------------------------------------------------------------
LockTypeOK ==
  /\ reports \subseteq Procs
  /\ owner \in [Locks -> Procs \cup {Free}]

WaitsFor(p, q) == Waits(p) /\ owner[Head(steps[p])[2]] = q

\* Every thread of S waits for another one of S, or for itself.
Stuck(S) == S # {} /\ \A p \in S : \E q \in S : WaitsFor(p, q)

\* Handlers of requests alone never wait for one another in a circle, and neither
\* do handlers of reports: each kind keeps to one order of the locks.  A circle
\* needs a request which takes an action's lock before its execution's, and a
\* report, which takes them the other way round.
CircleHasBothKinds ==
  \A S \in SUBSET Procs :
    Stuck(S) => S \cap reports # {} /\ S \ reports # {}

\* No two handlers cancel the tasks of an execution at the same time
\* (_cancel_tasks_execution: "only call this with a lock on the Execution as a
\* whole!").
CancelsApart ==
  \A p, q \in Procs : \A a \in ActionLocks :
    LET canceling(r) ==
          \E i \in 1..Len(steps[r]) :
            /\ steps[r][i] = <<"canceled", ExecutionOf(a)>>
            /\ \A j \in 1..i : steps[r][j][1] # "cancel"
    IN canceling(p) /\ canceling(q) => p = q

=============================================================================

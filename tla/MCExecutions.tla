---------------------------- MODULE MCExecutions ----------------------------
(***************************************************************************)
(* TasksExecution on four graphs, one of which a behaviour is about: a     *)
(* transfer, two instances in one execution, the same with requests before *)
(* _begin_tasks has returned, and a graph which no operation creates.      *)
(***************************************************************************)
EXTENDS ExecutionGraphs

VARIABLES
  graph,  \* the graph of the behaviour
  task, execution, begin, pc, at, seen, scope, started, worker, process, calls,
  cancels, timeouts

Pair == INSTANCE TasksExecution WITH
  NTasks <- 5, DependsOn <- PairDependsOn, OnError <- PairOnError,
  OnErrorOnly <- {}, Instance <- PairInstance, OSMorphing <- {},
  DebugOSMorphing <- FALSE, CreatedStatus <- PairStatus,
  Faults <- {"cancel_lost"}, EarlyReports <- FALSE,
  MaxUserCancels <- 1, MaxTimeouts <- 0

Early == INSTANCE TasksExecution WITH
  NTasks <- 5, DependsOn <- PairDependsOn, OnError <- PairOnError,
  OnErrorOnly <- {}, Instance <- PairInstance, OSMorphing <- {},
  DebugOSMorphing <- FALSE, CreatedStatus <- PairStatus,
  Faults <- {}, EarlyReports <- TRUE,
  MaxUserCancels <- 1, MaxTimeouts <- 0

Transfer == INSTANCE TasksExecution WITH
  NTasks <- 6, DependsOn <- TransferDependsOn, OnError <- TransferOnError,
  OnErrorOnly <- {}, Instance <- TransferInstance, OSMorphing <- {},
  DebugOSMorphing <- FALSE, CreatedStatus <- TransferStatus,
  Faults <- {"no_worker", "cancel_lost", "vanish"},
  EarlyReports <- FALSE, MaxUserCancels <- 2, MaxTimeouts <- 0

Stranded == INSTANCE TasksExecution WITH
  NTasks <- 4, DependsOn <- StrandedDependsOn, OnError <- StrandedOnError,
  OnErrorOnly <- {2}, Instance <- StrandedInstance, OSMorphing <- {4},
  DebugOSMorphing <- TRUE, CreatedStatus <- StrandedStatus,
  Faults <- {"no_first_worker"}, EarlyReports <- FALSE,
  MaxUserCancels <- 1, MaxTimeouts <- 0

vars == <<graph, task, execution, begin, pc, at, seen, scope, started, worker,
          process, calls, cancels, timeouts>>

Init ==
  \/ graph = "pair" /\ Pair!Init
  \/ graph = "early" /\ Early!Init
  \/ graph = "transfer" /\ Transfer!Init
  \/ graph = "stranded" /\ Stranded!Init

Next ==
  /\ \/ graph = "pair" /\ Pair!Next
     \/ graph = "early" /\ Early!Next
     \/ graph = "transfer" /\ Transfer!Next
     \/ graph = "stranded" /\ Stranded!Next
  /\ UNCHANGED graph

\* What the fairness of TasksExecution is about.
Progress ==
  /\ \/ graph = "pair" /\ Pair!Progress
     \/ graph = "early" /\ Early!Progress
     \/ graph = "transfer" /\ Transfer!Progress
     \/ graph = "stranded" /\ Stranded!Progress
  /\ UNCHANGED graph

FairSpec == Init /\ [][Next]_vars /\ WF_vars(Progress)

-----------------------------------------------------------------------------

WorkflowState ==
  <<[t \in DOMAIN task |-> Pair!Stage(task[t])], Pair!Phase(execution)>>

\* The statuses which the handlers of the conductor write refine the workflow of
\* Workflow, though a task's completion advances the state of its own instance
\* only, and whatever users cancel, by force or not, again and again.
AreWorkflows ==
  /\ graph = "pair" => Pair!W!Init
  /\ graph = "transfer" => Transfer!W!Init
  /\ [][/\ graph = "pair" => [Pair!W!Next]_WorkflowState
        /\ graph = "transfer" => [Transfer!W!Next]_WorkflowState]_vars

\* The advancement never strands a transfer, and what it has completed when it ends is
\* cleaned up, also when its processes vanish; excepted is what CleanupRuns excepts.
TransferSound == graph = "transfer" => Transfer!NeverDeadlocked /\ Transfer!CleanupRuns

\* A graph which cannot go on is only given up, as DEADLOCKED or
\* CANCELED_FOR_DEBUGGING, with no task left at a worker.
GivenUpHasNothingActive ==
  graph = "stranded" => /\ Stranded!DeadlockedHasNothingActive
                        /\ Stranded!DebuggedHasNothingActive

\* _begin_tasks holds no lock.  Whatever reports and cancellations come before it
\* has returned, and whatever status it writes over theirs, tasks start on what
\* their parents have done, COMPLETED means that all is done, and an execution
\* which is over once _begin_tasks has returned has no task left at a worker.
EarlyReportsInOrder ==
  graph = "early" =>
    /\ Early!ParentsDidTheirWork
    /\ Early!CompletedMeansDone
    /\ Early!BeginReturned /\ execution \in Early!FINALIZED_EXECUTION_STATUSES
         => ~Early!Some(task, Early!ACTIVE_TASK_STATUSES)

\* Every execution which was begun is finalized for good: no combination of reports,
\* cancellations, lost cancel_task RPCs and vanished processes leaves it active with
\* nothing left to report, or sets it running again, even if its graph cannot go on
\* (_advance_execution_state, _get_execution_status); not so where _begin_tasks writes
\* RUNNING over the end of it.
ExecutionsTerminate ==
  <>(graph = "early" \/ [](execution \in Pair!FINALIZED_EXECUTION_STATUSES))
=============================================================================

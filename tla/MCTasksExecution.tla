-------------------------- MODULE MCTasksExecution --------------------------
(***************************************************************************)
(* TasksExecution for TLC, on one of the graphs of ExecutionGraphs.        *)
(***************************************************************************)
EXTENDS TasksExecution, ExecutionGraphs
=============================================================================

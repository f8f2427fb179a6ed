------------------------------ MODULE Statuses ------------------------------
(***************************************************************************)
(* The status vocabulary of coriolis/constants.py.  Execution and task     *)
(* statuses share strings ("RUNNING", "ERROR", ...), exactly as in the     *)
(* code: a test of an execution status against a list of task statuses     *)
(* means here what it means there.                                         *)
(***************************************************************************)

ACTIVE_EXECUTION_STATUSES ==
  {"RUNNING", "CANCELLING", "AWAITING_MINION_ALLOCATIONS"}

FINALIZED_EXECUTION_STATUSES ==
  {"COMPLETED", "CANCELED", "ERROR", "CANCELED_FOR_DEBUGGING",
   "DEADLOCKED", "ERROR_ALLOCATING_MINIONS"}

ExecutionStatuses ==
  {"UNEXECUTED", "PENDING"} \cup ACTIVE_EXECUTION_STATUSES
    \cup FINALIZED_EXECUTION_STATUSES

ACTIVE_TASK_STATUSES ==
  {"PENDING", "STARTING", "RUNNING", "CANCELLING",
   "CANCELLING_AFTER_COMPLETION"}

CANCELED_TASK_STATUSES ==
  {"CANCELED", "UNSCHEDULED", "FORCE_CANCELED", "CANCELED_AFTER_COMPLETION",
   "CANCELED_FOR_DEBUGGING", "STRANDED_AFTER_DEADLOCK",
   "FAILED_TO_SCHEDULE", "FAILED_TO_CANCEL"}

\* A parent in one of these did its work: what it created must be cleaned up.
CLEANUP_TASK_TRIGGER_STATUSES == {"COMPLETED", "CANCELED_AFTER_COMPLETION"}

FINALIZED_TASK_STATUSES == CANCELED_TASK_STATUSES \cup {"COMPLETED", "ERROR"}

\* Tasks which no decision has been taken about yet.
WAITING_TASK_STATUSES == {"SCHEDULED", "EXECUTE_ON_ERROR_ONLY"}

TaskStatuses ==
  WAITING_TASK_STATUSES \cup ACTIVE_TASK_STATUSES \cup FINALIZED_TASK_STATUSES
=============================================================================

-------------------------- MODULE ExecutionGraphs ---------------------------
(***************************************************************************)
(* Small task graphs for TasksExecution, cut down from the ones which      *)
(* execute_transfer_tasks and _execute_deployment create.                  *)
(***************************************************************************)
EXTENDS Integers

\* A transfer: 1 DEPLOY_TRANSFER_DISKS, 2 DEPLOY_TRANSFER_SOURCE_RESOURCES,
\* 3 DEPLOY_TRANSFER_TARGET_RESOURCES, 4 REPLICATE_DISKS,
\* 5 DELETE_TRANSFER_SOURCE_RESOURCES, 6 DELETE_TRANSFER_TARGET_RESOURCES.
TransferDependsOn == <<{}, {1}, {1}, {2, 3}, {2, 4}, {3, 4}>>
TransferOnError == {5, 6}
TransferStatus == [t \in 1..6 |-> "SCHEDULED"]
TransferInstance == [t \in 1..6 |-> "vm"]

\* A deployment: 1 DEPLOY_INSTANCE_RESOURCES, 2 FINALIZE_INSTANCE_DEPLOYMENT,
\* 3 CLEANUP_FAILED_INSTANCE_DEPLOYMENT, 4 RESTORE_TRANSFER_DISK_SNAPSHOTS.
DeploymentDependsOn == <<{}, {1}, {1, 2}, {3}>>
DeploymentOnError == {3, 4}
DeploymentStatus ==
  [t \in 1..4 |-> IF t \in {3, 4} THEN "EXECUTE_ON_ERROR_ONLY" ELSE "SCHEDULED"]
DeploymentInstance == [t \in 1..4 |-> "vm"]

\* Two instances: 1 and 2 one after the other, with 3 cleaning up after 1, and
\* 4 and 5 one after the other.
PairDependsOn == <<{}, {1}, {1, 2}, {}, {4}>>
PairOnError == {3}
PairStatus == [t \in 1..5 |-> "SCHEDULED"]
PairInstance == [t \in 1..5 |-> IF t < 4 THEN "vm1" ELSE "vm2"]

\* A graph no operation creates: 3 is scheduled from the start, but one of its
\* parents waits for an error.  4 stands for another instance, OSMorphing only.
StrandedDependsOn == <<{}, {1}, {1, 2}, {}>>
StrandedOnError == {2, 3}
StrandedStatus ==
  [t \in 1..4 |-> IF t = 2 THEN "EXECUTE_ON_ERROR_ONLY" ELSE "SCHEDULED"]
StrandedInstance == [t \in 1..4 |-> IF t < 4 THEN "vm1" ELSE "vm2"]
=============================================================================

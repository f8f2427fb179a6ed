---------------------------- MODULE TaskRunners ----------------------------
(***************************************************************************)
(* The task runners (coriolis/tasks): for every type of task, what its     *)
(* class declares about the task info of an instance and what its _run     *)
(* does to it and to the platforms.                                        *)
(*                                                                         *)
(* The task info is a function on Fields.  A field is "absent", "none"     *)
(* (None or empty), "set", or tells whose resources it describes: "temp"   *)
(* for those deployed for one execution, "minion" for a pool's machine.    *)
(*                                                                         *)
(* A runner is a record:                                                   *)
(*   required  get_required_task_info_properties                           *)
(*   returned  get_returned_task_info_properties                           *)
(*   demands   fields whose value _run refuses when it is empty            *)
(*   result    what _run returns: a value, or the field it is read from    *)
(*   creates   what the provider call brings about on the platforms        *)
(*   destroys  what the provider call removes from them                    *)
(*   rejects   may _run refuse what the provider returned, the provider    *)
(*             having done its work?                                       *)
(***************************************************************************)
EXTENDS Functions

Values == {"absent", "none", "set", "temp", "minion"}

SOURCE_MINION_TASK_INFO_FIELD_MAPPINGS ==
  [origin_minion_provider_properties |-> "source_resources",
   origin_minion_connection_info |-> "source_resources_connection_info"]

TARGET_MINION_TASK_INFO_FIELD_MAPPINGS ==
  [destination_minion_provider_properties |-> "target_resources",
   destination_minion_backup_writer_connection_info |->
     "target_resources_connection_info"]

OSMOPRHING_MINION_TASK_INFO_FIELD_MAPPINGS ==
  [osmorphing_minion_provider_properties |-> "os_morphing_resources",
   osmorphing_minion_connection_info |-> "osmorphing_connection_info"]

OriginMinionFields ==
  DOMAIN SOURCE_MINION_TASK_INFO_FIELD_MAPPINGS
    \cup {"origin_minion_machine_id"}

DestinationMinionFields ==
  DOMAIN TARGET_MINION_TASK_INFO_FIELD_MAPPINGS
    \cup {"destination_minion_machine_id", "destination_minion_connection_info"}

OSMorphingMinionFields ==
  DOMAIN OSMOPRHING_MINION_TASK_INFO_FIELD_MAPPINGS
    \cup {"osmorphing_minion_machine_id"}

Fields ==
  {"source_environment", "target_environment", "export_info", "volumes_info",
   "source_resources", "source_resources_connection_info",
   "target_resources", "target_resources_connection_info",
   "os_morphing_resources", "osmorphing_info", "osmorphing_connection_info",
   "instance_deployment_info", "transfer_result", "clone_disks",
   "user_scripts", "origin_minion_pool_id", "destination_minion_pool_id"}
  \cup OriginMinionFields \cup DestinationMinionFields
  \cup OSMorphingMinionFields

\* What the provider calls leave on the platforms: the replica's disks, their
\* snapshots, the temporary workers, the deployed instance, the volumes attached
\* to minions; and "morphed", the replica's disks having been adapted in place.
Things ==
  {"disks", "snapshots", "source", "target", "osmorphing", "instance",
   "attached", "osmorphing_attached", "morphed"}

\* A runner which asks for nothing, returns nothing and does nothing.
TaskRunner ==
  [required |-> {}, returned |-> {}, demands |-> {}, result |-> <<>>,
   creates |-> {}, destroys |-> {}, rejects |-> FALSE]

-----------------------------------------------------------------------------
(***************************************************************************)
(* replica_tasks.py, migration_tasks.py                                    *)
(***************************************************************************)

GetInstanceInfoTask ==
  [TaskRunner EXCEPT
     !.required = {"source_environment"},
     !.returned = {"export_info"},
     !.result = [export_info |-> "set"]]

ShutdownInstanceTask ==
  [TaskRunner EXCEPT !.required = {"source_environment"}]

ReplicateDisksTask ==
  [TaskRunner EXCEPT
     !.required = {"export_info", "volumes_info", "source_environment",
                   "source_resources", "source_resources_connection_info",
                   "target_resources_connection_info"},
     !.demands = {"volumes_info"},
     !.returned = {"volumes_info"},
     !.result = [volumes_info |-> "set"],
     !.rejects = TRUE]

DeployReplicaDisksTask ==
  [TaskRunner EXCEPT
     !.required = {"export_info", "volumes_info", "target_environment"},
     !.returned = {"volumes_info"},
     !.result = [volumes_info |-> "set"],
     !.creates = {"disks"},
     !.rejects = TRUE]

\* Nothing is asked of the provider, and nothing changes, without volumes.
DeleteReplicaSourceDiskSnapshotsTask ==
  [TaskRunner EXCEPT
     !.required = {"volumes_info", "source_environment"},
     !.returned = {"volumes_info"},
     !.result = [volumes_info |-> "volumes_info"]]

DeleteReplicaDisksTask ==
  [TaskRunner EXCEPT
     !.required = {"volumes_info", "target_environment"},
     !.returned = {"volumes_info"},
     !.result = [volumes_info |-> "none"],
     !.destroys = {"disks"}]

DeployReplicaSourceResourcesTask ==
  [TaskRunner EXCEPT
     !.required = {"source_environment", "export_info"},
     !.returned = {"source_resources", "source_resources_connection_info"},
     !.result = [source_resources |-> "temp",
                 source_resources_connection_info |-> "temp"],
     !.creates = {"source"}]

DeleteReplicaSourceResourcesTask ==
  [TaskRunner EXCEPT
     !.required = {"source_environment", "source_resources"},
     !.returned = {"source_resources", "source_resources_connection_info"},
     !.result = [source_resources |-> "none",
                 source_resources_connection_info |-> "none"],
     !.destroys = {"source"}]

DeployReplicaTargetResourcesTask ==
  [TaskRunner EXCEPT
     !.required = {"export_info", "volumes_info", "target_environment"},
     !.demands = {"volumes_info"},
     !.returned = {"volumes_info", "target_resources",
                   "target_resources_connection_info"},
     !.result = [volumes_info |-> "set", target_resources |-> "temp",
                 target_resources_connection_info |-> "temp"],
     !.creates = {"target"},
     !.rejects = TRUE]

DeleteReplicaTargetResourcesTask ==
  [TaskRunner EXCEPT
     !.required = {"target_resources", "target_environment"},
     !.returned = {"target_resources", "target_resources_connection_info"},
     !.result = [target_resources |-> "none",
                 target_resources_connection_info |-> "none"],
     !.destroys = {"target"}]

DeployReplicaInstanceResourcesTask ==
  [TaskRunner EXCEPT
     !.required = {"export_info", "target_environment", "clone_disks",
                   "volumes_info"},
     !.demands = {"volumes_info"},
     !.returned = {"instance_deployment_info"},
     !.result = [instance_deployment_info |-> "set"],
     !.creates = {"instance"}]

FinalizeReplicaInstanceDeploymentTask ==
  [TaskRunner EXCEPT
     !.required = {"target_environment", "instance_deployment_info"},
     !.returned = {"transfer_result"},
     !.result = [transfer_result |-> "set"]]

CleanupFailedReplicaInstanceDeploymentTask ==
  [TaskRunner EXCEPT
     !.required = {"target_environment", "instance_deployment_info"},
     !.returned = {"instance_deployment_info"},
     !.result = [instance_deployment_info |-> "none"],
     !.destroys = {"instance"}]

CreateReplicaDiskSnapshotsTask ==
  [TaskRunner EXCEPT
     !.required = {"target_environment", "export_info", "volumes_info"},
     !.demands = {"volumes_info"},
     !.returned = {"volumes_info"},
     !.result = [volumes_info |-> "set"],
     !.creates = {"snapshots"},
     !.rejects = TRUE]

DeleteReplicaTargetDiskSnapshotsTask ==
  [TaskRunner EXCEPT
     !.required = {"target_environment", "export_info", "volumes_info"},
     !.demands = {"volumes_info"},
     !.returned = {"volumes_info"},
     !.result = [volumes_info |-> "set"],
     !.destroys = {"snapshots"},
     !.rejects = TRUE]

RestoreReplicaDiskSnapshotsTask ==
  [TaskRunner EXCEPT
     !.required = {"target_environment", "export_info", "volumes_info"},
     !.demands = {"volumes_info"},
     !.returned = {"volumes_info"},
     !.result = [volumes_info |-> "set"],
     !.destroys = {"snapshots", "morphed"},
     !.rejects = TRUE]

ValidateReplicaExecutionSourceInputsTask ==
  [TaskRunner EXCEPT !.required = {"source_environment"}]

ValidateReplicaExecutionDestinationInputsTask ==
  [TaskRunner EXCEPT
     !.required = {"export_info", "target_environment"},
     !.demands = {"export_info"}]

ValidateReplicaDeploymentParametersTask ==
  [TaskRunner EXCEPT
     !.required = {"export_info", "target_environment"},
     !.demands = {"export_info"}]

\* The environment returned is the new one or, when none was given, the old one.
UpdateSourceReplicaTask ==
  [TaskRunner EXCEPT
     !.required = {"volumes_info", "source_environment"},
     !.returned = {"volumes_info", "source_environment"},
     !.result = [volumes_info |-> "volumes_info",
                 source_environment |-> "source_environment"]]

UpdateDestinationReplicaTask ==
  [TaskRunner EXCEPT
     !.required = {"export_info", "volumes_info", "target_environment"},
     !.returned = {"volumes_info", "target_environment"},
     !.result = [volumes_info |-> "volumes_info",
                 target_environment |-> "target_environment"]]

GetOptimalFlavorTask ==
  [TaskRunner EXCEPT
     !.required = {"export_info", "target_environment"},
     !.returned = {"instance_deployment_info"},
     !.result = [instance_deployment_info |-> "set"]]

-----------------------------------------------------------------------------
(***************************************************************************)
(* osmorphing_tasks.py                                                     *)
(***************************************************************************)

OSMorphingTask ==
  [TaskRunner EXCEPT
     !.required = {"osmorphing_info", "osmorphing_connection_info",
                   "user_scripts"},
     !.creates = {"morphed"}]

DeployOSMorphingResourcesTask ==
  [TaskRunner EXCEPT
     !.required = {"target_environment", "instance_deployment_info"},
     !.returned = {"os_morphing_resources", "osmorphing_info",
                   "osmorphing_connection_info"},
     !.result = [os_morphing_resources |-> "temp", osmorphing_info |-> "set",
                 osmorphing_connection_info |-> "temp"],
     !.creates = {"osmorphing"},
     !.rejects = TRUE]

DeleteOSMorphingResourcesTask ==
  [TaskRunner EXCEPT
     !.required = {"target_environment", "os_morphing_resources"},
     !.returned = {"os_morphing_resources", "osmorphing_connection_info"},
     !.result = [os_morphing_resources |-> "none",
                 osmorphing_connection_info |-> "none"],
     !.destroys = {"osmorphing"}]

-----------------------------------------------------------------------------
(***************************************************************************)
(* minion_pool_tasks.py: the tasks of executions.  A mapping names the     *)
(* task info fields which a minion's fields stand for.                     *)
(***************************************************************************)

\* The values of the minion's fields are copied to the fields they stand for.
Translated(mapping) ==
  [f \in Range(mapping) |-> CHOOSE m \in DOMAIN mapping : mapping[m] = f]

BaseValidateMinionCompatibilityTask(environment, mapping) ==
  [TaskRunner EXCEPT
     !.required = {"export_info", environment} \cup DOMAIN mapping,
     !.returned = Range(mapping),
     !.result = Translated(mapping)]

ValidateSourceMinionCompatibilityTask ==
  BaseValidateMinionCompatibilityTask(
    "source_environment", SOURCE_MINION_TASK_INFO_FIELD_MAPPINGS)

ValidateDestinationMinionCompatibilityTask ==
  BaseValidateMinionCompatibilityTask(
    "target_environment", TARGET_MINION_TASK_INFO_FIELD_MAPPINGS)

ValidateOSMorphingMinionCompatibilityTask ==
  BaseValidateMinionCompatibilityTask(
    "target_environment", OSMOPRHING_MINION_TASK_INFO_FIELD_MAPPINGS)

\* The properties which the provider returned replace the minion's and are
\* copied to the field they stand for.
BaseVolumesMinionMachineAttachmentTask(properties, mapping) ==
  [TaskRunner EXCEPT
     !.required = DOMAIN mapping,
     !.returned = Range(mapping) \cup {properties},
     !.result = [f \in Range(mapping) \cup {properties} |->
                   IF f \in {properties, mapping[properties]}
                   THEN properties ELSE Translated(mapping)[f]],
     !.rejects = TRUE]

BaseAttachVolumesToTransferMinionTask(properties, mapping) ==
  LET base == BaseVolumesMinionMachineAttachmentTask(properties, mapping)
  IN [base EXCEPT
        !.required = @ \cup {"volumes_info"},
        !.returned = @ \cup {"volumes_info"},
        !.result = [f \in DOMAIN @ \cup {"volumes_info"} |->
                      IF f = "volumes_info" THEN "set" ELSE @[f]]]

AttachVolumesToDestinationMinionTask ==
  [BaseAttachVolumesToTransferMinionTask(
     "destination_minion_provider_properties",
     TARGET_MINION_TASK_INFO_FIELD_MAPPINGS) EXCEPT !.creates = {"attached"}]

DetachVolumesFromDestinationMinionTask ==
  [AttachVolumesToDestinationMinionTask EXCEPT
     !.creates = {}, !.destroys = {"attached"}]

\* The volumes are those of the deployment info, which is returned updated.
AttachVolumesToOSMorphingMinionTask ==
  LET base == BaseVolumesMinionMachineAttachmentTask(
                "osmorphing_minion_provider_properties",
                OSMOPRHING_MINION_TASK_INFO_FIELD_MAPPINGS)
  IN [base EXCEPT
        !.required = @ \cup {"instance_deployment_info"},
        !.demands = {"instance_deployment_info"},
        !.returned = @ \cup {"instance_deployment_info"},
        !.result = [f \in DOMAIN @ \cup {"instance_deployment_info"} |->
                      IF f = "instance_deployment_info" THEN f ELSE @[f]],
        !.creates = {"osmorphing_attached"}]

DetachVolumesFromOSMorphingMinionTask ==
  [AttachVolumesToOSMorphingMinionTask EXCEPT
     !.creates = {}, !.destroys = {"osmorphing_attached"}]

BaseReleaseMinionTask(mapping) ==
  LET fields == DOMAIN mapping \cup Range(mapping)
  IN [TaskRunner EXCEPT
        !.required = fields,
        !.returned = fields,
        !.result = [f \in fields |-> "none"]]

ReleaseSourceMinionTask ==
  BaseReleaseMinionTask(SOURCE_MINION_TASK_INFO_FIELD_MAPPINGS)

ReleaseDestinationMinionTask ==
  BaseReleaseMinionTask(TARGET_MINION_TASK_INFO_FIELD_MAPPINGS)

ReleaseOSMorphingMinionTask ==
  BaseReleaseMinionTask(OSMOPRHING_MINION_TASK_INFO_FIELD_MAPPINGS)

CollectOSMorphingInfoTask ==
  [TaskRunner EXCEPT
     !.required = {"target_environment", "instance_deployment_info"},
     !.returned = {"osmorphing_info"},
     !.result = [osmorphing_info |-> "set"]]

-----------------------------------------------------------------------------
\* factory.py: the runner of every type of task of an execution.
TASKS_MAP ==
  [VALIDATE_TRANSFER_SOURCE_INPUTS |-> ValidateReplicaExecutionSourceInputsTask,
   GET_INSTANCE_INFO |-> GetInstanceInfoTask,
   VALIDATE_TRANSFER_DESTINATION_INPUTS |->
     ValidateReplicaExecutionDestinationInputsTask,
   VALIDATE_SOURCE_MINION_POOL_COMPATIBILITY |->
     ValidateSourceMinionCompatibilityTask,
   VALIDATE_DESTINATION_MINION_POOL_COMPATIBILITY |->
     ValidateDestinationMinionCompatibilityTask,
   DEPLOY_TRANSFER_DISKS |-> DeployReplicaDisksTask,
   DEPLOY_TRANSFER_SOURCE_RESOURCES |-> DeployReplicaSourceResourcesTask,
   DEPLOY_TRANSFER_TARGET_RESOURCES |-> DeployReplicaTargetResourcesTask,
   ATTACH_VOLUMES_TO_DESTINATION_MINION |-> AttachVolumesToDestinationMinionTask,
   SHUTDOWN_INSTANCE |-> ShutdownInstanceTask,
   REPLICATE_DISKS |-> ReplicateDisksTask,
   RELEASE_SOURCE_MINION |-> ReleaseSourceMinionTask,
   DELETE_TRANSFER_SOURCE_RESOURCES |-> DeleteReplicaSourceResourcesTask,
   DETACH_VOLUMES_FROM_DESTINATION_MINION |->
     DetachVolumesFromDestinationMinionTask,
   RELEASE_DESTINATION_MINION |-> ReleaseDestinationMinionTask,
   DELETE_TRANSFER_TARGET_RESOURCES |-> DeleteReplicaTargetResourcesTask,
   DELETE_TRANSFER_SOURCE_DISK_SNAPSHOTS |->
     DeleteReplicaSourceDiskSnapshotsTask,
   DELETE_TRANSFER_DISKS |-> DeleteReplicaDisksTask,
   UPDATE_SOURCE_TRANSFER |-> UpdateSourceReplicaTask,
   UPDATE_DESTINATION_TRANSFER |-> UpdateDestinationReplicaTask,
   VALIDATE_DEPLOYMENT_INPUTS |-> ValidateReplicaDeploymentParametersTask,
   VALIDATE_OSMORPHING_MINION_POOL_COMPATIBILITY |->
     ValidateOSMorphingMinionCompatibilityTask,
   CREATE_TRANSFER_DISK_SNAPSHOTS |-> CreateReplicaDiskSnapshotsTask,
   DEPLOY_INSTANCE_RESOURCES |-> DeployReplicaInstanceResourcesTask,
   ATTACH_VOLUMES_TO_OSMORPHING_MINION |-> AttachVolumesToOSMorphingMinionTask,
   COLLECT_OSMORPHING_INFO |-> CollectOSMorphingInfoTask,
   DEPLOY_OS_MORPHING_RESOURCES |-> DeployOSMorphingResourcesTask,
   OS_MORPHING |-> OSMorphingTask,
   DETACH_VOLUMES_FROM_OSMORPHING_MINION |->
     DetachVolumesFromOSMorphingMinionTask,
   RELEASE_OSMORPHING_MINION |-> ReleaseOSMorphingMinionTask,
   DELETE_OS_MORPHING_RESOURCES |-> DeleteOSMorphingResourcesTask,
   GET_OPTIMAL_FLAVOR |-> GetOptimalFlavorTask,
   FINALIZE_INSTANCE_DEPLOYMENT |-> FinalizeReplicaInstanceDeploymentTask,
   DELETE_TRANSFER_TARGET_DISK_SNAPSHOTS |->
     DeleteReplicaTargetDiskSnapshotsTask,
   CLEANUP_FAILED_INSTANCE_DEPLOYMENT |->
     CleanupFailedReplicaInstanceDeploymentTask,
   RESTORE_TRANSFER_DISK_SNAPSHOTS |-> RestoreReplicaDiskSnapshotsTask]

TaskTypes == DOMAIN TASKS_MAP

-----------------------------------------------------------------------------
(***************************************************************************)
(* base.py, TaskRunner.run                                                 *)
(***************************************************************************)

Empty == {"absent", "none"}

\* run raises neither for a missing field nor for one _run refuses, and what
\* _run returns is what the class declares.
Runs(type, info) ==
  LET runner == TASKS_MAP[type]
  IN /\ \A f \in runner.required : info[f] # "absent"
     /\ \A f \in runner.demands : info[f] \notin Empty
     /\ DOMAIN runner.result = runner.returned

\* What a run which goes well returns.
Result(type, info) ==
  LET result == TASKS_MAP[type].result
  IN [f \in DOMAIN result |->
        IF result[f] \in Fields THEN info[result[f]] ELSE result[f]]
=============================================================================

----------------------------- MODULE OlvmImport -----------------------------
(***************************************************************************)
(* The import provider of OLVM/oVirt.  A VM is removed with the disks      *)
(* which are still attached to it, and a disk which is attached to a VM    *)
(* cannot be attached to another one.  The networks which a deployment     *)
(* provisions are here, too.                                               *)
(***************************************************************************)
EXTENDS ImportCalls

VARIABLE network   \* the logical network of the source's NIC on the platform:
                   \* [vlan (0 if there is none), cluster, profile, used]

olvmVars == <<vars, network>>

\* Whatever is not said to change.
Rest == UNCHANGED <<infoVars, warned, network>>

SourceVlan == 1

NoNetwork == [vlan |-> 0, cluster |-> FALSE, profile |-> FALSE, used |-> FALSE]

\* A network of that name may be there, on the same VLAN or on another one.
OlvmInit ==
  /\ Init
  /\ \E vlan \in 0..2 :
       network = [NoNetwork EXCEPT !.vlan = vlan, !.cluster = vlan # 0]

-----------------------------------------------------------------------------
\* _ensure_disk_size
EnsureDiskSize(d) ==
  [disk EXCEPT ![d].size = IF @ < source.size THEN source.size ELSE @]

\* deploy_replica_disks: a disk which is there is kept, and extended if it is
\* too small; others are created.
DeployDisk ==
  /\ In("deploy_replica_disks", "begin") /\ Len(made) < Disks
  /\ LET i == Len(made) + 1
         d == IF i <= Len(volumes_info) THEN volumes_info[i] ELSE 0
     IN IF Exists(d)
        THEN /\ disk' = EnsureDiskSize(d)
             /\ made' = Append(made, d)
             /\ UNCHANGED fresh
        ELSE /\ disk' = disk @@ (fresh :> NewDisk(i, source.size))
             /\ made' = Append(made, fresh)
             /\ fresh' = fresh + 1
  /\ Goto("begin")
  /\ Rest /\ UNCHANGED <<vm, todo, mine>>

DisksDeployed ==
  /\ In("deploy_replica_disks", "begin") /\ Len(made) = Disks
  /\ volumes_info' = made
  /\ Returned("deploy_replica_target_resources")
  /\ UNCHANGED <<platformVars, target_resources, instance_deployment_info,
                 os_morphing_resources, clone_disks, warned, network>>

-----------------------------------------------------------------------------
\* deploy_replica_target_resources
CreateMinionVm ==
  /\ In("deploy_replica_target_resources", "begin")
  /\ CreateMinion
  /\ todo' = volumes_info
  /\ Goto("attach")
  /\ Rest /\ UNCHANGED made

\* The disk may still be attached to a VM which was left behind.
AttachVolume ==
  /\ In("deploy_replica_target_resources", "attach") /\ todo # <<>>
  /\ IF Attachable(Head(todo))
     THEN /\ Attach(Head(todo), mine, FALSE)
          /\ todo' = Tail(todo)
          /\ Goto("attach")
          /\ Rest /\ UNCHANGED <<vm, fresh, made, mine>>
     ELSE Impossible(method) /\ UNCHANGED network

StartMinion ==
  /\ In("deploy_replica_target_resources", "attach") /\ todo = <<>>
  /\ SetPower(mine, TRUE)
  /\ Goto("writer")
  /\ Rest /\ UNCHANGED <<disk, fresh, localVars>>

WriterReady ==
  /\ In("deploy_replica_target_resources", "writer")
  /\ target_resources' = mine
  /\ Returned("replicate_disks")
  /\ UNCHANGED <<platformVars, volumes_info, instance_deployment_info,
                 os_morphing_resources, clone_disks, warned, network>>

-----------------------------------------------------------------------------
\* delete_replica_target_resources: the VM is stopped, and its disks, its own
\* among them, are detached one by one.
StopMinion ==
  /\ In("delete_replica_target_resources", "begin")
  /\ SetPower(target_resources, FALSE)
  /\ Goto("detach")
  /\ Rest /\ UNCHANGED <<disk, fresh, localVars>>

\* Mutant: the disks stay attached.
DetachNothing ==
  /\ In("delete_replica_target_resources", "detach")
  /\ Goto("remove")
  /\ Rest /\ UNCHANGED <<platformVars, localVars>>

DetachVolume ==
  /\ In("delete_replica_target_resources", "detach")
  /\ \/ /\ \E d \in AttachedTo(target_resources) : Detach(d)
        /\ Goto("detach")
     \/ /\ AttachedTo(target_resources) = {}
        /\ Goto("remove") /\ UNCHANGED disk
  /\ Rest /\ UNCHANGED <<vm, fresh, localVars>>

\* One which fails is logged, and ends the loop.
DetachFails ==
  /\ In("delete_replica_target_resources", "detach")
  /\ AttachedTo(target_resources) # {}
  /\ Warn
  /\ pos' = "remove"
  /\ UNCHANGED <<platformVars, method, localVars, infoVars, source, replicated,
                 booted, rounds, errored, network>>

RemoveMinion ==
  /\ In("delete_replica_target_resources", "remove")
  /\ vm' = Without(vm, {target_resources})
  /\ disk' = Without(disk, AttachedTo(target_resources))
  /\ target_resources' = 0
  /\ Returned("idle")
  /\ UNCHANGED <<fresh, volumes_info, instance_deployment_info,
                 os_morphing_resources, clone_disks, warned, network>>

\* delete_replica_disks goes on with the next disk when one fails.
DeleteDisk ==
  /\ In("delete_replica_disks", "begin")
  /\ IF todo # <<>>
     THEN /\ disk' = Without(disk, {Head(todo)})
          /\ todo' = Tail(todo)
          /\ Goto("begin")
          /\ Rest /\ UNCHANGED <<vm, fresh, made, mine>>
     ELSE /\ volumes_info' = <<>>
          /\ Returned("idle")
          /\ UNCHANGED <<platformVars, target_resources, warned, network,
                         instance_deployment_info, os_morphing_resources,
                         clone_disks>>

DeleteDiskFails ==
  /\ In("delete_replica_disks", "begin") /\ todo # <<>>
  /\ Warn
  /\ todo' = Tail(todo)
  /\ UNCHANGED <<platformVars, method, pos, made, mine, infoVars, source,
                 replicated, booted, rounds, errored, network>>

-----------------------------------------------------------------------------
\* deploy_replica_instance.  A NIC gets the profile which it is mapped to, or
\* that of the network of its source's name, which is provisioned if need be.
MappedNetwork ==
  /\ In("deploy_replica_instance", "begin")
  /\ Goto("vm")
  /\ Rest /\ UNCHANGED <<platformVars, localVars>>

EnsureNetwork ==
  /\ In("deploy_replica_instance", "begin")
  /\ CASE network.vlan = SourceVlan ->
            /\ Goto("profile")
            /\ Rest /\ UNCHANGED <<platformVars, localVars>>
       [] network.vlan = 0 ->
            /\ network' = [network EXCEPT !.vlan = SourceVlan]
            /\ Goto("cluster")
            /\ UNCHANGED <<platformVars, localVars, infoVars, warned>>
       [] OTHER -> Impossible(method) /\ UNCHANGED network

AttachToCluster ==
  /\ In("deploy_replica_instance", "cluster")
  /\ network' = [network EXCEPT !.cluster = TRUE]
  /\ Goto("profile")
  /\ UNCHANGED <<platformVars, localVars, infoVars, warned>>

VnicProfile ==
  /\ In("deploy_replica_instance", "profile")
  /\ network' = [network EXCEPT !.profile = TRUE]
  /\ Goto("vm")
  /\ UNCHANGED <<platformVars, localVars, infoVars, warned>>

\* A profile which was provisioned is the one which the NIC gets.
CreateVm ==
  /\ In("deploy_replica_instance", "vm")
  /\ IF TargetExists THEN Impossible(method) /\ UNCHANGED network
     ELSE /\ CreateTarget
          /\ todo' = volumes_info
          /\ network' = [network EXCEPT !.used = @ \/ network.profile]
          /\ Goto("disks")
          /\ UNCHANGED <<disk, made, infoVars, warned>>

\* _clone_disk asks for a copy, and looks for it by its name.
CopyDisk ==
  /\ In("deploy_replica_instance", "disks") /\ todo # <<>> /\ clone_disks
  /\ IF Exists(Head(todo))
     THEN /\ disk' = disk @@ (fresh :> CloneOf(Head(todo)))
          /\ fresh' = fresh + 1
          /\ Goto("locate")
          /\ Rest /\ UNCHANGED <<vm, localVars>>
     ELSE Impossible(method) /\ UNCHANGED network

\* The disks of the name of a clone.
SameName(d) == {c \in DOMAIN disk : disk[c].clone /\ disk[c].of = disk[d].of}

\* The first of the volumes is the bootable one.
AttachDisk(d) ==
  IF Attachable(d)
  THEN /\ Attach(d, mine, Head(todo) = volumes_info[1])
       /\ todo' = Tail(todo)
       /\ Goto("disks")
       /\ Rest /\ UNCHANGED <<vm, fresh, made, mine>>
  ELSE Impossible(method) /\ UNCHANGED network

AttachClone ==
  /\ In("deploy_replica_instance", "locate")
  /\ \E d \in SameName(Head(todo)) : AttachDisk(d)

AttachReplica ==
  /\ In("deploy_replica_instance", "disks") /\ todo # <<>> /\ ~clone_disks
  /\ AttachDisk(Head(todo))

InstanceDeployed ==
  /\ In("deploy_replica_instance", "disks") /\ todo = <<>>
  /\ instance_deployment_info' = mine
  /\ Returned("deploy_os_morphing_resources")
  /\ UNCHANGED <<platformVars, volumes_info, target_resources,
                 os_morphing_resources, clone_disks, warned, network>>

-----------------------------------------------------------------------------
\* deploy_os_morphing_resources: the disks move to another VM.
CreateMorphingVm ==
  /\ In("deploy_os_morphing_resources", "begin")
  /\ CreateMinion
  /\ todo' = Attached(instance_deployment_info)
  /\ Goto("move")
  /\ Rest /\ UNCHANGED made

\* A failure to detach a disk is ignored.
TryDetach(d) ==
  /\ \/ Detach(d) /\ UNCHANGED failures
     \/ failures < MaxFailures /\ failures' = failures + 1 /\ UNCHANGED disk
  /\ pos' = "attach"
  /\ UNCHANGED <<vm, fresh, method, made, mine, source, replicated, booted, rounds,
                 errored>>
  /\ Rest

DetachFromTarget ==
  /\ In("deploy_os_morphing_resources", "move") /\ todo # <<>>
  /\ TryDetach(Head(todo))
  /\ UNCHANGED todo

AttachToMinion ==
  /\ In("deploy_os_morphing_resources", "attach")
  /\ IF Attachable(Head(todo))
     THEN /\ Attach(Head(todo), mine, FALSE)
          /\ made' = Append(made, Head(todo))
          /\ todo' = Tail(todo)
          /\ Goto("move")
          /\ Rest /\ UNCHANGED <<vm, fresh, mine>>
     ELSE Impossible(method) /\ UNCHANGED network

StartMorphing ==
  /\ In("deploy_os_morphing_resources", "move") /\ todo = <<>>
  /\ SetPower(mine, TRUE)
  /\ Goto("address")
  /\ Rest /\ UNCHANGED <<disk, fresh, localVars>>

\* The bootable one was the first to be moved.
MorphingDeployed ==
  /\ In("deploy_os_morphing_resources", "address")
  /\ os_morphing_resources' =
       [minion |-> mine, target |-> instance_deployment_info,
        boot |-> made[1], disks |-> {made[i] : i \in DOMAIN made}]
  /\ Returned("os_morphing")
  /\ UNCHANGED <<platformVars, volumes_info, target_resources,
                 instance_deployment_info, clone_disks, warned, network>>

-----------------------------------------------------------------------------
\* delete_os_morphing_resources: and back.
StopMorphing ==
  /\ In("delete_os_morphing_resources", "begin")
  /\ SetPower(os_morphing_resources.minion, FALSE)
  /\ Goto("move")
  /\ Rest /\ UNCHANGED <<disk, fresh, localVars>>

ToMoveBack ==
  AttachedTo(os_morphing_resources.minion) \cap os_morphing_resources.disks

DetachFromMinion ==
  /\ In("delete_os_morphing_resources", "move")
  /\ \/ \E d \in ToMoveBack : TryDetach(d) /\ todo' = <<d>>
     \/ /\ ToMoveBack = {}
        /\ Goto("remove")
        /\ Rest /\ UNCHANGED <<platformVars, localVars>>

MoveBack ==
  /\ In("delete_os_morphing_resources", "attach")
  /\ LET d == Head(todo)
     IN IF Attachable(d)
        THEN /\ Attach(d, os_morphing_resources.target, d = os_morphing_resources.boot)
             /\ todo' = <<>>
             /\ Goto("move")
             /\ Rest /\ UNCHANGED <<vm, fresh, made, mine>>
        ELSE Impossible(method) /\ UNCHANGED network

RemoveMorphing ==
  /\ In("delete_os_morphing_resources", "remove")
  /\ vm' = Without(vm, {os_morphing_resources.minion})
  /\ disk' = Without(disk, AttachedTo(os_morphing_resources.minion))
  /\ os_morphing_resources' = None
  /\ Returned(AfterMorphing)
  /\ UNCHANGED <<fresh, volumes_info, target_resources,
                 instance_deployment_info, clone_disks, warned, network>>

-----------------------------------------------------------------------------
\* finalize_replica_instance_deployment; the volumes which were deployed are
\* the transfer's no more.
StartVm ==
  /\ In("finalize_replica_instance_deployment", "begin")
  /\ StartTarget(instance_deployment_info)
  /\ pos' = "started"
  /\ UNCHANGED <<disk, fresh, method, localVars, source, replicated, rounds,
                 failures, errored>>
  /\ Rest

Finalized ==
  /\ In("finalize_replica_instance_deployment", "started")
  /\ volumes_info' = IF clone_disks THEN volumes_info ELSE <<>>
  /\ Returned("idle")
  /\ UNCHANGED <<platformVars, target_resources, instance_deployment_info,
                 os_morphing_resources, clone_disks, warned, network>>

\* cleanup_failed_replica_instance_deployment: a VM which runs cannot be removed.
CleanupFailed ==
  /\ In("cleanup_failed_replica_instance_deployment", "begin")
  /\ IF vm[instance_deployment_info].up
     THEN Impossible(method) /\ UNCHANGED network
     ELSE /\ vm' = Without(vm, {instance_deployment_info})
          /\ disk' = Without(disk, AttachedTo(instance_deployment_info))
          /\ instance_deployment_info' = 0
          /\ Returned("idle")
          /\ UNCHANGED <<fresh, volumes_info, target_resources,
                         os_morphing_resources, clone_disks, warned, network>>

-----------------------------------------------------------------------------
\* Where the calls are which raise.
Raising ==
  {"deploy_replica_disks", "replicate_disks", "os_morphing",
   "cleanup_failed_replica_instance_deployment"} \X {"begin"}
  \cup {"deploy_replica_target_resources"} \X {"begin", "attach", "writer"}
  \cup {"delete_replica_target_resources"} \X {"begin", "remove"}
  \cup {"deploy_replica_instance"} \X
         {"begin", "cluster", "profile", "vm", "disks", "locate"}
  \cup {"deploy_os_morphing_resources"} \X {"begin", "move", "attach", "address"}
  \cup {"delete_os_morphing_resources"} \X {"begin", "move", "attach", "remove"}
  \cup {"finalize_replica_instance_deployment"} \X {"begin", "started"}

OlvmNext ==
  \/ TasksNext /\ UNCHANGED network
  \/ CallRaises(Raising) /\ UNCHANGED network
  \/ DeployDisk \/ DisksDeployed
  \/ CreateMinionVm \/ AttachVolume \/ StartMinion \/ WriterReady
  \/ StopMinion \/ DetachVolume \/ DetachFails \/ RemoveMinion
  \/ DeleteDisk \/ DeleteDiskFails
  \/ MappedNetwork \/ EnsureNetwork \/ AttachToCluster \/ VnicProfile
  \/ CreateVm \/ CopyDisk \/ AttachClone \/ AttachReplica \/ InstanceDeployed
  \/ CreateMorphingVm \/ DetachFromTarget \/ AttachToMinion \/ StartMorphing \/ MorphingDeployed
  \/ StopMorphing \/ DetachFromMinion \/ MoveBack \/ RemoveMorphing
  \/ StartVm \/ Finalized \/ CleanupFailed

OlvmSpec == OlvmInit /\ [][OlvmNext]_olvmVars
=============================================================================

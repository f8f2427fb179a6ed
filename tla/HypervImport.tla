---------------------------- MODULE HypervImport ----------------------------
(***************************************************************************)
(* The import provider of Hyper-V, which runs PowerShell on the host.  A   *)
(* replica's VHDX has a path made of the names of the instance and of the  *)
(* disk, and New-VHD fails if there is a file at that path.  A VM which is *)
(* removed leaves its VHDX files behind.  Much of the cleanup is run with  *)
(* -ErrorAction SilentlyContinue: it fails and nobody knows.               *)
(***************************************************************************)
EXTENDS ImportCalls

Rest == UNCHANGED <<infoVars, warned>>

\* The replica of disk i on the host, at the path which _vhdx_path makes.
AtPath(i) == {d \in DOMAIN disk : disk[d].of = i /\ ~disk[d].clone}

-----------------------------------------------------------------------------
\* deploy_replica_disks
DeployDisk ==
  /\ In("deploy_replica_disks", "begin") /\ Len(made) < Disks
  /\ LET i == Len(made) + 1
         d == IF i <= Len(volumes_info) THEN volumes_info[i] ELSE 0
         resized == [disk EXCEPT ![d].size =
                       IF @ < source.size THEN source.size ELSE @]
         created == disk @@ (fresh :> NewDisk(i, source.size))
     IN CASE Exists(d) ->
               /\ disk' = resized
               /\ made' = Append(made, d)
               /\ Goto("begin")
               /\ Rest /\ UNCHANGED <<vm, fresh, todo, mine>>
          [] ~Exists(d) /\ AtPath(i) = {} ->
               /\ disk' = created
               /\ made' = Append(made, fresh)
               /\ fresh' = fresh + 1
               /\ Goto("begin")
               /\ Rest /\ UNCHANGED <<vm, todo, mine>>
          [] OTHER -> Impossible(method)

DisksDeployed ==
  /\ In("deploy_replica_disks", "begin") /\ Len(made) = Disks
  /\ volumes_info' = made
  /\ Returned("deploy_replica_target_resources")
  /\ UNCHANGED <<platformVars, target_resources, instance_deployment_info,
                 os_morphing_resources, clone_disks, warned>>

-----------------------------------------------------------------------------
\* deploy_replica_target_resources
CreateMinionVm ==
  /\ In("deploy_replica_target_resources", "begin")
  /\ CreateMinion
  /\ todo' = volumes_info
  /\ Goto("attach")
  /\ Rest /\ UNCHANGED made

AttachVolume ==
  /\ In("deploy_replica_target_resources", "attach") /\ todo # <<>>
  /\ IF Attachable(Head(todo))
     THEN /\ Attach(Head(todo), mine, FALSE)
          /\ todo' = Tail(todo)
          /\ Goto("attach")
          /\ Rest /\ UNCHANGED <<vm, fresh, made, mine>>
     ELSE Impossible(method)

StartMinion ==
  /\ In("deploy_replica_target_resources", "attach") /\ todo = <<>>
  /\ SetPower(mine, TRUE)
  /\ Goto("writer")
  /\ Rest /\ UNCHANGED <<disk, fresh, localVars>>

WriterReady ==
  /\ In("deploy_replica_target_resources", "writer")
  /\ target_resources' = mine
  /\ Returned("replicate_disks")
  /\ UNCHANGED <<platformVars, volumes_info, instance_deployment_info,
                 os_morphing_resources, clone_disks, warned>>

\* _delete_vm: the VM is gone, and its own VHDX if it is a minion's; the others
\* are free.
DeleteVm(v) ==
  /\ vm' = Without(vm, {v})
  /\ disk' = [d \in DOMAIN disk \ {x \in AttachedTo(v) : disk[x].of = 0} |->
                IF disk[d].at = v THEN [disk[d] EXCEPT !.at = 0, !.boot = FALSE]
                ELSE disk[d]]

\* ... or all of it is still there.
DeleteVmSilentlyFails ==
  /\ failures < MaxFailures
  /\ failures' = failures + 1
  /\ UNCHANGED <<vm, disk>>

\* delete_replica_target_resources
DeleteMinion ==
  /\ In("delete_replica_target_resources", "begin")
  /\ \/ DeleteVm(target_resources) /\ UNCHANGED failures
     \/ DeleteVmSilentlyFails
  /\ target_resources' = 0
  /\ Return("idle")
  /\ UNCHANGED <<fresh, volumes_info, instance_deployment_info, source,
                 os_morphing_resources, clone_disks, replicated, booted,
                 rounds, errored, warned>>

\* A file in use cannot be removed.
Busy(d) == Exists(d) /\ disk[d].at # 0 /\ vm[disk[d].at].up

\* delete_replica_disks: Remove-Item is silent, too.
DeleteDisk ==
  /\ In("delete_replica_disks", "begin")
  /\ IF todo # <<>>
     THEN /\ disk' = IF Busy(Head(todo)) THEN disk ELSE Without(disk, {Head(todo)})
          /\ todo' = Tail(todo)
          /\ Goto("begin")
          /\ Rest /\ UNCHANGED <<vm, fresh, made, mine>>
     ELSE /\ volumes_info' = <<>>
          /\ Returned("idle")
          /\ UNCHANGED <<platformVars, target_resources, warned,
                         instance_deployment_info, os_morphing_resources,
                         clone_disks>>

DeleteDiskFails ==
  /\ In("delete_replica_disks", "begin") /\ todo # <<>>
  /\ failures < MaxFailures
  /\ failures' = failures + 1
  /\ todo' = Tail(todo)
  /\ UNCHANGED <<platformVars, method, pos, made, mine, infoVars, source,
                 replicated, booted, rounds, errored, warned>>

-----------------------------------------------------------------------------
\* deploy_replica_instance.  Two VMs may have the same name.
CreateVm ==
  /\ In("deploy_replica_instance", "begin")
  /\ CreateTarget
  /\ todo' = volumes_info
  /\ Goto("disks")
  /\ Rest /\ UNCHANGED <<disk, made>>

\* _clone_vhdx: the copy's path is unique.
CloneVhdx ==
  /\ In("deploy_replica_instance", "disks") /\ todo # <<>> /\ clone_disks
  /\ IF Exists(Head(todo))
     THEN /\ disk' = disk @@ (fresh :> CloneOf(Head(todo)))
          /\ fresh' = fresh + 1
          /\ made' = Append(made, fresh)
          /\ Goto("attach")
          /\ Rest /\ UNCHANGED <<vm, todo, mine>>
     ELSE Impossible(method)

\* Attaching by the VM's name is ambiguous if there are two.  The first disk,
\* or the clone of it, is the first boot device.
AttachDisk(d) ==
  IF Attachable(d) /\ Cardinality({v \in DOMAIN vm : vm[v].kind = "target"}) = 1
  THEN /\ Attach(d, mine, Head(todo) = volumes_info[1])
       /\ todo' = Tail(todo)
       /\ Goto("disks")
       /\ Rest /\ UNCHANGED <<vm, fresh, made, mine>>
  ELSE Impossible(method)

AttachClone ==
  /\ In("deploy_replica_instance", "attach")
  /\ AttachDisk(Last(made))

AttachReplica ==
  /\ In("deploy_replica_instance", "disks") /\ todo # <<>> /\ ~clone_disks
  /\ AttachDisk(Head(todo))

InstanceDeployed ==
  /\ In("deploy_replica_instance", "disks") /\ todo = <<>>
  /\ instance_deployment_info' = mine
  /\ Returned("deploy_os_morphing_resources")
  /\ UNCHANGED <<platformVars, volumes_info, target_resources,
                 os_morphing_resources, clone_disks, warned>>

-----------------------------------------------------------------------------
\* deploy_os_morphing_resources
DiskPaths ==
  /\ In("deploy_os_morphing_resources", "begin")
  /\ made' = Attached(instance_deployment_info)
  /\ todo' = made'
  /\ Goto("detach")
  /\ Rest /\ UNCHANGED <<platformVars, mine>>

DetachFromTarget ==
  /\ In("deploy_os_morphing_resources", "detach")
  /\ todo' = Tail(todo)
  /\ pos' = IF todo' = <<>> THEN "create" ELSE "detach"
  /\ \/ Detach(Head(todo)) /\ UNCHANGED <<warned, failures>>
     \/ Warn /\ UNCHANGED disk
  /\ UNCHANGED <<vm, fresh, method, made, mine, infoVars, source,
                 replicated, booted, rounds, errored>>

CreateMorphingVm ==
  /\ In("deploy_os_morphing_resources", "create")
  /\ CreateMinion
  /\ todo' = made
  /\ Goto("attach")
  /\ Rest /\ UNCHANGED made

AttachToMinion ==
  /\ In("deploy_os_morphing_resources", "attach") /\ todo # <<>>
  /\ IF Attachable(Head(todo))
     THEN /\ Attach(Head(todo), mine, FALSE)
          /\ todo' = Tail(todo)
          /\ Goto("attach")
          /\ Rest /\ UNCHANGED <<vm, fresh, made, mine>>
     ELSE Impossible(method)

MorphingDeployed ==
  /\ In("deploy_os_morphing_resources", "attach") /\ todo = <<>>
  /\ SetPower(mine, TRUE)
  /\ os_morphing_resources' =
       [minion |-> mine, target |-> instance_deployment_info,
        boot |-> made[1], disks |-> {made[i] : i \in DOMAIN made}]
  /\ Returned("os_morphing")
  /\ UNCHANGED <<disk, fresh, volumes_info, target_resources,
                 instance_deployment_info, clone_disks, warned>>

-----------------------------------------------------------------------------
\* delete_os_morphing_resources: what fails is logged.
OrderedPaths ==
  SetToSortSeq(os_morphing_resources.disks,
               LAMBDA d, e : \/ d = os_morphing_resources.boot /\ e # d
                             \/ e # os_morphing_resources.boot /\ d < e)

StopMorphing ==
  /\ In("delete_os_morphing_resources", "begin")
  /\ \/ SetPower(os_morphing_resources.minion, FALSE) /\ UNCHANGED <<warned, failures>>
     \/ Warn /\ UNCHANGED vm
  /\ todo' = OrderedPaths
  /\ pos' = "detach"
  /\ UNCHANGED <<disk, fresh, method, made, mine, infoVars, source, replicated,
                 booted, rounds, errored>>

DetachFromMinion ==
  /\ In("delete_os_morphing_resources", "detach")
  /\ \/ Detach(Head(todo)) /\ UNCHANGED <<warned, failures>>
     \/ Warn /\ UNCHANGED disk
  /\ IF Tail(todo) = <<>>
     THEN pos' = "attach" /\ todo' = OrderedPaths
     ELSE pos' = "detach" /\ todo' = Tail(todo)
  /\ UNCHANGED <<vm, fresh, method, made, mine, infoVars, source,
                 replicated, booted, rounds, errored>>

\* Mutant: only the boot disk is given back.
ReattachFirstOnly ==
  /\ In("delete_os_morphing_resources", "attach")
  /\ Attach(Head(todo), os_morphing_resources.target, TRUE)
  /\ todo' = <<>> /\ pos' = "delete"
  /\ UNCHANGED <<vm, fresh, method, made, mine, infoVars, source,
                 replicated, booted, rounds, errored, warned, failures>>

\* The boot disk is the first to be attached again.
Reattach ==
  /\ In("delete_os_morphing_resources", "attach")
  /\ \/ /\ Attachable(Head(todo))
        /\ Attach(Head(todo), os_morphing_resources.target,
                  AttachedTo(os_morphing_resources.target) = {})
        /\ UNCHANGED <<warned, failures>>
     \/ Warn /\ UNCHANGED disk
     \/ /\ ~Attachable(Head(todo))
        /\ warned' = TRUE /\ UNCHANGED <<disk, failures>>
  /\ todo' = Tail(todo)
  /\ pos' = IF todo' = <<>> THEN "delete" ELSE "attach"
  /\ UNCHANGED <<vm, fresh, method, made, mine, infoVars, source,
                 replicated, booted, rounds, errored>>

DeleteMorphing ==
  /\ In("delete_os_morphing_resources", "delete")
  /\ \/ DeleteVm(os_morphing_resources.minion) /\ UNCHANGED failures
     \/ DeleteVmSilentlyFails
  /\ os_morphing_resources' = None
  /\ Return(AfterMorphing)
  /\ UNCHANGED <<fresh, volumes_info, target_resources, source, replicated,
                 instance_deployment_info, clone_disks, booted, rounds,
                 errored, warned>>

-----------------------------------------------------------------------------
\* finalize_replica_instance_deployment
StartVm ==
  /\ In("finalize_replica_instance_deployment", "begin")
  /\ StartTarget(instance_deployment_info)
  /\ pos' = "get"
  /\ Rest /\ UNCHANGED <<disk, fresh, method, localVars, source, replicated,
                         rounds, failures, errored>>

Finalized ==
  /\ In("finalize_replica_instance_deployment", "get")
  /\ volumes_info' = IF clone_disks THEN volumes_info ELSE <<>>
  /\ Returned("idle")
  /\ UNCHANGED <<platformVars, target_resources, instance_deployment_info,
                 os_morphing_resources, clone_disks, warned>>

\* cleanup_failed_replica_instance_deployment
CleanupFailed ==
  /\ In("cleanup_failed_replica_instance_deployment", "begin")
  /\ \/ DeleteVm(instance_deployment_info) /\ UNCHANGED failures
     \/ DeleteVmSilentlyFails
  /\ instance_deployment_info' = 0
  /\ Return("idle")
  /\ UNCHANGED <<fresh, volumes_info, target_resources, os_morphing_resources,
                 clone_disks, source, replicated, booted, rounds, errored,
                 warned>>

-----------------------------------------------------------------------------
\* Every script raises if the host cannot be reached.
Raising ==
  {"deploy_replica_disks", "replicate_disks", "os_morphing",
   "delete_replica_target_resources",
   "cleanup_failed_replica_instance_deployment"} \X {"begin"}
  \cup {"deploy_replica_target_resources"} \X {"begin", "attach", "writer"}
  \cup {"deploy_replica_instance"} \X {"begin", "disks", "attach"}
  \cup {"deploy_os_morphing_resources"} \X {"begin", "create", "attach"}
  \cup {<<"delete_os_morphing_resources", "delete">>}
  \cup {"finalize_replica_instance_deployment"} \X {"begin", "get"}

HypervNext ==
  \/ TasksNext
  \/ CallRaises(Raising)
  \/ DeployDisk \/ DisksDeployed
  \/ CreateMinionVm \/ AttachVolume \/ StartMinion \/ WriterReady
  \/ DeleteMinion \/ DeleteDisk \/ DeleteDiskFails
  \/ CreateVm \/ CloneVhdx \/ AttachClone \/ AttachReplica \/ InstanceDeployed
  \/ DiskPaths \/ DetachFromTarget \/ CreateMorphingVm \/ AttachToMinion
  \/ MorphingDeployed
  \/ StopMorphing \/ DetachFromMinion \/ Reattach \/ DeleteMorphing
  \/ StartVm \/ Finalized \/ CleanupFailed

HypervSpec == Init /\ [][HypervNext]_vars
=============================================================================

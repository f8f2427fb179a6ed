--------------------------- MODULE ProxmoxImport ---------------------------
(***************************************************************************)
(* The import provider of Proxmox.  Its deploy_replica_instance returns    *)
(* {"vm_id": ...}, and DeployReplicaInstanceResourcesTask takes            *)
(* "instance_deployment_info" from what is returned: the task fails after  *)
(* the VM was created, and the methods for the rest of a deployment are    *)
(* never called.  A VM is deleted with the disks which its configuration   *)
(* has.                                                                    *)
(***************************************************************************)
EXTENDS ImportCalls

Rest == UNCHANGED <<infoVars, warned>>

-----------------------------------------------------------------------------
\* size_gb, in half GiB: the size is truncated, and is 1 GiB at least.
SizeGb(size) == IF size \div 2 <= 0 THEN 2 ELSE 2 * (size \div 2)

\* The volume of the next disk which volumes_info has, 0 if none.
Volume == IF Len(made) < Len(volumes_info) THEN volumes_info[Len(made) + 1] ELSE 0

KeepDisk == made' = Append(made, Volume) /\ UNCHANGED <<disk, fresh>>

CreateDisk ==
  /\ disk' = disk @@ (fresh :> NewDisk(Len(made) + 1, SizeGb(source.size)))
  /\ made' = Append(made, fresh)
  /\ fresh' = fresh + 1

\* deploy_replica_disks: a disk which is there is kept as it is.
DeployDisk ==
  /\ In("deploy_replica_disks", "begin") /\ Len(made) < Disks
  /\ IF Exists(Volume) THEN KeepDisk ELSE CreateDisk
  /\ Goto("begin")
  /\ Rest /\ UNCHANGED <<vm, todo, mine>>

\* Whatever the request for the volume raises, it is "not found on storage" and made
\* anew; the one which is there is left.
LookupFails ==
  /\ In("deploy_replica_disks", "begin") /\ Len(made) < Disks
  /\ Exists(Volume) /\ failures < MaxFailures
  /\ failures' = failures + 1
  /\ CreateDisk
  /\ Rest /\ UNCHANGED <<vm, method, pos, todo, mine, source, replicated, booted,
                         rounds, errored>>

DisksDeployed ==
  /\ In("deploy_replica_disks", "begin") /\ Len(made) = Disks
  /\ volumes_info' = made
  /\ Returned("deploy_replica_target_resources")
  /\ UNCHANGED <<platformVars, target_resources, instance_deployment_info,
                 os_morphing_resources, clone_disks, warned>>

-----------------------------------------------------------------------------
\* deploy_replica_target_resources
CreateMinionVm ==
  /\ In("deploy_replica_target_resources", "begin")
  /\ CreateMinion
  /\ todo' = volumes_info
  /\ Goto("attach")
  /\ Rest /\ UNCHANGED made

AttachVolume ==
  /\ In("deploy_replica_target_resources", "attach") /\ todo # <<>>
  /\ IF Attachable(Head(todo))
     THEN /\ Attach(Head(todo), mine, FALSE)
          /\ todo' = Tail(todo)
          /\ Goto("attach")
          /\ Rest /\ UNCHANGED <<vm, fresh, made, mine>>
     ELSE Impossible(method)

StartMinion ==
  /\ In("deploy_replica_target_resources", "attach") /\ todo = <<>>
  /\ SetPower(mine, TRUE)
  /\ Goto("writer")
  /\ Rest /\ UNCHANGED <<disk, fresh, localVars>>

\* The writer is set up, and the device of every volume is found by its serial.
WriterReady ==
  /\ In("deploy_replica_target_resources", "writer")
  /\ target_resources' = mine
  /\ Returned("replicate_disks")
  /\ UNCHANGED <<platformVars, volumes_info, instance_deployment_info,
                 os_morphing_resources, clone_disks, warned>>

-----------------------------------------------------------------------------
\* delete_replica_target_resources: whatever fails is logged.
StopMinion ==
  /\ In("delete_replica_target_resources", "begin")
  /\ \/ SetPower(target_resources, FALSE) /\ UNCHANGED <<warned, failures>>
     \/ Warn /\ UNCHANGED vm
  /\ pos' = "detach"
  /\ UNCHANGED <<disk, fresh, method, localVars, infoVars, source, replicated,
                 booted, rounds, errored>>

\* All the disks but the VM's own one, in one call.
DetachVolumes ==
  /\ In("delete_replica_target_resources", "detach")
  /\ \/ /\ disk' = [d \in DOMAIN disk |->
                      IF disk[d].at = target_resources /\ disk[d].of # 0
                      THEN [disk[d] EXCEPT !.at = 0] ELSE disk[d]]
        /\ UNCHANGED <<warned, failures>>
     \/ Warn /\ UNCHANGED disk
  /\ pos' = "delete"
  /\ UNCHANGED <<vm, fresh, method, localVars, infoVars, source, replicated,
                 booted, rounds, errored>>

\* A VM which runs is not deleted.
DeleteMinion ==
  /\ In("delete_replica_target_resources", "delete")
  /\ \/ /\ ~vm[target_resources].up
        /\ vm' = Without(vm, {target_resources})
        /\ disk' = Without(disk, AttachedTo(target_resources))
        /\ UNCHANGED <<warned, failures>>
     \/ vm[target_resources].up /\ UNCHANGED <<vm, disk, warned, failures>>
     \/ Warn /\ UNCHANGED <<vm, disk>>
  /\ target_resources' = 0
  /\ Return("idle")
  /\ UNCHANGED <<fresh, volumes_info, instance_deployment_info, source,
                 os_morphing_resources, clone_disks, replicated, booted,
                 rounds, errored>>

\* delete_replica_disks
DeleteDisk ==
  /\ In("delete_replica_disks", "begin")
  /\ \/ /\ todo # <<>>
        /\ todo' = Tail(todo) /\ UNCHANGED <<method, made, mine, volumes_info>>
        /\ \/ disk' = Without(disk, {Head(todo)}) /\ UNCHANGED <<warned, failures>>
           \/ Warn /\ UNCHANGED disk
     \/ /\ todo = <<>>
        /\ volumes_info' = <<>>
        /\ Return("idle")
        /\ UNCHANGED <<disk, warned, failures>>
  /\ pos' = "begin"
  /\ UNCHANGED <<vm, fresh, target_resources, instance_deployment_info,
                 os_morphing_resources, clone_disks, source, replicated,
                 booted, rounds, errored>>

-----------------------------------------------------------------------------
\* deploy_replica_instance: a VM of the instance's name is deleted first, and a
\* failure to is logged.
DeleteOld ==
  /\ In("deploy_replica_instance", "begin")
  /\ \/ \E v \in DOMAIN vm : /\ vm[v].kind = "target"
                             /\ vm' = Without(vm, {v})
                             /\ disk' = Without(disk, AttachedTo(v))
                             /\ UNCHANGED <<warned, failures>>
     \/ ~TargetExists /\ UNCHANGED <<vm, disk, warned, failures>>
     \/ TargetExists /\ Warn /\ UNCHANGED <<vm, disk>>
  /\ pos' = "create"
  /\ UNCHANGED <<fresh, method, localVars, infoVars, source, replicated,
                 booted, rounds, errored>>

\* The VM has the id of the one it replaces.
CreateVm ==
  /\ In("deploy_replica_instance", "create")
  /\ IF TargetExists THEN Impossible(method)
     ELSE /\ CreateTarget
          /\ todo' = volumes_info
          /\ Goto("disks")
          /\ Rest /\ UNCHANGED <<disk, made>>

AttachReplica ==
  /\ In("deploy_replica_instance", "disks") /\ todo # <<>>
  /\ IF Attachable(Head(todo))
     THEN /\ Attach(Head(todo), mine, Head(todo) = volumes_info[1])
          /\ todo' = Tail(todo)
          /\ Goto(IF clone_disks THEN "move" ELSE "disks")
          /\ Rest /\ UNCHANGED <<vm, fresh, made, mine>>
     ELSE Impossible(method)

\* move_volume: the VM's disk is a copy from now on.
MoveVolume ==
  /\ In("deploy_replica_instance", "move")
  /\ LET d == CHOOSE x \in AttachedTo(mine) : ~disk[x].clone
     IN disk' = [disk EXCEPT ![d].at = 0, ![d].boot = FALSE]
                  @@ (fresh :> [disk[d] EXCEPT !.clone = TRUE])
  /\ fresh' = fresh + 1
  /\ Goto("disks")
  /\ Rest /\ UNCHANGED <<vm, localVars>>

\* The method returns, and the task does not find what it looks for.
KeyErrorInTask ==
  /\ In("deploy_replica_instance", "disks") /\ todo = <<>>
  /\ Impossible(method)

-----------------------------------------------------------------------------
Raising ==
  {"deploy_replica_disks", "replicate_disks"} \X {"begin"}
  \cup {"deploy_replica_target_resources"} \X {"begin", "attach", "writer"}
  \cup {"deploy_replica_instance"} \X {"create", "disks", "move"}

ProxmoxNext ==
  \/ TasksNext
  \/ CallRaises(Raising)
  \/ DeployDisk \/ LookupFails \/ DisksDeployed
  \/ CreateMinionVm \/ AttachVolume \/ StartMinion \/ WriterReady
  \/ StopMinion \/ DetachVolumes \/ DeleteMinion \/ DeleteDisk
  \/ DeleteOld \/ CreateVm \/ AttachReplica \/ MoveVolume \/ KeyErrorInTask

ProxmoxSpec == Init /\ [][ProxmoxNext]_vars
=============================================================================

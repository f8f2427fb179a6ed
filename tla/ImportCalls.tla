---------------------------- MODULE ImportCalls ----------------------------
(***************************************************************************)
(* The calls which the tasks of one instance make to the provider of the   *)
(* destination's platform, and the platform: its VMs and its disks.  The   *)
(* modules which extend this one have the methods of a provider, one       *)
(* action for every call they make to the platform which changes it.       *)
(*                                                                         *)
(* The order of the calls is that of the tasks of a transfer execution, of *)
(* a deployment and of the deletion of a transfer's disks (TaskGraphs has  *)
(* the graphs).  Any call to the platform may raise, up to MaxFailures     *)
(* times; what the tasks which remain do then is in AfterRaise.  A cleanup *)
(* task runs only if one of the tasks it cleans up after has completed.    *)
(***************************************************************************)
EXTENDS Integers, SequencesExt

CONSTANTS Disks,         \* the instance has the disks 1..Disks
          MaxRounds,     \* bound: executions
          MaxFailures    \* bound: calls to the platform which raise

VARIABLES
  vm,        \* the platform's VMs: id -> [kind, up]
  disk,      \* its disks: id -> [of, data, size, at, boot, clone]
  fresh,     \* the next id
  method,    \* the provider's method which is running, or "idle"
  pos,       \* where it is
  todo,      \* the volumes its loop has still to go over
  made,      \* new_volumes_info
  mine,      \* the VM it works with, 0 if none
  volumes_info, target_resources, instance_deployment_info,
  os_morphing_resources, clone_disks,
  source,    \* what the source has: the version of its data, and its size
  replicated,\* the last transfer execution completed
  booted,    \* the disks of the last VM which a deployment started, and the
             \* version of the data they were to have
  errored,   \* a task of the execution has failed
  warned,    \* a failure to detach, attach or delete was logged, and not raised
  rounds, failures

platformVars == <<vm, disk, fresh>>
infoVars == <<volumes_info, target_resources, instance_deployment_info,
              os_morphing_resources, clone_disks>>
localVars == <<todo, made, mine>>
otherVars == <<source, replicated, booted, rounds, failures, errored>>
vars == <<platformVars, method, pos, localVars, infoVars, otherVars, warned>>

Nothing == [disks |-> <<>>, data |-> 0]

None == [minion |-> 0, target |-> 0, boot |-> 0, disks |-> {}]

Init ==
  /\ vm = <<>> /\ disk = <<>> /\ fresh = 1
  /\ method = "idle" /\ pos = "begin"
  /\ todo = <<>> /\ made = <<>> /\ mine = 0
  /\ volumes_info = <<>> /\ target_resources = 0
  /\ instance_deployment_info = 0 /\ os_morphing_resources = None
  /\ clone_disks = TRUE
  /\ source = [data |-> 0, size |-> 2]
  /\ replicated = FALSE /\ booted = Nothing
  /\ errored = FALSE /\ warned = FALSE
  /\ rounds = 0 /\ failures = 0

-----------------------------------------------------------------------------
(***************************************************************************)
(* The platform                                                            *)
(***************************************************************************)

\* Sizes are in half GiB.
NewDisk(i, size) ==
  [of |-> i, data |-> 0, size |-> size, at |-> 0, boot |-> FALSE,
   clone |-> FALSE]

CloneOf(d) == [disk[d] EXCEPT !.at = 0, !.boot = FALSE, !.clone = TRUE]

Exists(d) == d \in DOMAIN disk

Without(f, S) == [x \in DOMAIN f \ S |-> f[x]]

AttachedTo(v) == {d \in DOMAIN disk : disk[d].at = v}

\* A disk is attached to one VM at a time.
Attachable(d) == Exists(d) /\ disk[d].at = 0

Attach(d, v, boot) == disk' = [disk EXCEPT ![d].at = v, ![d].boot = boot]

Detach(d) == disk' = [disk EXCEPT ![d].at = 0, ![d].boot = FALSE]

\* A VM which comes with a disk of its own, a copy of its template's.
CreateMinion ==
  /\ vm' = vm @@ (fresh :> [kind |-> "minion", up |-> FALSE])
  /\ disk' = disk @@ (fresh + 1 :> [NewDisk(0, 1) EXCEPT !.at = fresh])
  /\ mine' = fresh
  /\ fresh' = fresh + 2

TargetExists == \E v \in DOMAIN vm : vm[v].kind = "target"

CreateTarget ==
  /\ vm' = vm @@ (fresh :> [kind |-> "target", up |-> FALSE])
  /\ mine' = fresh
  /\ fresh' = fresh + 1

\* The disks attached to v, in the order of the source's.
Attached(v) == SetToSortSeq(AttachedTo(v), LAMBDA d, e : disk[d].of < disk[e].of)

SetPower(v, up) == vm' = [vm EXCEPT ![v].up = up]

-----------------------------------------------------------------------------
(***************************************************************************)
(* The tasks                                                               *)
(***************************************************************************)

In(m, p) == method = m /\ pos = p

Goto(p) == pos' = p /\ UNCHANGED <<method, otherVars>>

\* The method returns, and the task which calls m is the next.
Return(m) ==
  /\ method' = m /\ pos' = "begin"
  /\ todo' = <<>> /\ made' = <<>> /\ mine' = 0

Returned(m) == Return(m) /\ UNCHANGED otherVars

\* The source's data has changed since, and its disks may have been extended.
ExecuteTransfer ==
  /\ method = "idle" /\ rounds < MaxRounds
  /\ rounds' = rounds + 1 /\ errored' = FALSE
  /\ \E size \in {source.size, 3} :
       source' = [data |-> source.data + 1, size |-> size]
  /\ replicated' = FALSE
  /\ Return("deploy_replica_disks")
  /\ UNCHANGED <<platformVars, infoVars, booted, failures, warned>>

\* A deployment has an instance_deployment_info of its own.
Deploy ==
  /\ method = "idle" /\ rounds < MaxRounds
  /\ replicated /\ volumes_info # <<>>
  /\ rounds' = rounds + 1 /\ errored' = FALSE
  /\ clone_disks' \in BOOLEAN
  /\ instance_deployment_info' = 0 /\ os_morphing_resources' = None
  /\ Return("deploy_replica_instance")
  /\ UNCHANGED <<platformVars, volumes_info, target_resources, source,
                 replicated, booted, failures, warned>>

DeleteDisks ==
  /\ method = "idle" /\ rounds < MaxRounds
  /\ volumes_info # <<>>
  /\ rounds' = rounds + 1 /\ errored' = FALSE
  /\ replicated' = FALSE
  /\ method' = "delete_replica_disks" /\ pos' = "begin"
  /\ todo' = volumes_info /\ made' = <<>> /\ mine' = 0
  /\ UNCHANGED <<platformVars, infoVars, source, booted, failures, warned>>

\* provider.replicate_disks writes the volumes one after the other, through
\* the writer on the VM they are attached to.
ReplicateDisk ==
  /\ In("replicate_disks", "begin")
  /\ \/ /\ Len(made) < Len(volumes_info)
        /\ LET d == volumes_info[Len(made) + 1]
           IN /\ Exists(d) /\ vm[disk[d].at].up
              /\ disk' = [disk EXCEPT ![d].data = source.data]
              /\ made' = Append(made, d)
        /\ Goto("begin")
        /\ UNCHANGED <<vm, fresh, todo, mine, infoVars, warned>>
     \/ /\ Len(made) = Len(volumes_info)
        /\ replicated' = TRUE
        /\ Return("delete_replica_target_resources")
        /\ UNCHANGED <<platformVars, infoVars, source, booted, rounds,
                       failures, errored, warned>>

MorphImage ==
  /\ In("os_morphing", "begin")
  /\ Returned("delete_os_morphing_resources")
  /\ UNCHANGED <<platformVars, infoVars, warned>>

\* The method of the next task which is run after m has raised.
AfterRaise(m) ==
  CASE m = "replicate_disks" -> "delete_replica_target_resources"
    [] m = "os_morphing" -> "delete_os_morphing_resources"
    [] m \in {"deploy_os_morphing_resources", "delete_os_morphing_resources",
              "finalize_replica_instance_deployment"} ->
         "cleanup_failed_replica_instance_deployment"
    [] OTHER -> "idle"

\* The task which follows the deletion of the resources of OS morphing.
AfterMorphing ==
  IF errored THEN "cleanup_failed_replica_instance_deployment"
  ELSE "finalize_replica_instance_deployment"

\* A failed deletion of the resources makes the execution fail.
RaiseIn(m) ==
  /\ Return(AfterRaise(m))
  /\ errored' = TRUE
  /\ replicated' = (replicated /\ m \notin
                      {"deploy_replica_disks", "deploy_replica_target_resources",
                       "replicate_disks", "delete_replica_target_resources"})
  /\ UNCHANGED <<platformVars, infoVars, source, booted, rounds, warned>>

\* A call to the platform fails, and the method lets the exception through.
CallRaises(raising) ==
  /\ method # "idle" /\ failures < MaxFailures
  /\ <<method, pos>> \in raising
  /\ failures' = failures + 1
  /\ RaiseIn(method)

\* A call which cannot succeed, the platform being as it is.
Impossible(m) == RaiseIn(m) /\ UNCHANGED failures

\* A failure which is logged only.
Warn ==
  /\ failures < MaxFailures
  /\ failures' = failures + 1
  /\ warned' = TRUE

\* What a deployment left, or deployed, is removed by hand, with its disks: the
\* name of a VM is not free before.
VmRemovedByHand ==
  /\ method = "idle"
  /\ \E v \in DOMAIN vm :
       /\ vm[v].kind = "target"
       /\ vm' = Without(vm, {v})
       /\ disk' = Without(disk, AttachedTo(v))
  /\ UNCHANGED <<fresh, method, pos, localVars, infoVars, otherVars, warned>>

\* No more executions are asked for.
Finished == method = "idle" /\ rounds = MaxRounds /\ UNCHANGED vars

TasksNext ==
  ExecuteTransfer \/ Deploy \/ DeleteDisks \/ ReplicateDisk \/ MorphImage
    \/ VmRemovedByHand \/ Finished

\* vm_service.start() and its like, at the end of a deployment.
StartTarget(v) ==
  /\ SetPower(v, TRUE)
  /\ booted' = [disks |-> [d \in AttachedTo(v) |-> disk[d]],
                data |-> source.data]

-----------------------------------------------------------------------------
(***************************************************************************)
(* What is asked of every provider                                         *)
(***************************************************************************)

\* Type invariant: the attributes which the tasks pass on are what they pass.
TypeOK ==
  /\ \A v \in DOMAIN vm : vm[v].kind \in {"minion", "target"} /\ vm[v].up \in BOOLEAN
  /\ \A d \in DOMAIN disk : /\ disk[d].of \in 0..Disks
                            /\ disk[d].at \in DOMAIN vm \cup {0}
                            /\ disk[d].data \in 0..MaxRounds
  /\ volumes_info \in Seq(1..fresh) /\ Len(volumes_info) \in {0, Disks}
  /\ \A v \in {target_resources, instance_deployment_info, mine} : v \in 0..fresh

\* The VM which finalize_replica_instance_deployment starts has all the disks
\* of the source, each once, and boots from the first of them, unless a
\* failure to attach one of them was only logged.
StartedWhole ==
  \/ warned \/ booted = Nothing
  \/ LET d == booted.disks
     IN /\ {d[x].of : x \in DOMAIN d} = 1..Disks
        /\ Cardinality(DOMAIN d) = Disks
        /\ \A x \in DOMAIN d : d[x].boot <=> d[x].of = 1

\* The VM which finalize_replica_instance_deployment starts has the data of the
\* last transfer, on every disk.
StartedCurrent ==
  \A x \in DOMAIN booted.disks : booted.disks[x].data = booted.data

\* What is written by the next transfer fits: when the disks are replicated,
\* every volume is at least as large as the source's disk.
SourceFits ==
  method = "replicate_disks" =>
    \A i \in 1..Disks : Exists(volumes_info[i]) =>
                          disk[volumes_info[i]].size >= source.size
=============================================================================

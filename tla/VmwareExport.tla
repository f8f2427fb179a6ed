---------------------------- MODULE VmwareExport ----------------------------
(***************************************************************************)
(* The export provider of VMware: the disks of the source VMs are attached *)
(* to a worker VM which is there for good, and which all the instances of  *)
(* an execution, and all the executions, share.  The tasks of the          *)
(* instances run concurrently.                                             *)
(*                                                                         *)
(* The worker's devices are named in the order of their SCSI units.  A     *)
(* disk of a source VM is a pair <<instance, number>>.                     *)
(***************************************************************************)
EXTENDS Integers, Sequences, FiniteSets

CONSTANTS Instances, Disks,
          Units,          \* the free units of the worker's SCSI controller
          MaxExecutions,  \* bound: for every instance
          MaxFailures     \* bound: calls which fail

VARIABLES
  unit,        \* the worker's controller: unit -> disk
  seen,        \* the units whose disks the worker's kernel has found
  snapshots,   \* the snapshots of every source VM
  powered,     \* the source VMs which run
  at,          \* where the tasks of an instance are
  plan,        \* the units which _attach_disks_to_worker has chosen
  attached,    \* migr_resources["attached_disks"]
  snapshot_name,
  read,        \* what replicate_disks has read for every disk, None before
  alone,       \* whether it read while only this instance's disks were there
  executions, failures

vars == <<unit, seen, snapshots, powered, at, plan, attached, snapshot_name,
          read, alone, executions, failures>>

None == <<>>
DisksOf(i) == {<<i, k>> : k \in 1..Disks}

Init ==
  /\ unit = <<>> /\ seen = {}
  /\ snapshots = [i \in Instances |-> 0] /\ powered = Instances
  /\ at = [i \in Instances |-> "idle"]
  /\ plan = [i \in Instances |-> <<>>] /\ attached = [i \in Instances |-> <<>>]
  /\ snapshot_name = [i \in Instances |-> FALSE]
  /\ read = [i \in Instances |-> None] /\ alone = [i \in Instances |-> FALSE]
  /\ executions = [i \in Instances |-> 0] /\ failures = 0

Goto(i, p) == at' = [at EXCEPT ![i] = p]

-----------------------------------------------------------------------------
Execute(i) ==
  /\ at[i] = "idle" /\ executions[i] < MaxExecutions
  /\ executions' = [executions EXCEPT ![i] = @ + 1]
  /\ plan' = [plan EXCEPT ![i] = <<>>] /\ attached' = [attached EXCEPT ![i] = <<>>]
  /\ snapshot_name' = [snapshot_name EXCEPT ![i] = FALSE]
  /\ read' = [read EXCEPT ![i] = None]
  /\ Goto(i, "deploy")
  /\ UNCHANGED <<unit, seen, snapshots, powered, alone, failures>>

\* deploy_replica_source_resources, up to _create_source_snapshot: there is a
\* snapshot only of a VM which is on.  Nothing is attached if the worker is not
\* found.
CreateSnapshot(i) ==
  /\ at[i] = "deploy"
  /\ snapshots' = [snapshots EXCEPT ![i] = IF i \in powered THEN @ + 1 ELSE @]
  /\ snapshot_name' = [snapshot_name EXCEPT ![i] = i \in powered]
  /\ Goto(i, "attach")
  /\ UNCHANGED <<unit, seen, powered, plan, attached, read, alone, executions,
                 failures>>

WorkerNotFound(i) ==
  /\ at[i] = "deploy" /\ failures < MaxFailures
  /\ failures' = failures + 1
  /\ Goto(i, "replicate")
  /\ UNCHANGED <<unit, seen, snapshots, powered, plan, attached, snapshot_name,
                 read, alone, executions>>

\* A set of units in ascending order.
Ascending(S) ==
  [k \in 1..Cardinality(S) |-> CHOOSE u \in S : Cardinality({v \in S : v <= u}) = k]

UnitsOf(list) == {list[k] : k \in DOMAIN list}

\* The first units which are free, for the disks one after the other.
FreeUnits(n) == SubSeq(Ascending(Units \ DOMAIN unit), 1, n)

\* _attach_disks_to_worker reads the worker's configuration ...
ChooseUnits(i) ==
  /\ at[i] = "attach" /\ Cardinality(Units \ DOMAIN unit) >= Disks
  /\ plan' = [plan EXCEPT ![i] = FreeUnits(Disks)]
  /\ Goto(i, "reconfigure")
  /\ UNCHANGED <<unit, seen, snapshots, powered, attached, snapshot_name, read,
                 alone, executions, failures>>

\* The task raises, and what it has done is in nobody's migr_resources.
DeployRaises(i) ==
  /\ Goto(i, "idle")
  /\ UNCHANGED <<unit, seen, snapshots, powered, plan, attached, snapshot_name,
                 read, alone, executions>>

NoFreeUnits(i) ==
  /\ at[i] = "attach" /\ Cardinality(Units \ DOMAIN unit) < Disks
  /\ DeployRaises(i) /\ UNCHANGED failures

UnitsFree(i) == \A k \in 1..Disks : plan[i][k] \notin DOMAIN unit

\* ... and ReconfigVM_Task changes it, if the units are still free.
Reconfigure(i) ==
  /\ at[i] = "reconfigure" /\ UnitsFree(i)
  /\ unit' = [u \in DOMAIN unit \cup UnitsOf(plan[i]) |->
                IF u \in DOMAIN unit THEN unit[u]
                ELSE <<i, CHOOSE k \in 1..Disks : plan[i][k] = u>>]
  /\ attached' = [attached EXCEPT ![i] = plan[i]]
  /\ Goto(i, "rescan")
  /\ UNCHANGED <<seen, snapshots, powered, plan, snapshot_name, read, alone,
                 executions, failures>>

UnitTaken(i) ==
  /\ at[i] = "reconfigure" /\ ~UnitsFree(i)
  /\ DeployRaises(i) /\ UNCHANGED failures

CallRaises(i) ==
  /\ at[i] \in {"deploy", "attach", "reconfigure"} /\ failures < MaxFailures
  /\ failures' = failures + 1
  /\ DeployRaises(i)

\* _trigger_scsi_rescan: its failure is logged.
Rescan(i) ==
  /\ at[i] = "rescan"
  /\ \/ seen' = DOMAIN unit /\ UNCHANGED failures
     \/ failures < MaxFailures /\ failures' = failures + 1 /\ UNCHANGED seen
  /\ Goto(i, "replicate")
  /\ UNCHANGED <<unit, snapshots, powered, plan, attached, snapshot_name, read,
                 alone, executions>>

-----------------------------------------------------------------------------
\* The replicator's devices, in the order of their names.
DevNames == Ascending(seen \cap DOMAIN unit)

\* Mutant: the first device is the worker's own one.
OffByOne(k) == unit[DevNames[1 + (k % Len(DevNames))]]

\* The device of the k-th disk: dev_names[idx % len(dev_names)]
DeviceOf(k) == unit[DevNames[1 + ((k - 1) % Len(DevNames))]]

\* replicate_disks; without devices a path is made up, and the replicator
\* raises.
ReplicateDisks(i) ==
  /\ at[i] = "replicate"
  /\ read' = [read EXCEPT ![i] = IF DevNames = <<>> THEN None
                                 ELSE [k \in 1..Disks |-> DeviceOf(k)]]
  /\ alone' = [alone EXCEPT ![i] =
                 {unit[u] : u \in seen \cap DOMAIN unit} = DisksOf(i)]
  /\ Goto(i, "delete")
  /\ UNCHANGED <<unit, seen, snapshots, powered, plan, attached, snapshot_name,
                 executions, failures>>

-----------------------------------------------------------------------------
\* Mutant: every disk of the worker is detached.
MatchedAll(i) == DOMAIN unit

\* _detach_disks_from_worker: the devices with a file or a unit of the list.
Matched(i) ==
  {u \in DOMAIN unit : u \in UnitsOf(attached[i]) \/
     (attached[i] # <<>> /\ unit[u] \in DisksOf(i))}

\* delete_replica_source_resources; a failure is logged, and ends the cleanup,
\* but a worker which is not found does not.
DetachDisks(i) ==
  /\ at[i] = "delete"
  /\ \/ /\ unit' = [u \in DOMAIN unit \ Matched(i) |-> unit[u]]
        /\ seen' = seen \ Matched(i)
        /\ Goto(i, "unsnapshot") /\ UNCHANGED failures
     \/ /\ failures < MaxFailures /\ failures' = failures + 1
        /\ (Goto(i, "idle") \/ Goto(i, "unsnapshot"))
        /\ UNCHANGED <<unit, seen>>
  /\ UNCHANGED <<snapshots, powered, plan, attached, snapshot_name, read, alone,
                 executions>>

RemoveSnapshot(i) ==
  /\ at[i] = "unsnapshot"
  /\ \/ /\ snapshots' = [snapshots EXCEPT ![i] =
                           IF snapshot_name[i] /\ @ > 0 THEN @ - 1 ELSE @]
        /\ UNCHANGED failures
     \/ /\ failures < MaxFailures /\ failures' = failures + 1
        /\ UNCHANGED snapshots
  /\ Goto(i, "idle")
  /\ UNCHANGED <<unit, seen, powered, plan, attached, snapshot_name, read, alone,
                 executions>>

-----------------------------------------------------------------------------
\* shutdown_instance: the guest is asked, and waited for, but not for ever; or
\* the VM is switched off.  The provider goes on in any case.
ShutdownInstance(i) ==
  /\ at[i] = "idle" /\ i \in powered /\ executions[i] < MaxExecutions
  /\ executions' = [executions EXCEPT ![i] = @ + 1]
  /\ \/ powered' = powered \ {i} /\ UNCHANGED failures
     \/ failures < MaxFailures /\ failures' = failures + 1 /\ UNCHANGED powered
  /\ UNCHANGED <<unit, seen, snapshots, at, plan, attached, snapshot_name, read,
                 alone>>

Idle == \A i \in Instances : at[i] = "idle" /\ executions[i] = MaxExecutions

ExportNext ==
  \/ \E i \in Instances :
       \/ Execute(i) \/ CreateSnapshot(i) \/ WorkerNotFound(i) \/ ChooseUnits(i)
       \/ NoFreeUnits(i) \/ Reconfigure(i) \/ UnitTaken(i) \/ CallRaises(i)
       \/ Rescan(i) \/ ReplicateDisks(i) \/ DetachDisks(i) \/ RemoveSnapshot(i)
       \/ ShutdownInstance(i)
  \/ Idle /\ UNCHANGED vars

ExportSpec == Init /\ [][ExportNext]_vars

-----------------------------------------------------------------------------
\* While no other disks are on the worker than the instance's, and the kernel
\* has found them all, replicate_disks reads every disk from its own device.
ReadsItsOwn ==
  \A i \in Instances :
    alone[i] /\ read[i] # None => \A k \in 1..Disks : read[i][k] = <<i, k>>

\* delete_replica_source_resources never takes a disk away from another
\* instance, which may be reading it.
DetachesItsOwn == \A u \in DOMAIN unit \ DOMAIN unit' : at[unit[u][1]] = "delete"

\* Between executions the worker has only its own disks, unless a call has
\* failed: an instance which lost the race for a unit has attached none.
NothingAttached ==
  failures = 0 /\ (\A i \in Instances : at[i] = "idle") => unit = <<>>

\* "muss die Disk-ID (aus der VM-Export-Info) auf den tatsächlichen /dev/xxx
\* Pfad des Block-Devices im Source-Worker mappen": what is replicated to a disk
\* is what was read from its own source.
ReadsTheDisk ==
  \A i \in Instances :
    read[i] # None => \A k \in 1..Disks : read[i][k] = <<i, k>>

\* "Source-Worker und temporäre Ressourcen aufräumen.": the snapshot of an
\* instance is gone when its execution is over.
SnapshotsRemoved ==
  failures = 0 => \A i \in Instances : at[i] = "idle" => snapshots[i] = 0
=============================================================================

---------------------------- MODULE MCDataPath -----------------------------
(***************************************************************************)
(* The path of the data of a transfer: the export of VMware's disks, the   *)
(* replicator and the programs on the workers, and the backup writers.  A  *)
(* behaviour is about one of them.                                         *)
(***************************************************************************)
EXTENDS BackupWriters

CONSTANTS SetupAttempts, SetupFailures,
          ReplicaDisks, ReplicaChunks, ReplicaCalls, ReplicaFailures,
          ExportInstances, ExportDisks, ExportUnits, ExportExecutions

ASSUME DataPathAssumption ==
  /\ SetupAttempts \in Nat \ {0} /\ SetupFailures \in Nat
  /\ ReplicaDisks \in Nat /\ ReplicaChunks \in Nat
  /\ ExportDisks \in Nat

VARIABLES
  on,          \* which of them
  at,          \* of WorkerSetup and VmwareExport
  program, worker, init_system, ssh, member, local, attempts, certAttempts,
  reconnected, reused,
  src, dst, size, zeroed, keeps, repl_state, curr_state, volume, chunks, early,
  verified, outcome, calls,
  unit, seen, snapshots, powered, plan, attached, snapshot_name, read, alone,
  executions

writer == <<setting, caller, next, queues, threads, exception, closing, stopped,
            held, disk, checksum>>
setup == <<program, worker, init_system, ssh, member, local, attempts, certAttempts,
           reconnected, reused>>
replication == <<src, dst, size, zeroed, keeps, repl_state, curr_state, volume,
                 chunks, early, verified, outcome, calls>>
export == <<unit, seen, snapshots, powered, plan, attached, snapshot_name, read,
            alone, executions>>

mcVars == <<on, writer, setup, replication, export, at, raised, failures>>

Worker == INSTANCE WorkerSetup WITH
            MaxAttempts <- SetupAttempts, MaxFailures <- SetupFailures
Replicator == INSTANCE Replication WITH
            Disks <- ReplicaDisks, Chunks <- ReplicaChunks,
            MaxCalls <- ReplicaCalls, MaxFailures <- ReplicaFailures
Vmware == INSTANCE VmwareExport WITH
            Instances <- ExportInstances, Disks <- ExportDisks,
            Units <- ExportUnits, MaxExecutions <- ExportExecutions

-----------------------------------------------------------------------------
NoWriter ==
  /\ kind = "none" /\ failing = "none" /\ caller = "open" /\ next = 0 /\ encQ = <<>>
  /\ encTasks = 0 /\ encoder = <<>> /\ senderQ = <<>> /\ senderTasks = 0
  /\ sender = <<>> /\ exception = FALSE /\ closing = FALSE /\ stopped = FALSE
  /\ held = FALSE /\ disk = {} /\ checksum = {}

NoSetup ==
  /\ program = "none" /\ worker = <<>> /\ init_system = "none" /\ ssh = "none"
  /\ member = FALSE /\ local = {}
  /\ attempts = 0 /\ certAttempts = 0 /\ reconnected = FALSE /\ reused = FALSE

NoReplication ==
  /\ src = <<>> /\ dst = <<>> /\ size = <<>> /\ zeroed = FALSE /\ keeps = FALSE
  /\ repl_state = <<>> /\ curr_state = <<>> /\ volume = 0 /\ chunks = {}
  /\ early = FALSE /\ verified = FALSE /\ outcome = "none" /\ calls = 0

NoExport ==
  /\ unit = <<>> /\ seen = {} /\ snapshots = {} /\ powered = {} /\ plan = <<>>
  /\ attached = <<>> /\ snapshot_name = <<>> /\ read = <<>> /\ alone = FALSE
  /\ executions = 0

MCInit ==
  \/ /\ on = "writer" /\ Init /\ at = "none"
     /\ NoSetup /\ NoReplication /\ NoExport
  \/ /\ on = "setup" /\ Worker!Init /\ raised = FALSE
     /\ NoWriter /\ NoReplication /\ NoExport
  \/ /\ on = "replication" /\ Replicator!Init /\ at = "none"
     /\ NoWriter /\ NoSetup /\ NoExport
  \/ /\ on = "export" /\ Vmware!Init /\ raised = FALSE
     /\ NoWriter /\ NoSetup /\ NoReplication

NotWriter == UNCHANGED <<on, setup, replication, export, at>>

CallerSteps == on = "writer" /\ Caller /\ NotWriter
SenderSteps == on = "writer" /\ Sender /\ NotWriter
EncoderSteps(e) == on = "writer" /\ Encoder(e) /\ NotWriter
SetupSteps ==
  on = "setup" /\ Worker!SetupNext /\ UNCHANGED <<on, writer, replication, export, raised>>

MCNext ==
  \/ CallerSteps \/ SenderSteps \/ \E e \in Encoders : EncoderSteps(e)
  \/ SetupSteps
  \/ /\ on = "replication" /\ Replicator!ReplicationNext
     /\ UNCHANGED <<on, writer, setup, export, at>>
  \/ /\ on = "export" /\ Vmware!ExportNext
     /\ UNCHANGED <<on, writer, setup, replication, raised>>

\* The fairness of BackupWriters and WorkerSetup.
MCSpec ==
  /\ MCInit /\ [][MCNext]_mcVars
  /\ WF_mcVars(CallerSteps) /\ WF_mcVars(SenderSteps)
  /\ \A e \in Encoders : WF_mcVars(EncoderSteps(e))
  /\ WF_mcVars(SetupSteps)

-----------------------------------------------------------------------------
\* Neither the context of a writer nor the retries of the setup of a worker go on for
\* ever, but where write waits for a place in a full queue while the last thread dies
\* which could have made one: its sender, or all of its encoders.
PathEnds ==
  /\ <>(on # "writer" \/ Over \/ Stuck)
  /\ <>(on # "setup" \/ Worker!Ended)

\* Once a worker is set up, the service runs, on a fresh worker with the state of this
\* execution; but for a writer under upstart whose start has failed once.
WorkerReady == on = "setup" => Worker!SetupTypeOK /\ Worker!ServiceReady

\* A call of replicate_disks which returns has brought the disks up to date, and what
\* the saved state says was sent is on the destination, so that the next call sends the
\* rest, unless a call has raised or returned early; nothing is written past their ends.
CallReplicates ==
  on = "replication" =>
    /\ Replicator!ReturnedMeansReplicated
    /\ Replicator!InBounds
    /\ Replicator!StateIsOnDisk

\* The export of an instance reads its own disks, while it is the only one, and the
\* worker has no disk attached once all tasks are over and none has failed.
ExportReadsItsOwn ==
  on = "export" => Vmware!ReadsItsOwn /\ Vmware!NothingAttached

\* The cleanup of an instance detaches no disk of another instance.
ExportDetachesItsOwn == [][on = "export" => Vmware!DetachesItsOwn]_mcVars
=============================================================================

# Coriolis in TLA+

A verification project for this repository, a fork of Coriolis: a service which
migrates virtual machines between clouds. The modules model the code under
`src/coriolis`; `PROJECT.json` maps each definition to the lines it models, and
lists the runs, mutants, findings, hazards and theorems mentioned below.

    cd tla
    tlc -workers 2 -config TasksExecution_deployment.cfg MCTasksExecution
    tlapm TasksExecutionProofs.tla

## The system

| Part | State it owns | Operations which change it |
|---|---|---|
| REST API (`api/`) | none | turns requests into RPCs to the conductor and the minion manager |
| Conductor (`conductor/rpc/server.py`) | endpoints, regions, services, transfers, schedules, deployments, executions and tasks, in the DB | creates, begins, cancels and advances executions; receives the reports of workers, minion manager and deployer manager |
| Scheduler (`scheduler/`) | none (reads services and regions) | chooses a worker service for a task |
| Worker (`worker/rpc/server.py`) | one thread and one process per running task | registers itself and as a task's host, runs and interrupts its process, reports its outcome and progress |
| Minion manager (`minion_manager/`) | pools of minion machines, in the DB | allocates, deallocates and deletes pools; creates, lends, heals and powers their machines |
| Deployer manager (`deployer_manager/`) | none (polls) | executes deployments which wait for a transfer |
| Transfer cron (`cron/`, `transfer_cron/`) | the registered jobs, in memory | registers, expires and runs scheduled transfers |
| Licensing (`licensing/`) | reservations, in an external service | creates, checks, fulfils and deletes reservations |
| Task runners (`tasks/`) | the task info of an instance | what each type of task reads, writes and asks of a provider |
| Replicator and backup writers (`providers/`) | programs and files on worker VMs, threads and queues | copy the chunks of the source's disks to the destination's |
| Providers (`providers/{vmware,olvm,hyperv,proxmox}`) | VMs, disks and snapshots of the platforms | attach, create, clone, start and delete them |
| OSMorphing (`osmorphing/`) | the guest on the replicated disks | mounts it, adapts it to the new platform, prepares its first boot |

How they interact. A request creates an *execution*: a graph of tasks with
dependencies, where *on-error* tasks are cleanup. Creation may first wait for
minion machines. `_begin_tasks` then hands the tasks without dependencies to
workers, and from there on every report of a worker makes the conductor *advance*
the execution: start the tasks all of whose parents have finalized, give up on
those that may not be started, and compute the execution's status. Errors and users
cancel executions: running tasks are asked to stop, waiting ones are given up on,
and on-error-only cleanup is scheduled. Handlers exclude each other by file locks
on the execution, the task, and the transfer or deployment. A task runs the method
of a provider: the source's disks are attached to a worker VM, read by the
replicator and sent to the writer on a VM of the destination; a deployment
makes a VM of the replicated disks, morphs its guest on a minion, and starts it.

What is hard here: reports, cancellations and advancement of one execution
interleave; requests are lost, repeated or answered after their timeout; processes die
silently and services restart; cleanup must run for exactly the work that was done;
flows of the minion manager go on without the locks under which they were
started; the state of platforms and guests survives executions and is found again
by the next. The list, line by line, is `hazards` in `PROJECT.json`.

## Modules

Executions:

| Module | Models |
|---|---|
| `Statuses` | the status sets of `constants.py` |
| `Workflow` | what an execution promises: an abstract workflow over a dependency graph |
| `TasksExecution` | one execution: the conductor's handlers and the workers that run its tasks |
| `TasksExecutionProofs` | its invariant; the proofs that it cleans up and that it implements `Workflow` |
| `ExecutionGraphs`, `MCTasksExecution`, `MCExecutions` | its task graphs and instances for TLC |
| `TaskRunners`, `TaskGraphs` | what every type of task needs, writes and does; the graphs which the conductor creates, and its check of them |
| `Transfers`, `MCTransfers` | a transfer over a series of executions, with what its tasks leave on record and on the platforms |
| `AutoDeployment`, `AutoDeploymentProofs` | deployments which wait for an execution: the deployer manager's loop against the conductor |

Services around them:

| Module | Models |
|---|---|
| `LockOrder` | the order in which the conductor's handlers take the locks |
| `TransferCron` | schedules, their trusts, and the jobs of the cron service |
| `Licensing` | the reservation of a transfer, and requests to the licensing server which are lost and sent again |
| `Scheduler` | services, endpoints, regions and their mappings; the registration and the choice of workers |
| `RegistryProofs` | the invariants of `Licensing` and `Scheduler` |
| `TaskProgress` | percentage steps and progress updates, from a task's process to the rows of the conductor |
| `ConductorProofs` | the invariants of `TransferCron` and `TaskProgress` |
| `MinionPools` | the life cycle of a pool and the flows that allocate and deallocate it |
| `PoolSelections` | which machines of which pools an action is given |
| `HoldingProofs` | the invariants of `LockOrder` and `PoolSelections` |
| `MCServices`, `ServicesProofs` | all of these for TLC, and what is proved of them |
| `MinionMachines`, `MinionMachinesProofs`, `MCMinionMachines` | the machines of an allocated pool: flows of actions, refreshes, deallocations |

The path of the data, and the destination:

| Module | Models |
|---|---|
| `DiskWrite` | what a backup writer promises of one pass over a disk |
| `BackupWriters` | the threads and queues of the file, SSH and HTTP writers |
| `WorkerSetup` | the preparation of a worker for the replicator or the HTTP writer, with its nested retries |
| `Replication` | the calls of `replicate_disks`: which chunks are sent, what is remembered of them |
| `VmwareExport` | the disks, snapshots and shared worker of the export from VMware |
| `MCDataPath`, `DataPathProofs` | the four of them for TLC, and their proofs |
| `ImportCalls` | the calls which the tasks make to an import provider, and the platform's VMs and disks |
| `OlvmImport`, `HypervImport`, `ProxmoxImport`, `MCImports` | the methods of each provider |
| `OsMount` | unlocking, finding, mounting and dismounting a Linux guest |
| `OsMorphing` | what is done to the guest: packages, network, cloud-init, LUKS keys, first-boot scripts |
| `NetPreservation` | the static configuration of a Linux guest's network |
| `FirstBoot` | the first boots of the guest, with the re-enrolment of its TPM |
| `WindowsMorphing` | a Windows guest: disks, registry hives, static addresses, first-boot script |
| `MCTarget` | the providers and OSMorphing for TLC |

Definitions have the names of the source where there is one; `PROJECT.json` has the
lines of each. A definition introduced as a mutant is a plausible bug of the
definition after it, with which the property it is for must fail; nothing
else uses it.

### TasksExecution

Variables: `task` and `execution` are the status columns of the DB. `pc`, `at`,
`seen`, `scope` and `started` are the locals of the one handler that holds the
execution's lock: where it stands, how far its loop over the tasks has come, the copy
of the statuses the loop works from, the tasks its advancement is about (all, or those
of one instance) and those it has started. `begin` is `_begin_tasks`, which runs
without the lock. `worker` and `process` are the thread of `exec_task` and the process
it spawned, per task; `calls` the RPCs on their way to the conductor. `cancels` and
`timeouts` bound what users and time may do.

Actions, by the code they stand for:

- `BeginTask`, `BeginReturns`: `_begin_tasks`.
- `SetTaskHost`, `SetTaskProcess`, `TaskCompleted`, `ConfirmTaskCancellation`,
  `SetTaskError`: the handlers of the workers' calls, up to where they enter
  `_cancel_tasks_execution` or `_advance_execution_state`, which is where `pc` then
  stands. The lock stays taken until those return.
- `UserCancel`: `cancel_transfer_tasks_execution` and `cancel_deployment`, forced or not.
- `CancelTasksExecution`, `CancelTask`, `TasksCanceled`: `_cancel_tasks_execution`, one
  step per task it acts upon, including the `cancel_task` call to the task's worker.
- `EnterAdvance`, `AdvanceTask`, `Advanced`: `_advance_execution_state`, with
  `_check_clean_execution_deadlock` and `_get_execution_status`.
- `WorkerStartsProcess`, `ProcessEnds`, `WorkerReports`: `exec_task` and its process.
- `WorkerTimesOut`, `WorkerCrashes`: a worker gives up waiting for an answer while its
  call stays on its way; a worker service dies.

Steps of other threads interleave with the steps of a loop, since workers do not hold
the lock. A loop acts on tasks in index order; the code's order is the DB's, and
`GraphAssumption` says that parents come before the tasks which depend on them, as
`_create_task` makes sure (it takes the parents' records). A failure to schedule a task
inside the advancement raises out of all enclosing loops after it has cancelled the
execution, which is a jump to `pc = "cancel"`.

Abstracted: task results and info (they are in `Transfers`), the host column, the
failure of the `begin_task` cast itself, and the wait for minion machines before
`_begin_tasks`. With the fault `post_task` the merging of a result, or what follows it,
raises after the task's status was written (`PostTaskActionsFail`). The status check of
`_cancel_deployment`, made before it takes the lock, is made with the lock: the
cancellation re-reads the status and ignores finalized executions, so the outcome is the
same. With `EarlyReports`, the failure path of `_begin_tasks` is taken only when no
handler is in progress.

### TaskRunners, TaskGraphs, Transfers

`TaskRunners!TASKS_MAP` has a record for every type of task: the fields of the task info
it requires and returns, those it refuses when empty, what its `_run` returns for each,
and what the provider's method creates or destroys. `TaskGraphs` builds the graphs of
`execute_transfer_tasks`, `_execute_deployment`, `delete_transfer_disks` and
`update_transfer` for every combination of options, and has
`_check_execution_tasks_sanity`. `Transfers` runs them: `info` is the task info which a
transfer keeps of each instance, `world` what is on the platforms, `minions` the machines
lent to it, `pools` and `requested` the parameters which `update_transfer` changes. A task is
handed to a worker and gets its process (`worker`); then it completes, fails or dies
without a result, and `_handle_post_task_actions` is part of its completion. Cancellations
may be by force, and a request to stop a task may fail, which leaves it FAILED_TO_CANCEL
with its process at work and its result still to come. `spoiled` notes what a dead task, a
failed removal, a removal which was given up or a task which could not be cancelled leaves
behind, so that the properties can say what else must be gone. A new execution is begun
only when no process of the last one is left (`NoRunningExecutions`): the conductor looks
at statuses alone, so that after a forced cancellation, or one which failed, it may be
begun earlier, and what two executions on the same disks then do is not modelled. A
failure to find a worker is that of a first task; later ones are in `TasksExecution`.

### AutoDeployment

One transfer and the deployments of its disks. `deployer` is the status of the transfer
execution a deployment waits for, `deployment` the `last_execution_status` of the
deployment and `executions` the statuses of its executions; `pooled` are the deployments
with minion pools for their OSMorphing. `working` says which
executions have tasks at workers, whatever their status claims; `minions` which wait for
the minion manager. `casts`, `calls` and `manager` are the deployer manager: requests on
their way to it, its unanswered RPCs, and where its loop stands. `launching` is what the
holder of the transfer's lock is launching, since `_begin_tasks` takes time. The
deployment is read under its own lock, and launched later under the transfer's, in two
steps. There is one polling loop, since its thread is started once, in the service's
parent process.

### Minions

`MinionMachines` has the machines of one allocated pool: `machine` is their rows
(allocation and power status, `allocated_action`, and whether they have provider
properties), `vms` what exists on the platform; `execution` and `using` are the
conductor's side; `flow` and `job` the taskflow flows and how far they are with each
machine; `release` and `freeing` the deallocations, which read before they lock. Once a task of a
flow has failed no other is started, and the flow is reverted when those at work have
ended. A transfer may be executed `again` after its first execution was cancelled, and
requests may be overtaken unless the scenario is `orderly`.

`MinionPools` has a pool's row, its platform, and its flows as sequences of tasks which
go forwards or, after a failure, backwards; the manager may be restarted, which kills
flows. `PoolSelections` has two levels less detail on machines and instead several pools:
validation of what an action has selected, allocation pool by pool, each under the lock of
that pool alone, and the clean-up when one of them refuses, while owners of pools
allocate, deallocate and update them.

### Services

`LockOrder` reduces each handler to the sequences of locks it takes and releases.
`TransferCron` has time in half minutes; an operation on a schedule is a transaction
which calls the cron service, deletes the trust where it must, and then commits or is
rolled back. `Licensing` sends every request up to `MaxAttempts` times, whether the
server has done its work or not, and the server may answer with an error, which the
client always raises with the code 409. `Scheduler` has the transactions of
administrators, which read when they begin and write when they commit, the registration
of a worker in its three calls, and the choice of a worker, which reads services and
mappings at different times. `TaskProgress` has the casts of a task's process, handled
in any order under the task's lock, and the calls which it waits for; a handler reads
the row in one step and writes it in another.

### The path of the data

`BackupWriters` has the writer's caller, encoder threads and sender thread, with the two
bounded queues and their counters of unfinished tasks; `failing` chooses one place which
fails. `WorkerSetup` has one action per command over SSH that changes the worker, under
systemd, upstart or neither; nested `retry_on_error` runs the outer function again,
which recognises what was done by what it left behind, and is given the SSH client it
was given before, although `_reconnect_ssh` may have closed it (`ssh`). `Replication`
has the chunks which the guest changes between calls, the state file, the size of the
destination's disk and the early return; `VmwareExport` two instances which attach their
disks to the same worker.

### The destination

`ImportCalls` drives a provider through a series of transfer executions, deployments and
deletions, and `OlvmImport`, `HypervImport` and `ProxmoxImport` have one action for each
call of theirs that changes the platform, any of which may raise; failures the code
only logs set `warned`. `OsMount`, `OsMorphing` and `WindowsMorphing` have one action per
command, or group of commands that succeed or fail together. `FirstBoot` may lose its
power between any two of its commands, and what opens a device at the next boot is what
its initramfs has, which is not always what is on the disk (`image`).

## What TLC checks

Each run is one question with the faults that could upset the answer. Where a run
composes components that share no state (`executions`, `datapath`, `target`,
`services`), a variable chooses which one a behaviour is about, and its properties say
so. A property of these runs, and of `auto`, `minions` and `life`, is what one component
promises: its conjuncts, the type invariant included, are defined with a comment each in
the component's module.

| Run | Instance | Shows |
|---|---|---|
| `deployment` | 4 tasks with on-error-only cleanup, 1 cancellation, 1 timeout, no worker found, lost `cancel_task` calls, crashes of workers, failing post-task actions | with late answers and dead workers too, the execution is a workflow, is never stranded, and the cleanup of what it completed gets its process when it fails or is cancelled |
| `executions` | two instances in one execution; the same with reports before `_begin_tasks` has returned; a transfer of 6 tasks, 2 cancellations, no worker found, lost calls, processes that vanish; a graph that strands its cleanup, with an OSMorphing kept for debugging | the same of the transfer, and a workflow also where a completion advances its own instance only; executions end for good; without the lock in `_begin_tasks`, tasks still start on completed work only and COMPLETED means done; detected deadlocks and the debugging option end the execution, and only when nothing is active |
| `auto` | 2 deployments, both with minion pools or both without, which may be deleted; 1 timeout, restart or launch without a worker | one user of the disks at a time, truthful statuses, none before the execution it waits for; nothing stays pending or waits for minions for ever |
| `minions` | 2 executions (1 and 2 machines), a pool of 1 to 2 machines, 1 refresh at a time, 6 scenarios | used machines are held, the maximum is respected, nothing is left on the platform, every wait ends and every machine is given back |
| `life` | 1 instance, 3 requests of any kind and option, 1 failure of a task, an allocation or a first worker, cancellations, forced or not, which may not reach the worker | every execution built passes its own check; no task lacks what it reads; concurrent tasks write different fields; temporary resources, disks, snapshots, instances and minions are disposed of or on record; updates are applied |
| `datapath` | a writer (6 chunks, 2 encoders, queues of 1, 2 failures), the setup of a worker (3 attempts, 3 failures), 3 calls for 2 disks, 2 exports of 2 disks | a writer implements `DiskWrite` and ends; the worker's service runs with the state of this execution; returned calls have replicated; exports read and detach their own disks |
| `target` | 4 rounds for each provider with 1 failure; OSMorphing of Linux (2 failing commands when mounting, 1 when morphing) and Windows (2), 4 boots | the replica survives failed executions, a started VM has all its disks, sizes and VLANs fit; guests are found, released, unlocked and keep their names and addresses |
| `services` | 3 handlers, 1 schedule over 3 minutes, 3 reservations, 2 flows of a pool, 1 worker with 2 endpoints and regions, 2 percentage steps, 2 actions with 2 pools | which handlers can wait for each other; jobs, trusts, charges, pool statuses, registrations, progress rows and selections stay right under lost calls, restarts and reordering |

Bounds. The graphs of `deployment` and of the transfer in `executions` are those of the
code with chains of alike tasks shortened: a chain of plain tasks, cleanup which always
runs, and cleanup on error only, one of whose parents is the cleanup itself; `life` has
the whole graphs. Two cancellations reach every re-cancellation (forced after unforced);
one timeout reaches each race of a late answer with the error that follows it. Two
deployments, executions or actions suffice for the races over one transfer, pool or
machine, as each is between two of them; in `minions` they cannot both be served, so
that they compete for machines and for slots. Three requests in `life` reach an
execution on what two others have left (transfer, update, deployment). Queues of one
chunk and two encoders let every thread wait for every other, and two failures kill both
encoders; six chunks are more than both queues and all threads hold. Three calls of
`replicate_disks` are a first one, one which saves a wrong state and one which would
believe it. Three attempts are exhausted by three failures. Four rounds in `target` are
a transfer, two of anything, and one which meets what they left. Three handlers and all
lock sequences give circles of up to three. Two flows of a pool and one or two faults
are the least that interfere; the schedule's three values are one which always, one
which sometimes and one which never runs.

Deadlock is not checked where executions and requests may come to an end; in `target`
every part says when it is over, and deadlock is checked.

Fairness. In `TasksExecution`, `WF_vars(Progress)`: the handler in progress, workers'
threads and processes and the delivery of calls go on; users, faults and timeouts need
not. Termination is not claimed where workers crash (`deployment`): a dead worker's
tasks wait for a user's forced cancellation. In `AutoDeployment` each step of the
conductor, of executions and of the deployer manager's loop is fair, as threads and
delivered requests are; requests of users, timeouts and restarts are not. In
`MinionMachines` flows, which run in processes of their own and cannot be cancelled, go
on to their end, and requests are served; users and refreshes need not come. In
`BackupWriters` each thread goes on if it can, and in `WorkerSetup` the one thread does.

### What the conditions of properties mean

The runs delimit what holds; a property which is conditional is so because the code does
not keep it otherwise. `CleanupRuns` is about tasks which are COMPLETED in the end, and
not about those completed while they were cancelled (`cleanup_skipped`), and excepts a
cleanup which was stopped between its being handed to a worker and its process
(`cleanup_unscheduled`); `OneAtATime` and `StatusTruthful` until something fails, and
the former until a deployment without minion pools is deleted: a refused failure report
sets the deployment's status to ERROR all the same (`report_deployer_failure`), and a
launch that fails half-way leaves tasks at work in an execution which does not count as
running (`_begin_tasks`). `PoolBound` is claimed where healthchecks and power cycles
pass: a redeployment removes the machine's row before it adds it again, and another
action may take the slot. `UsedIsHeld` and `NoLeak` exclude overtaken requests (below).
`UpdateApplied`, `ReplicaIntact` and `NothingLeft` exclude what a dead task has lost,
what was to be removed by a task which failed or was given up, by force or while it was
pending, and what a task made that could not be cancelled; `NoConcurrentWriters` such a
task beside the cleanup, and `DisksKnown` a deployment that is completed and undone at
once (`Torn`).

In the path of the data: `ContextEnds` excepts a writer whose caller waits for a place in a
full queue when nobody is left to make one (`Stuck`: put has no timeout, and only close
looks for the exceptions of the threads). `ServiceReady` excepts a writer under upstart
whose start has failed: the retry finds the unit and does not start it.
`ReturnedMeansReplicated` excepts a call that returned early (`replication_early`) or
raised, and `ReadsItsOwn` a second instance on the shared worker.

At the destination: `NotLockedOut` excepts a machine without systemd-cryptenroll, and one
stopped between the removal of a migration key and the rebuilding of the initramfs, which
then has the removed key only. `CompletedClean` is about the devices which had got a
keyfile: those which crypttab names by a path, or by a UUID in upper case, keep the
passphrase of the migration, and somebody has to enter it. `MorphedWhole` does not speak of
the grub.cfg in the EFI partition. When dismounted, a volume group stays active with the
LUKS devices below it open, and a Windows disk which would not go offline stays online;
`StaticKept` excepts a NIC with addresses in two interfaces of the registry, and
`NetworkKept` a NIC whose address an interface still has which is there no more.

Of the services: `DeploymentsAreCharged` counts apart (`unsaved`) the deployments that
waited for their deployer, had an error for an answer about the fulfilled reservation of
their transfer, and went on with a new one which is not saved: their end finds the old
one, which is fulfilled, and nothing is charged. `JobsInStep` excepts the schedules of an
operation which was rolled back after it had reached the cron service, until the next one
or a restart, and `ScheduleHasTrust` those whose deletion was rolled back after it had
deleted the trust. `ShownWhenQuiet` rests on the lock on the task, a file lock which the
processes of the conductor on one machine share; `db/api.py:1021` expects a race in the
same place ("still prone to race conditions"), and with conductors on several machines
it would be right. `PoolMaximum` is for one update of a pool at a time.

## Where the code disagrees with what it says

Four runs expect a violation of a statement quoted from the code (`findings` in
`PROJECT.json`):

- `cleanup_skipped`: a cancellation that meets a task whose process has just ended marks
  it FAILED_TO_CANCEL, and its cleanup is given up on before the completion, which waits
  for the lock, is recorded.
- `cleanup_unscheduled`: a cancellation which comes while a cleanup task has been handed to
  a worker, and has no process yet, unschedules it; according to the docstring of
  `_cancel_tasks_execution` only pending tasks which are not on-error ones are.
- `minions_refresh`: a refresh takes a machine which the flow of an action has just marked
  as in error. The flow redeploys it, its execution uses it, the refresh's healthcheck
  passes and makes it available, and a second execution gets it.
- `replication_early`: `replicate_disks` returns from inside its loop at the first disk
  without new chunks, and saves a state according to which the others were sent.

Other statements are defined next to the properties, with the line they are from, and no
run checks them because they do not hold either. To see how, make one the only
INVARIANT (or PROPERTY) of the run its module is part of; where the MC module has an
instance, define it there as its neighbours are (`about = "pools" => PoolLife!DeletedHasNothing`).

| Definition | How it fails |
|---|---|
| `AutoDeployment!AtMostOneExecution` | a confirmation repeated by a restarted deployer manager gives a deployment a second execution, after which it can be neither cancelled nor deleted (`conductor/rpc/server.py:1683`) |
| `LockOrder!CancelsApart` | the cancellations after a failed launch or a failed allocation of minions are not under the execution's lock |
| `Transfers!NoStateConflict` | a detachment that fails while the deployment goes on to be finalized: its snapshots are deleted and restored at the same time, and both tasks write the same field |
| `Transfers!UpdateAppliesItsOwn` | a failed update leaves its parameters in the tasks' info, and the next one that completes applies them |
| `TransferCron!ExecutionKeepsTrust` | a schedule is deleted when its job's thread has started and has not yet called the conductor |
| `TransferCron!JobsAlwaysInStep`, `!EveryScheduleHasTrust` | an update is rolled back after the job was registered with its values; a deletion is rolled back after the trust was deleted |
| `Licensing!DeployedOnce`, `!EveryDeploymentIsCharged` | a live migration can be deployed again, with a new reservation; if that deployment waited for its deployer and the server answered with an error, without a charge |
| `MinionPools!DeletedHasNothing` | a pool in ERROR which still has machines may be deleted |
| `Scheduler!GrantedInEnabledRegion`, `!NoOrphan`, `!NoDanglingMapping` | the filter for enabled regions is not used (`scheduler/rpc/server.py:152`); endpoints and regions are deleted between a check and the write that relies on it |
| `BackupWriters!FailedWriterEnds`, `!SocketCleanedUp` | a caller waits for room in a queue which nobody empties any more; close raises without the cleanup it relies on |
| `WorkerSetup!CanReadDisks`, `!RetriedSucceeds` | a user whose addition to the group failed is there at the next attempt, which skips the addition; a binary whose chmod failed is there, and is not made executable; a key file fetched in part stays empty |
| `Replication!ReplicatedAfterFailure` | after a first call that raised, the next one is a first call again, and leaves out chunks that were written and are zero by now |
| `VmwareExport!ReadsTheDisk`, `!SnapshotsRemoved` | devices are named by position on a worker that two instances share; the snapshot of an instance that lost the race for a unit stays |
| `ImportCalls!StartedCurrent`, `!SourceFits`, `MCImports!NoMinionLeft` | OLVM finds an older clone by its name and leaves the boot disk of a minion behind; Proxmox does not extend disks |
| `OsMount!LuksClosed`, `OsMorphing!AllUnlockAtFirstBoot`, `!EveryGrubCfgFixed` | a LUKS device below an active volume group stays open; devices which crypttab names by path or in upper case get no key; the grub.cfg of the EFI partition keeps the name of the minion's mapper |
| `NetPreservation!MacKeepsItsName` | the first interface that matches a NIC by address takes the rule of the one with its MAC |
| `FirstBoot!NeverLockedOut`, `!EveryKeyRemoved`, `!CleanupRetriable` | without systemd-cryptenroll the script removes the only key, and a loss of power can leave it in the initramfs only; devices without a keyfile keep the key; after a loss of power the script finds its own setup "broken" for ever |
| `WindowsMorphing!AllDisksReleased`, `!NoNicPassedOver` | a disk that cannot be taken offline is only logged; a stale interface in the registry with the same address or gateway stops the script before the NICs which follow |

### Found while modelling

Not the subject of a run of their own; the models have the behaviour.

- Locks: requests take the lock of a transfer or deployment before that of its execution,
  reports the other way round, so that a cancellation and a completion can wait for each
  other for ever. `LockCircles` shows that it takes one of each kind.
- `_begin_tasks` takes no lock, though `_advance_execution_state` asks for one: a report
  that arrives early finds the execution UNEXECUTED and may declare it deadlocked while
  tasks are being started; RUNNING may be written over its end. A deployment
  may also be deleted in that time, and its tasks run on next to a new execution.
- A task whose process vanishes is reported as cancelled: its execution goes on
  without being cancelled, so that the tasks which wait for an error are never scheduled
  and what they would clean up stays (`Signalled` in `TasksExecutionProofs`).
- A transfer cancelled while it waits for minions and executed again: the confirmation of
  the first flow starts the second execution, as `confirm_transfer_minions_allocation` looks at
  the last execution only, against the comment at `conductor/rpc/server.py:2291`; the refusal of
  the second flow then frees machines in use. Late deallocations free
  machines of the next execution, and remove the rows of machines being created.
- A deployment without cloned disks whose detachment fails late is completed and undone at
  once: the transfer's volumes are cleared when the snapshots were deleted, and
  restored from them by the tasks that clean up, in either order.
- A deployment's pool mapping for an instance it does not have passes validation and
  raises in the allocation; two concurrent updates of a pool can leave its minimum above its
  maximum; the reuse of a destination's minion for OSMorphing is never reached; a pool
  restarted during its allocation is not refreshed; the reversion of an allocation writes a
  column there is none of.
- A task which could not be cancelled runs on beside the cleanup, and its late result is
  merged over what the cleanup has written.
- The setup of a replicator is retried with an SSH client which an earlier attempt has
  closed; only the attempts after `init_replicator` has reconnected can then succeed.
- A cron job of an expired update stays registered as it was; schedules of a deleted
  transfer keep jobs and trusts; a licensing failure leaves an execution that is done without its status;
  a retried POST makes a second reservation.
- Progress of minion pools: the handler returns nothing, so that a percentage
  step of a pool would raise, and there is no check for updates out of order.
- OLVM: a network creation torn in two is not repaired; disks the source no longer has are not
  removed as the docstring says. Hyper-V: `New-VHD` on a fixed path fails for ever after a
  deployment that took the disk. Proxmox: a deployment fails after the VM was created, as the
  provider returns another key than the task reads; whatever the request for a disk raises,
  the disk is made anew and the old one left. VMware: the shutdown goes on with
  the VM still on.
- Linux guests: a scan for /boot which fails is passed over, and the guest morphed without
  it; NetworkManager's `address1=ip/prefix,gateway` gives the interface the gateway's address, too;
  the preserver for `/etc/network/interfaces` decodes a string and always
  raises; a netplan file without interfaces raises; a release "10" of RHEL is read as
  "1"; gpgcheck stays off if SUSEConnect fails; a guest without resolv.conf keeps the
  minion's; a renamed volume group is not renamed back.
- Windows guests: a lost answer to `reg load` leaves the hive loaded and fails the
  morphing; a file chunk whose answer is lost is appended twice; a guest without
  cloudbase-init has no directory for its scripts, and nothing to run them.

## What is proved

With TLAPS, for every value of the constants the assumptions and hypotheses allow. Each
proof module starts with the inductive invariant and has one lemma per action or
group of alike actions.

`TasksExecutionProofs`, from `GraphAssumption` (parents precede and share the instance of
the tasks which depend on them) and `CreatedStatusAssumption`:

- `TypeCorrect`: `Spec => []TypeOK`.
- `Invariance`, `Deadlockfree`, `ImplementsWorkflow`: under `Regular`, the inductive
  invariant holds, the execution is never DEADLOCKED, and `Spec => WorkflowSpec`, a
  refinement with `stage` and `phase` computed from the statuses.
- `CleanupIsRun`: under `Regular` and `Signalled`, `CleanupRuns` holds.

`Regular` says that no request arrives before `_begin_tasks` returns, which finds its
workers, that what follows a task's completion does not raise, that errors are not kept
for debugging, and that nothing scheduled at creation depends on an on-error-only task;
`GraphsRegular`, part of `TasksServed` in the run `life`, shows this last of every graph
the code creates, and `deployment` and `executions` show what happens without the
others. The argument: an execution can be stranded only if the advancement leaves behind
a task all of whose parents have finalized. `DecidedInv` says that every such task is
*ahead* of the handler in progress: still to be visited by its loop. Because parents
precede their children, a decision on a task can only make later tasks decidable, and
those are in the scope of the loop since scopes consist of whole instances (`ScopeInv`).
When the loop ends, nothing is decidable; if nothing is active either, the first
scheduled task would have only finalized parents (`NothingScheduled`), or one that waits
for an error, which `ScheduledInv` excludes. So there is no deadlock, and an execution
is only finalized with nothing scheduled and nothing active (`ClosedInv`). With
`ReportsInv` (reports come from started tasks only) and `RunningInv` (no
FAILED_TO_CANCEL task in a RUNNING execution) every step maps to a step of `Workflow` or
to none. For `CleanupIsRun`, `CleanedInv` says that a cleanup task with a COMPLETED
parent still waits, was handed to a worker, or found none, and `SweptInv` that once
anything has gone wrong the cancellation which schedules what waits for an error has
been begun, or the handler in progress is about to begin it. `Signalled` says that no
process vanishes, or that no task waits for an error: the code does not keep the promise
otherwise (above).

`DataPathProofs`, backup writers: for any number of chunks and encoders and queues of any size,
`ImplementsDiskWrite`, `ChecksumComplete`, `DeviceIsReleased`. The invariant follows each
chunk from queue to thread to queue to disk as long as no thread has failed
(`Accounted`), and says that a queue's counter is what is in it plus what was taken from
it (`Counted`): only then do two counters found at zero, one after the other, mean that
all is on the disk.

`DataPathProofs`, the rest of the path: `CallsReplicate`, `WorkersAreReady` and
`CleanupsDetachTheirOwn` state the properties `CallReplicates`, `WorkerReady` and
`ExportDetachesItsOwn` of the run `datapath`, for any number of disks, chunks, calls,
attempts, instances, units and failures. `ReplicaInv` cuts the disks at the one the loop
has got to: those before it are the source's (`Current`), those after it are what the
saved state, or the zeroing, says (`Believed`), and of the disk itself every unit which
is not the source's is still so and in a chunk to be sent (`Sending`). That the chunks
suffice (`ChunksSuffice`) is where `get_changes` and `get_chunks` enter. `SetupInv` says that a
service on a fresh worker runs only with the state file of this execution, and that the
writer's certificates are there only if the binary which makes them can be executed. What an
instance remembers of the units on the shared worker is true only from the
reconfiguration to its cleanup, and `ExportInv` says so instance by instance
(`InstanceInv`): a step of one leaves that of the others alone because it attaches at
free units only and detaches its own disks (`ExportStepOf`). `WorkerIsLeftEmpty` follows
as long as no call has failed. That an export alone on the worker reads its own disks
(`ReadsItsOwn`) depends on the order of the units of earlier executions and stays with TLC.

The services are proved component by component, and `ServicesProofs` carries the invariants
over to `MCServices`, whose behaviours are about one of them for good:
`CirclesHaveBothKinds`, `LicencesCharged`, `WorkersFit`, `SchedulesAreFollowed`,
`ProgressIsShown` and `SelectionsAreServed` state the properties `LockCircles`,
`EverythingCharged`, `WorkerFits`, `JobsFollowSchedules`, `ProgressShown` and
`SelectionsServed` of the run `services`, type invariants included.

`RegistryProofs`, licensing: for any number of reservations, errors and lost, repeated
or late requests. The invariant knows what a deployment has learnt of its reservation at
each request (`Follows`): it is not fulfilled when the tasks start, unless the
deployment is one of those counted as `unsaved`, and a fulfilment whose answer was lost
has been charged. `ChargeInv` adds the replicas, and that as long as nothing was lost or
dropped the only open reservation is that of the transfer, or the one about to be saved
with it (`HeldOnce`).

`RegistryProofs`, workers: for any number of workers, endpoints and regions, where no
endpoint is a host, as both are mapped to regions. The strengthening is that a service
which is not stored is neither disabled, nor enabled, nor in a transaction
(`GoneIsForgotten`), and for the choice that what was read of services and mappings is
what they are unless they have changed since (`ReadAsItIs`).

`ConductorProofs`, schedules: for any number of them, of operations on them, failures and
restarts. The job of a schedule is what is stored of it only between operations, so
`ScheduleInv` says what the job is at each place an operation has got to, for the schedules
of which no operation was torn, and when the trust must be there; what tears one is a
rollback, or a restart of the service in the midst of it. `Timely` says that no
job was started in the minute which a due check begins in: the next check is always due
after the minute of every job started.

`ConductorProofs`, progress: where steps, messages and the states of the process have different
names (`Distinct`). `RowsInv` says that the index a handler has read is above those of all
rows until it has added its own, which is what the lock on the task is for, and that a
step's request, handler and row exclude each other. `RowIsCurrent` says that the row which
the handler of an update has read is still the stored one when it writes: the lock again.
`ToldInv` follows what the process
has told of each step: it is in the step's row, or in an update which is still to be
handled and is not behind the row. `CountInv` says that a message is asked for, handled
or in a row, one at a time, and that the indices of the rows are the numbers below
their number, which bounds them.

`HoldingProofs`, locks: for any number of threads, none of which is called as the mark of
a free lock (`ProcsAssumption`). Requests take the locks in the order `RequestRank`,
reports in the order `ReportRank`, and the two orders disagree, which is why a request and
a report can wait for each other. What a handler does is a `Block`: it takes locks only
above those it has, and releases what it took and nothing else. Blocks are closed under
sequence (`ThenBlock`) and under a lock of a lower rank (`UnderBlock`), so every handler is
one, by its structure. `LockInv` says that what a thread has still to do is the rest of a
block, and that the locks it has are among those which the rest releases. A thread then waits only
for locks above its own (`WaitsUpwards`), and in a circle of requests only, or of reports
only, the ranks would rise beyond the last one.

`HoldingProofs`, pools: `OverHoldsNone`, and `EveryInstanceIsServed` where updates of
pools are made one at a time (`OneUpdate`; two at once can leave a minimum above the
maximum). `SelectionsAssumption` makes the sets finite and gives every pool identifiers
for its machines. `HeldInv` is that the actions which are over, or have not asked
yet, hold no machine. `SelInv` adds that a pool which is not ALLOCATED has no machine in
use, that an accepted update is still right for its pool, and what a request has
been given of the pools it is done with (`Given`). The lemmas on `Fresh`, `Preferred`
and `Assignment` show that their choices exist: a pool within its maximum leaves enough
identifiers, and as many machines as instances give each its own.

`MinionMachinesProofs`, for any number of machines, executions and refreshes and
whatever fails in their flows: `UsedMachinesAreHeld` and `MachinesAreAccountedFor`,
where the pool is `Sound`: requests are not overtaken, and if the pool is refreshed then
no machine has to be redeployed. The code does not keep these promises otherwise
(`minions_refresh`, and the confirmations and deallocations which arrive late); what it
does then is for TLC. `Stage` is the heart of the invariant: what a machine's entry, its
VM and its power are at each place a flow has got to with it, and whose it is. Machines
belong to one flow, one refresh or one deallocation at a time, because each takes them
under the pool's lock by a status which no other accepts. The bound on the pool counts
entries: an allocation adds as many as the maximum leaves, and only a redeployment adds
one without looking, which is why `PoolBound` excludes both of its causes. The attempt
to prove it showed that a machine which cannot be powered on is one of them, which the
bounds of the run do not reach.

`AutoDeploymentProofs`, for any number of deployments, with minion pools or without, and
any number of faults: `OneUserOfDisks`, `StatusIsTruthful`, `DeploymentsWait`. The
invariant `IInv` has five parts. `Known` is what the casts, the calls, the loop and the
launch know of the deployments they are about, and gives the last theorem. `Exclusive` says
that nothing is in progress while there is a launch, whose check under the transfer's lock
would otherwise be stale when `_begin_tasks` sets its status, and that two executions in
progress are one. `Workings` ties the tasks at work to the statuses as long as nothing
disturbs them. `Orderly` holds until the first fault: the deployer manager has one call,
which is the one being launched (`Serves`), and what it lists, confirms or reports has no
execution yet, so that an ERROR is never set beside one.

Only model-checked: liveness, which is out of the prover's reach; the properties of
executions with failing post-task actions (`deployment`) and with early reports,
debugging or a stranding graph (`executions`), which are about what happens outside
`Regular`; those of `life`, which are about the concrete graphs of the code and take
enumeration rather than an argument; and everything about the modules without a proof
module (`MinionPools`, and those of the destination).

## Not modelled

The REST layer, policies and authentication keep no state; the requests that matter
are actions of the services' modules. Views, schemas, option listings and queries change
nothing. The database is modelled by its transactions and not by its queries, the
messaging library by calls which may time out and casts which are delivered once. Of
OSMorphing, the commands of single distributions are abstracted to what
the guest has afterwards, and the helpers of Windows tools for drivers, services and
cloudbase-init, which only tools of other packages call, are left out. The import
to VMware is a stub and the export from OLVM does not have the signatures which the
tasks call: no execution gets past them. The removal of Proxmox disks the source no
longer has, and events of minion pools, which nothing depends on, are left out, as are the wire
format of the data and the packaging and dashboard. `components` in `PROJECT.json`
gives the reason for each part.

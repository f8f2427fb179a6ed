---------------------------- MODULE MinionPools ----------------------------
(***************************************************************************)
(* The life of a minion pool: its creation, allocation, deallocation and   *)
(* deletion.  An operation checks the status of the pool under the pool's  *)
(* lock and leaves the work to a flow of tasks in a process of its own,    *)
(* which does not hold the lock; a flow whose task fails reverts the tasks *)
(* before it, last first.  What the machines of an allocated pool are used *)
(* for, and their refresh, is in MinionMachines.                           *)
(***************************************************************************)
EXTENDS Integers, SequencesExt

CONSTANTS MinimumMinions,  \* minimum_minions
          MachineIds,      \* ids of machines
          Slots,           \* bound: flows which run at once
          MaxRuns,         \* bound: flows which are started
          MaxFaults        \* bound: failed tasks, flows killed, and restarts

VARIABLES
  pool,      \* the pool's row: [stored, status, shared, rows, trust]
  platform,  \* what is there: [shared, vms]
  flows,     \* slot -> a flow which runs, or NoFlow
  refresh,   \* the jobs which refresh the pool are registered in the cron
  creating,  \* create_minion_pool has added the row, and is not done
  next_id,   \* of shared resources
  disturbed, \* since the pool was last deallocated, flows have overlapped, a flow was
             \* cut short, or the manager restarted beside one
  lost,      \* something on the platform may have been left out of the row
  started, pool_faults

poolVars == <<pool, platform, flows, refresh, creating, next_id, disturbed, lost,
              started, pool_faults>>
counters == <<started, pool_faults>>
ghosts == <<disturbed, lost>>

NoPool == [stored |-> FALSE, status |-> "none", shared |-> 0, rows |-> {},
           trust |-> FALSE]

NoFlow == [plan |-> <<>>, at |-> 0, mode |-> "none", previous |-> <<>>,
           store |-> 0, force |-> FALSE]

PoolInit ==
  /\ pool = NoPool
  /\ platform = [shared |-> {}, vms |-> {}]
  /\ flows = [f \in Slots |-> NoFlow]
  /\ refresh = FALSE /\ creating = FALSE /\ next_id = 1
  /\ disturbed = FALSE /\ lost = FALSE
  /\ started = 0 /\ pool_faults = 0

Running == {f \in Slots : flows[f] # NoFlow}

-----------------------------------------------------------------------------
(* The flows.  A step is <<task, argument, status to revert to>>.          *)

StatusTask(status, revert) == <<"status", status, revert>>

Task(name) == <<name, "none", "none">>

MachineTask(name, m) == <<name, m, "none">>

_get_minion_pool_allocation_flow(ids) ==
  <<StatusTask("VALIDATING_INPUTS", "ERROR"), Task("validate"),
    StatusTask("ALLOCATING_SHARED_RESOURCES", "none"),
    Task("check shared"), Task("deploy shared"), Task("save shared")>>
  \o (IF ids = {} THEN <<>> ELSE <<StatusTask("ALLOCATING_MACHINES", "none")>>)
  \o SetToSeq({MachineTask("allocate", m) : m \in ids})
  \o <<StatusTask("ALLOCATED", "none")>>

_get_minion_pool_deallocation_flow(ids) ==
  (IF ids = {} THEN <<>> ELSE <<StatusTask("DEALLOCATING_MACHINES", "ERROR")>>)
  \o SetToSeq({MachineTask("deallocate", m) : m \in ids})
  \o <<StatusTask("DEALLOCATING_SHARED_RESOURCES", "ERROR"), Task("tear down"),
       StatusTask("DEALLOCATED", "none")>>

\* A flow which deallocates the pool, with nothing beside it, makes up for what went on
\* before.
run_flow_in_background(plan, deallocates, force) ==
  /\ started < MaxRuns
  /\ started' = started + 1
  /\ Running # Slots
  /\ LET f == CHOOSE h \in Slots : flows[h] = NoFlow
     IN flows' = [flows EXCEPT ![f] =
                    [NoFlow EXCEPT !.plan = plan, !.at = 1, !.mode = "run",
                                   !.previous = [i \in DOMAIN plan |-> "none"],
                                   !.store = pool.shared, !.force = force]]
  /\ LET beside == Running # {} \/ (creating /\ creating')
     IN /\ disturbed' = (beside \/ (disturbed /\ ~deallocates))
        /\ lost' = (lost \/ beside)

\* The ids of machines which are in no row and in no flow.
Unused ==
  {m \in MachineIds \ pool.rows :
     \A f \in Running : \A i \in DOMAIN flows[f].plan : flows[f].plan[i][2] # m}

\* New machines have new ids.
StartAllocationFlow ==
  /\ Cardinality(Unused) >= MinimumMinions
  /\ LET ids == CHOOSE s \in SUBSET Unused : Cardinality(s) = MinimumMinions
     IN run_flow_in_background(_get_minion_pool_allocation_flow(ids), FALSE, FALSE)

-----------------------------------------------------------------------------
(* The operations.                                                         *)

\* The row comes first, and is there for the other operations ...
create_minion_pool ==
  /\ pool = NoPool
  /\ pool' = [NoPool EXCEPT !.stored = TRUE, !.status = "DEALLOCATED", !.trust = TRUE]
  /\ refresh' = TRUE
  /\ creating' = TRUE
  /\ UNCHANGED <<platform, flows, next_id, ghosts, counters>>

\* ... before the flow which allocates the pool is started, unless the user has
\* asked to skip it.  No lock is held, and the status stays as it is.
StartAllocation ==
  /\ creating
  /\ creating' = FALSE
  /\ UNCHANGED <<flows, started, ghosts>> \/ StartAllocationFlow
  /\ UNCHANGED <<pool, platform, refresh, next_id, pool_faults>>

allocate_minion_pool ==
  /\ pool.stored /\ pool.status = "DEALLOCATED"
  /\ UNCHANGED creating
  /\ StartAllocationFlow
  /\ pool' = [pool EXCEPT !.status = "POOL_MAINTENANCE"]
  /\ refresh' = TRUE
  /\ UNCHANGED <<platform, next_id, pool_faults>>

\* force: whatever the status, and whether the machines can be deleted or not.
deallocate_minion_pool(force) ==
  /\ pool.stored /\ pool.status # "DEALLOCATED"
  /\ UNCHANGED creating
  /\ pool.status \in {"ALLOCATED", "ERROR"} \/ force
  /\ run_flow_in_background(_get_minion_pool_deallocation_flow(pool.rows), TRUE, force)
  /\ pool' = [pool EXCEPT !.status = "POOL_MAINTENANCE"]
  /\ refresh' = FALSE
  /\ UNCHANGED <<platform, next_id, pool_faults>>

delete_minion_pool ==
  /\ pool.stored /\ pool.status \in {"DEALLOCATED", "ERROR"}
  /\ pool' = [pool EXCEPT !.stored = FALSE, !.trust = FALSE]
  /\ refresh' = FALSE
  /\ UNCHANGED <<platform, flows, creating, next_id, ghosts, counters>>

-----------------------------------------------------------------------------
(* The tasks.                                                              *)

Step(f) == flows[f].plan[flows[f].at]

Is(f, mode, name) ==
  flows[f] # NoFlow /\ flows[f].mode = mode /\ Step(f)[1] = name

\* The flow goes on, or is over.
Advance(f) ==
  flows' = [flows EXCEPT ![f] =
              IF @.at = Len(@.plan) THEN NoFlow ELSE [@ EXCEPT !.at = @ + 1]]

\* The task fails: it is the first one to be reverted.
FailFlow(f) == flows' = [flows EXCEPT ![f].mode = "revert"]

Back(f) ==
  flows' = [flows EXCEPT ![f] = IF @.at = 1 THEN NoFlow ELSE [@ EXCEPT !.at = @ - 1]]

Fault == pool_faults < MaxFaults /\ pool_faults' = pool_faults + 1

\* UpdateMinionPoolStatusTask.execute; there is no status to read of a pool which has
\* been deleted.
UpdateStatus(f) ==
  /\ Is(f, "run", "status")
  /\ IF pool.stored
       THEN /\ pool' = [pool EXCEPT !.status = Step(f)[2]]
            /\ flows' = [flows EXCEPT ![f] =
                 IF @.at = Len(@.plan) THEN NoFlow
                 ELSE [@ EXCEPT !.at = @ + 1,
                                !.previous[flows[f].at] = pool.status]]
       ELSE FailFlow(f) /\ UNCHANGED pool
  /\ UNCHANGED <<platform, refresh, creating, next_id, ghosts, counters>>

\* A mutant: the status before the task is restored, whatever was asked for.
RevertToPrevious(f) ==
  /\ Is(f, "revert", "status")
  /\ LET to == flows[f].previous[flows[f].at]
     IN pool' = IF pool.stored /\ to # "none" THEN [pool EXCEPT !.status = to] ELSE pool
  /\ Back(f)
  /\ UNCHANGED <<platform, refresh, creating, next_id, ghosts, counters>>

\* UpdateMinionPoolStatusTask.revert
RevertStatus(f) ==
  /\ Is(f, "revert", "status")
  /\ LET to == IF Step(f)[3] # "none" THEN Step(f)[3]
               ELSE flows[f].previous[flows[f].at]
     IN pool' = IF pool.stored /\ to # "none" THEN [pool EXCEPT !.status = to] ELSE pool
  /\ Back(f)
  /\ UNCHANGED <<platform, refresh, creating, next_id, ghosts, counters>>

ValidateMinionPoolOptions(f) ==
  /\ Is(f, "run", "validate")
  /\ \/ Advance(f) /\ UNCHANGED pool_faults
     \/ Fault /\ FailFlow(f)
  /\ UNCHANGED <<pool, platform, refresh, creating, next_id, ghosts, started>>

\* AllocateSharedPoolResourcesTask looks at the row with the pool's lock held ...
CheckShared(f) ==
  /\ Is(f, "run", "check shared")
  /\ IF pool.stored /\ pool.shared = 0 THEN Advance(f) ELSE FailFlow(f)
  /\ UNCHANGED <<pool, platform, refresh, creating, next_id, ghosts, counters>>

\* ... deploys without it ...
DeployShared(f) ==
  /\ Is(f, "run", "deploy shared")
  /\ \/ /\ platform' = [platform EXCEPT !.shared = @ \cup {next_id}]
        /\ flows' = [flows EXCEPT ![f].at = @ + 1, ![f].store = next_id]
        /\ next_id' = next_id + 1
        /\ UNCHANGED pool_faults
     \/ Fault /\ FailFlow(f) /\ UNCHANGED <<platform, next_id>>
  /\ UNCHANGED <<pool, refresh, creating, ghosts, started>>

\* ... and saves with it.
SaveShared(f) ==
  /\ Is(f, "run", "save shared")
  /\ IF pool.stored
       THEN pool' = [pool EXCEPT !.shared = flows[f].store] /\ Advance(f)
       ELSE flows' = [flows EXCEPT ![f].mode = "revert", ![f].store = 0]
            /\ UNCHANGED pool
  /\ UNCHANGED <<platform, refresh, creating, next_id, ghosts, counters>>

\* Its revert tears down what the task_info has.  A failure is only logged, and the
\* row keeps naming the resources: "pool_shared_resources" is no field of it.  Without
\* a row the update fails, and the reversion ends.
RevertShared(f) ==
  /\ Is(f, "revert", "check shared")
  /\ \/ /\ platform' = [platform EXCEPT !.shared = @ \ {flows[f].store}]
        /\ UNCHANGED pool_faults
     \/ Fault /\ UNCHANGED platform
  /\ IF pool.stored THEN Back(f) ELSE flows' = [flows EXCEPT ![f] = NoFlow]
  /\ UNCHANGED <<pool, refresh, creating, next_id, ghosts, started>>

\* AllocateMinionMachineTask.execute
AllocateMachine(f) ==
  /\ Is(f, "run", "allocate")
  /\ LET m == Step(f)[2]
     IN /\ pool' = [pool EXCEPT !.rows = @ \cup {m}]
        /\ \/ /\ platform' = [platform EXCEPT !.vms = @ \cup {m}]
              /\ Advance(f) /\ UNCHANGED pool_faults
           \/ Fault /\ FailFlow(f) /\ UNCHANGED platform
  /\ UNCHANGED <<refresh, creating, next_id, ghosts, started>>

\* AllocateMinionMachineTask.revert: the row goes first, and a VM which cannot be
\* deleted ends the reversion.
RevertMachine(f) ==
  /\ Is(f, "revert", "allocate")
  /\ LET m == Step(f)[2]
     IN /\ pool' = [pool EXCEPT !.rows = @ \ {m}]
        /\ \/ /\ platform' = [platform EXCEPT !.vms = @ \ {m}]
              /\ Back(f) /\ UNCHANGED <<pool_faults, ghosts>>
           \/ /\ m \in platform.vms /\ Fault
              /\ flows' = [flows EXCEPT ![f] = NoFlow]
              /\ disturbed' = TRUE /\ lost' = TRUE /\ UNCHANGED platform
  /\ UNCHANGED <<refresh, creating, next_id, started>>

\* DeallocateMinionMachineTask.execute
DeallocateMachine(f) ==
  /\ Is(f, "run", "deallocate")
  /\ LET m == Step(f)[2]
         removed == [pool EXCEPT !.rows = @ \ {m}]
     IN \/ /\ platform' = [platform EXCEPT !.vms = @ \ {m}]
           /\ pool' = removed /\ Advance(f) /\ UNCHANGED <<pool_faults, ghosts>>
        \/ /\ m \in platform.vms /\ Fault /\ flows[f].force
           /\ pool' = removed /\ Advance(f)
           /\ lost' = TRUE /\ UNCHANGED <<platform, disturbed>>
        \/ /\ m \in platform.vms /\ Fault /\ ~flows[f].force
           /\ FailFlow(f) /\ UNCHANGED <<pool, platform, ghosts>>
  /\ UNCHANGED <<refresh, creating, next_id, started>>

\* DeallocateSharedPoolResourcesTask.execute tears down what the row had when the
\* flow was made.
TearDownShared(f) ==
  /\ Is(f, "run", "tear down")
  /\ \/ /\ platform' = [platform EXCEPT !.shared = @ \ {flows[f].store}]
        /\ IF pool.stored THEN pool' = [pool EXCEPT !.shared = 0] /\ Advance(f)
           ELSE FailFlow(f) /\ UNCHANGED pool
        /\ UNCHANGED pool_faults
     \/ Fault /\ FailFlow(f) /\ UNCHANGED <<pool, platform>>
  /\ UNCHANGED <<refresh, creating, next_id, ghosts, started>>

\* The other tasks have nothing to revert.
RevertNothing(f) ==
  /\ flows[f] # NoFlow /\ flows[f].mode = "revert"
  /\ Step(f)[1] \in {"validate", "deploy shared", "save shared", "deallocate",
                     "tear down"}
  /\ Back(f)
  /\ UNCHANGED <<pool, platform, refresh, creating, next_id, ghosts, counters>>

\* The process of a flow is killed.
Kill(f) ==
  /\ flows[f] # NoFlow /\ Fault
  /\ flows' = [flows EXCEPT ![f] = NoFlow]
  /\ disturbed' = TRUE /\ lost' = TRUE
  /\ UNCHANGED <<pool, platform, refresh, creating, next_id, started>>

\* The manager restarts, its flows go on: _init_pools_refresh_cron_jobs registers the
\* jobs of a pool which is allocated, and has a trust.
Restart ==
  /\ Fault /\ ~creating
  /\ refresh' = (pool.stored /\ pool.status = "ALLOCATED" /\ pool.trust)
  /\ disturbed' = (disturbed \/ Running # {})
  /\ UNCHANGED <<pool, platform, flows, creating, next_id, lost, started>>

Tasks(f) ==
  \/ UpdateStatus(f) \/ RevertStatus(f) \/ ValidateMinionPoolOptions(f)
  \/ CheckShared(f) \/ DeployShared(f) \/ SaveShared(f) \/ RevertShared(f)
  \/ AllocateMachine(f) \/ RevertMachine(f) \/ DeallocateMachine(f)
  \/ TearDownShared(f) \/ RevertNothing(f)

PoolNext ==
  \/ create_minion_pool \/ StartAllocation \/ allocate_minion_pool
  \/ \E force \in BOOLEAN : deallocate_minion_pool(force)
  \/ delete_minion_pool \/ Restart
  \/ \E f \in Slots : Tasks(f) \/ Kill(f)

PoolSpec == PoolInit /\ [][PoolNext]_poolVars

-----------------------------------------------------------------------------
PoolStatuses ==
  {"none", "DEALLOCATED", "POOL_MAINTENANCE", "VALIDATING_INPUTS",
   "ALLOCATING_SHARED_RESOURCES", "ALLOCATING_MACHINES", "ALLOCATED",
   "DEALLOCATING_MACHINES", "DEALLOCATING_SHARED_RESOURCES", "ERROR"}

PoolTypeOK ==
  /\ pool.status \in PoolStatuses
  /\ pool.rows \subseteq MachineIds /\ platform.vms \subseteq MachineIds

\* A pool which its flows have left says what there is: a deallocated one has no machines
\* and no shared resources, an allocated one has all it needs, there is no other status
\* but ERROR, and unless something was lost the platform agrees with the row.  Whatever
\* state it was found in, a deallocation with nothing beside it brings this about again,
\* as "Please force-deallocate the pool and try again." promises.
StatusTellsWhatIsThere ==
  (pool.stored /\ ~disturbed /\ Running = {}) =>
    /\ pool.status \in {"DEALLOCATED", "ALLOCATED", "ERROR"}
    /\ pool.status = "DEALLOCATED" => pool.rows = {} /\ pool.shared = 0
    /\ pool.status = "ALLOCATED" =>
         Cardinality(pool.rows) >= MinimumMinions /\ pool.shared # 0
    /\ (pool.status # "ERROR" /\ ~lost) =>
         platform = [vms |-> pool.rows, shared |-> {pool.shared} \ {0}]

\* Shared resources on the platform are always in the row of their pool, or in the
\* hands of a flow, so that a deallocation finds them, also after a failed reversion.
SharedIsKnown ==
  (pool.stored /\ ~disturbed /\ ~lost) =>
    platform.shared \subseteq {pool.shared} \cup {flows[f].store : f \in Slots}

\* An allocated pool is refreshed, also after a restart of the manager.
AllocatedIsRefreshed ==
  (pool.stored /\ ~disturbed /\ pool.status = "ALLOCATED" /\ Running = {}) => refresh

\* "Please ensure the pool machines have been deallocated and the pool's supporting
\* resources have been torn down before deleting the pool."
DeletedHasNothing ==
  (pool # NoPool /\ ~pool.stored /\ Running = {} /\ ~disturbed /\ ~lost) =>
    platform.vms = {} /\ platform.shared = {}
=============================================================================

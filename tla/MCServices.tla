---------------------------- MODULE MCServices -----------------------------
(***************************************************************************)
(* The services around the executions: the locks of the conductor, its     *)
(* transfer schedules with the cron service, its licence reservations, its *)
(* registry with the scheduler, the progress updates which it is sent, the *)
(* pools of the minion manager and what is selected of them.  A behaviour  *)
(* is about one of these.                                                  *)
(***************************************************************************)
EXTENDS LockOrder, TransferCron, Licensing, Scheduler, TaskProgress, PoolSelections, TLC

CONSTANTS MachineIds, Flows  \* of MinionPools

VARIABLES
  about,  \* what the behaviour is about
  \* of MinionPools
  pool, platform, flows, refresh, creating, next_id, disturbed, pool_lost, started,
  pool_faults

\* Every minute; once an hour, until an hour ends; and a schedule which is disabled.
MCValues ==
  {[enabled |-> TRUE, minute |-> -1, expires |-> -1],
   [enabled |-> TRUE, minute |-> 1, expires |-> 3],
   [enabled |-> FALSE, minute |-> -1, expires |-> 4]}

PoolLife == INSTANCE MinionPools WITH
  MinimumMinions <- 1, Slots <- Flows, MaxRuns <- 3, MaxFaults <- 2, lost <- pool_lost

Kind(side, of, os) == [endpoint |-> side, platform |-> of, os_type |-> os]

\* A pool on each side, or two of the destination.
MCPoolKinds ==
  {("pool1" :> first) @@ ("pool2" :> Kind("destination", "destination", "linux")) :
     first \in {Kind("origin", "source", "linux"),
                Kind("destination", "destination", "windows")}}

\* Pools for both sides, and for OSMorphing: one for each instance, one for both, and one
\* for an instance which the transfer does not have.
MCSelections ==
  {[kind |-> "transfer", origin |-> "pool1", destination |-> "pool2",
    osmorphing |-> ("i1" :> "pool2")]}
  \cup
  {[kind |-> "deployment", origin |-> "none", destination |-> "none",
    osmorphing |-> mapping] :
     mapping \in {("i1" :> "pool1") @@ ("i2" :> "pool2"),
                  ("i1" :> "pool2") @@ ("i2" :> "pool2"),
                  ("i1" :> "pool2") @@ ("i3" :> "pool1")}}

-----------------------------------------------------------------------------
NoLocks == steps = 0 /\ reports = 0 /\ owner = 0

NoCron ==
  /\ now = 0 /\ db = 0 /\ trusts = 0 /\ op = 0 /\ cron_up = 0 /\ jobs = 0
  /\ next_check = 0 /\ copied = 0 /\ threads = 0 /\ execution = 0 /\ spawned = 0
  /\ torn = 0 /\ untrusted = 0 /\ cron_faults = 0 /\ restarts = 0

NoLicence ==
  /\ scenario = 0 /\ transfer_row = 0 /\ reservation_id = 0 /\ server = 0 /\ handler = 0
  /\ call = 0 /\ in_memory = 0 /\ attempts = 0 /\ replicated = 0 /\ deployed = 0
  /\ unsaved = 0 /\ lost = 0 /\ forgotten = 0

NoPools ==
  /\ pool = 0 /\ platform = 0 /\ flows = 0 /\ refresh = 0 /\ creating = 0 /\ next_id = 0
  /\ disturbed = 0 /\ pool_lost = 0 /\ started = 0 /\ pool_faults = 0

NoRegistry ==
  /\ region = 0 /\ endpoint = 0 /\ service = 0 /\ mappings = 0 /\ txn = 0
  /\ installed = 0 /\ worker = 0 /\ shut = 0 /\ transfer = 0 /\ task = 0 /\ changed = 0
  /\ changes = 0

NoProgress ==
  /\ active = 0 /\ rows = 0 /\ handling = 0 /\ updating = 0 /\ sent = 0 /\ answers = 0
  /\ process = 0 /\ total_steps = 0 /\ perc_steps = 0 /\ told = 0 /\ timeouts = 0

NoSelections ==
  /\ pools = 0 /\ machine = 0 /\ selection = 0 /\ at = 0 /\ todo = 0 /\ allocations = 0
  /\ patch = 0 /\ faults = 0

poolVars == <<pool, platform, flows, refresh, creating, next_id, disturbed, pool_lost,
              started, pool_faults>>

vars == <<about, lockVars, cronVars, licensingVars, poolVars, schedVars, progressVars,
          selectionVars>>

Init ==
  \/ /\ about = "locks" /\ LockInit
     /\ NoCron /\ NoLicence /\ NoPools /\ NoRegistry /\ NoProgress /\ NoSelections
  \/ /\ about = "cron" /\ CronInit
     /\ NoLocks /\ NoLicence /\ NoPools /\ NoRegistry /\ NoProgress /\ NoSelections
  \/ /\ about = "licence" /\ LicensingInit
     /\ NoLocks /\ NoCron /\ NoPools /\ NoRegistry /\ NoProgress /\ NoSelections
  \/ /\ about = "pools" /\ PoolLife!PoolInit
     /\ NoLocks /\ NoCron /\ NoLicence /\ NoRegistry /\ NoProgress /\ NoSelections
  \/ /\ about = "registry" /\ SchedInit
     /\ NoLocks /\ NoCron /\ NoLicence /\ NoPools /\ NoProgress /\ NoSelections
  \/ /\ about = "progress" /\ ProgressInit
     /\ NoLocks /\ NoCron /\ NoLicence /\ NoPools /\ NoRegistry /\ NoSelections
  \/ /\ about = "selections" /\ SelectionsInit
     /\ NoLocks /\ NoCron /\ NoLicence /\ NoPools /\ NoRegistry /\ NoProgress

Next ==
  /\ UNCHANGED about
  /\ \/ /\ about = "locks" /\ LockNext
        /\ UNCHANGED <<cronVars, licensingVars, poolVars, schedVars,
                       progressVars, selectionVars>>
     \/ /\ about = "cron" /\ CronNext
        /\ UNCHANGED <<lockVars, licensingVars, poolVars, schedVars,
                       progressVars, selectionVars>>
     \/ /\ about = "licence" /\ LicensingNext
        /\ UNCHANGED <<lockVars, cronVars, poolVars, schedVars,
                       progressVars, selectionVars>>
     \/ /\ about = "pools" /\ PoolLife!PoolNext
        /\ UNCHANGED <<lockVars, cronVars, licensingVars, schedVars,
                       progressVars, selectionVars>>
     \/ /\ about = "registry" /\ SchedNext
        /\ UNCHANGED <<lockVars, cronVars, licensingVars, poolVars,
                       progressVars, selectionVars>>
     \/ /\ about = "progress" /\ ProgressNext
        /\ UNCHANGED <<lockVars, cronVars, licensingVars, poolVars,
                       schedVars, selectionVars>>
     \/ /\ about = "selections" /\ SelectionsNext
        /\ UNCHANGED <<lockVars, cronVars, licensingVars, poolVars,
                       schedVars, progressVars>>

Spec == Init /\ [][Next]_vars

\* Neither the regions are told apart, nor the endpoints, whose names the percentage steps
\* of a task and the actions which select pools have as well.
Symmetry == Permutations(Endpoints) \cup Permutations(Regions)

-----------------------------------------------------------------------------
\* The conductor's handlers wait for one another in a circle only where one is of a
\* request and another of a worker's report.
LockCircles == about = "locks" => LockTypeOK /\ CircleHasBothKinds

\* The cron service's jobs are those of the schedules in the database, each is started
\* at most once in a minute, and no schedule is left without the trust which its job
\* needs, whatever restarts there are and requests which are not answered.  Where an
\* operation is rolled back once the cron service has done its part, the job is put
\* right by the next operation or restart, and the trust of a deleted schedule is lost.
JobsFollowSchedules ==
  about = "cron" =>
    /\ CronTypeOK
    /\ OncePerMinute
    /\ JobsInStep
    /\ ScheduleHasTrust

\* Every completed deployment of a live migration and every replica with a completed
\* execution was charged, and only a transfer which is there holds a reservation, one
\* at most, whatever answers of the licensing server are lost.  (Not charged is a
\* deployment which waited for its deployer and whose new reservation, made after an
\* error about the fulfilled one, is not in the row of the transfer.)
EverythingCharged ==
  about = "licence" =>
    /\ LicensingTypeOK
    /\ DeploymentsAreCharged
    /\ ReplicasAreCharged
    /\ NothingHeldInVain

\* The status of a pool tells what it has as soon as its flows are over, its shared
\* resources are found by its deallocation, and an allocated pool is refreshed.
PoolStatusTells ==
  about = "pools" =>
    /\ PoolLife!PoolTypeOK
    /\ PoolLife!StatusTellsWhatIsThere
    /\ PoolLife!SharedIsKnown
    /\ PoolLife!AllocatedIsRefreshed

\* The worker which a task is given can reach its endpoints and has the providers for
\* them; a worker is known with the providers of its last start, which does not enable
\* a service that was disabled.
WorkerFits ==
  about = "registry" =>
    /\ SchedTypeOK
    /\ GrantedFits
    /\ DisabledStays
    /\ KnownAsItIs

\* Every percentage step is updated in the row which was added for it; one whose last
\* value was reported shows it, and what is shown of a task is what it has got to,
\* once all is handled, where the handlers share the lock on the task: the races which
\* a comment in db.api expects of the check for updates out of order do not happen.
ProgressShown ==
  about = "progress" =>
    /\ ProgressTypeOK
    /\ StepsHaveTheirRows
    /\ FinalStepShown
    /\ ShownWhenQuiet

\* An action's instances have the machines which were asked for, each its own; an
\* action which any of its pools refused holds no machine; and no pool outgrows its
\* maximum.
SelectionsServed ==
  about = "selections" =>
    /\ SelectionsTypeOK
    /\ EveryInstanceServed
    /\ OverHoldsNothing
    /\ PoolMaximum
=============================================================================

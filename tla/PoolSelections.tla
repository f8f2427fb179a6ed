--------------------------- MODULE PoolSelections ---------------------------
(***************************************************************************)
(* Which machines an action (a transfer or a deployment) is given: the     *)
(* pools it has selected are validated, and its machines are then taken    *)
(* from one pool after the other, each under the lock of that pool alone,  *)
(* while other actions and the pools' owners go on.  What the flow does    *)
(* with the machines is in MinionMachines; here it succeeds or fails.      *)
(*                                                                         *)
(* The conductor asks for the machines of a transfer's origin and          *)
(* destination, or for those of a deployment's OSMorphing, never for both: *)
(* the destination's machines are not used for OSMorphing as well.         *)
(***************************************************************************)
EXTENDS Integers, FiniteSets

CONSTANTS
  Pools,
  Actions,
  Instances,   \* of each action
  Machines,    \* identifiers, of which any that is not used is as good as another
  PoolKinds,   \* functions from Pools to [endpoint, platform, os_type]
  Selections,  \* [kind, origin, destination, osmorphing], of actions
  Patches,     \* bound: updates of pools, which may be in progress together
  MaxFaults    \* bound: failures of the database and of the starting of flows

\* Pools have at most two machines here, and there are identifiers for all of them.
ASSUME SelectionsAssumption ==
  /\ IsFiniteSet(Pools) /\ IsFiniteSet(Instances) /\ IsFiniteSet(Machines)
  /\ \A s \in Selections : IsFiniteSet(DOMAIN s.osmorphing)
  /\ 2 * Cardinality(Pools) <= Cardinality(Machines)
  /\ "none" \notin Actions /\ Pools \cap {"none", "over"} = {}

VARIABLES
  pools,       \* the rows of the pools
  machine,     \* the rows of the machines: [pool, status, action], or NoMachine
  selection,   \* of each action
  at,          \* where the request of each action has got to
  todo,        \* the roles for which it has no machines yet: [role, pool]
  allocations, \* the machines of its instances: [instance, role, machine]
  patch,       \* what the API has accepted of each update, or "none", or "over"
  faults

selectionVars == <<pools, machine, selection, at, todo, allocations, patch, faults>>

NoMachine == [pool |-> "none", status |-> "none", action |-> "none"]

Machine(p, status, a) == [pool |-> p, status |-> status, action |-> a]

Patch(p, field, value) == [pool |-> p, field |-> field, value |-> value]

NoPatch == Patch("none", "none", "none")

Over == Patch("over", "none", "none")

Asked(u) == patch[u].pool \in Pools

MachinesOf(p) == {m \in Machines : machine[m].pool = p}

AllocatedTo(a) == {m \in Machines : machine[m].action = a}

\* New identifiers.
Fresh(n) == CHOOSE new \in SUBSET {m \in Machines : machine[m] = NoMachine} :
              Cardinality(new) = n

SelectionsInit ==
  /\ \E kind \in PoolKinds :
       pools = [p \in Pools |->
                  [endpoint |-> kind[p].endpoint, platform |-> kind[p].platform,
                   os_type |-> kind[p].os_type, minimum |-> 1, maximum |-> 2,
                   status |-> "DEALLOCATED"]]
  /\ machine = [m \in Machines |-> NoMachine]
  /\ selection \in [Actions -> Selections]
  /\ at = [a \in Actions |-> "new"]
  /\ todo = [a \in Actions |-> {}]
  /\ allocations = [a \in Actions |-> {}]
  /\ patch = [u \in Patches |-> NoPatch]
  /\ faults = 0

-----------------------------------------------------------------------------
(* The pools.  Their flows are in MinionPools; while a pool is allocated   *)
(* it can be neither used nor updated, so that is one step here.           *)

allocate_minion_pool(p) ==
  /\ pools[p].status = "DEALLOCATED"
  /\ machine' = [m \in Machines |->
       IF m \in Fresh(pools[p].minimum) THEN Machine(p, "AVAILABLE", "none")
                                        ELSE machine[m]]
  /\ pools' = [pools EXCEPT ![p].status = "ALLOCATED"]
  /\ UNCHANGED <<selection, at, todo, allocations, patch, faults>>

\* Not forced, and so only if no machine is used.
deallocate_minion_pool(p) ==
  /\ pools[p].status = "ALLOCATED"
  /\ \A m \in MachinesOf(p) : machine[m].status = "AVAILABLE"
  /\ pools' = [pools EXCEPT ![p].status = "POOL_MAINTENANCE"]
  /\ UNCHANGED <<machine, selection, at, todo, allocations, patch, faults>>

PoolDeallocated(p) ==
  /\ pools[p].status = "POOL_MAINTENANCE"
  /\ pools' = [pools EXCEPT ![p].status = "DEALLOCATED"]
  /\ machine' = [m \in Machines |-> IF m \in MachinesOf(p) THEN NoMachine ELSE machine[m]]
  /\ UNCHANGED <<selection, at, todo, allocations, patch, faults>>

\* _check_pool_numeric_values, of a field's new value beside the pool's others.
Numeric(row) == 0 < row.minimum /\ row.minimum <= row.maximum

Updated(row, field, value) == [row EXCEPT ![field] = value]

\* The API checks the new value against the pool as it is ...
_validate_update_body(u, p, field, value) ==
  /\ patch[u].pool = "none"
  /\ Numeric(Updated(pools[p], field, value))
  /\ Updated(pools[p], field, value) # pools[p]
  /\ patch' = [patch EXCEPT ![u] = Patch(p, field, value)]
  /\ UNCHANGED <<pools, machine, selection, at, todo, allocations, faults>>

\* ... and the minion manager updates it later, if it is deallocated then.
update_minion_pool(u) ==
  /\ Asked(u)
  /\ pools' = [pools EXCEPT ![patch[u].pool] =
                 IF @.status = "DEALLOCATED"
                   THEN Updated(@, patch[u].field, patch[u].value) ELSE @]
  /\ patch' = [patch EXCEPT ![u] = Over]
  /\ UNCHANGED <<machine, selection, at, todo, allocations, faults>>

-----------------------------------------------------------------------------
(* The request of an action.                                               *)

\* The instances which have a pool for OSMorphing, and perhaps others than the action's.
Mapped(a, p) ==
  {i \in DOMAIN selection[a].osmorphing : selection[a].osmorphing[i] = p}

InstancesFor(a, r) == IF r.role = "osmorphing" THEN Mapped(a, r.pool) ELSE Instances

\* _check_pool_minion_count
HasRoom(p, count) == pools[p].status = "ALLOCATED" /\ count <= pools[p].maximum

IsOriginPool(p) ==
  /\ pools[p].endpoint = "origin" /\ pools[p].platform = "source"
  /\ pools[p].os_type = "linux"
  /\ HasRoom(p, Cardinality(Instances))

IsDestinationPool(p) ==
  /\ pools[p].endpoint = "destination" /\ pools[p].platform = "destination"
  /\ pools[p].os_type = "linux"
  /\ HasRoom(p, Cardinality(Instances))

\* Mappings of other instances are ignored.
IsOSMorphingPool(a, p) ==
  /\ pools[p].endpoint = "destination" /\ pools[p].platform = "destination"
  /\ HasRoom(p, Cardinality(Mapped(a, p) \cap Instances))

Roles(a) ==
  IF selection[a].kind = "transfer"
    THEN {r \in [role : {"origin", "destination"}, pool : Pools] :
            selection[a][r.role] = r.pool}
    ELSE {[role |-> "osmorphing", pool |-> p] : p \in {q \in Pools : Mapped(a, q) # {}}}

\* The pools are read at once, without their locks.  The pools which a transfer has for
\* the OSMorphing of its deployments are looked at as well.
validate_minion_pool_selections_for_action(a) ==
  /\ at[a] = "new"
  /\ selection[a].origin # "none" => IsOriginPool(selection[a].origin)
  /\ selection[a].destination # "none" => IsDestinationPool(selection[a].destination)
  /\ \A p \in Pools : Mapped(a, p) \cap Instances # {} => IsOSMorphingPool(a, p)
  /\ at' = [at EXCEPT ![a] = "allocating"]
  /\ todo' = [todo EXCEPT ![a] = Roles(a)]
  /\ UNCHANGED <<pools, machine, selection, allocations, patch, faults>>

\* The machines which are preferred "in a set order every time", and new ones if all
\* that are available are taken.
Preferred(count, available) ==
  IF count <= Cardinality(available)
    THEN CHOOSE some \in SUBSET available : Cardinality(some) = count
    ELSE available \cup Fresh(count - Cardinality(available))

\* _select_machine: each instance has a machine of its own.
Assignment(wanted, available) ==
  CHOOSE of \in [wanted -> Preferred(Cardinality(wanted), available)] :
    \A i, j \in wanted : i # j => of[i] # of[j]

ExtraSlots(p) == pools[p].maximum - Cardinality(MachinesOf(p))

Available(p) == {m \in MachinesOf(p) : machine[m].status = "AVAILABLE"}

\* What is marked of an assignment: machines which exist are reserved, others added.
Marked(a, p, marked) ==
  [m \in Machines |->
     IF m \notin marked THEN machine[m]
     ELSE Machine(p, IF machine[m] = NoMachine THEN "UNINITIALIZED" ELSE "RESERVED", a)]

\* The next role: the origin's machines come before the destination's.
Turn(a, r) ==
  /\ at[a] = "allocating"
  /\ r \in todo[a]
  /\ r.role = "destination" => \A other \in todo[a] : other.role # "origin"

Accommodates(a, r) ==
  /\ pools[r.pool].status = "ALLOCATED"
  /\ Cardinality(InstancesFor(a, r)) <= Cardinality(Available(r.pool)) + ExtraSlots(r.pool)

\* "... is an invalid state", "... is unable to accommodate".
RefusesAllocation(a, r) ==
  /\ Turn(a, r) /\ ~Accommodates(a, r)
  /\ at' = [at EXCEPT ![a] = "cleanup"]
  /\ UNCHANGED <<pools, machine, selection, todo, allocations, patch, faults>>

\* The mapping of an instance which the action does not have raises a KeyError once
\* the machines are marked.
_make_minion_machine_allocation_subflow_for_action(a, r) ==
  /\ Turn(a, r) /\ Accommodates(a, r)
  /\ LET wanted == InstancesFor(a, r)
         of == Assignment(wanted, Available(r.pool))
     IN /\ machine' = Marked(a, r.pool, {of[i] : i \in wanted})
        /\ allocations' = [allocations EXCEPT ![a] = @ \cup
             {[instance |-> i, role |-> r.role, machine |-> of[i]] :
                i \in wanted \cap Instances}]
        /\ at' = [at EXCEPT ![a] =
                    IF wanted \subseteq Instances THEN "allocating" ELSE "cleanup"]
  /\ todo' = [todo EXCEPT ![a] = @ \ {r}]
  /\ UNCHANGED <<pools, selection, patch, faults>>

\* The database fails, and perhaps again as what was marked is reverted: the machines
\* which exist are reserved and released together, those added are removed one by one.
AllocationFails(a, r) ==
  /\ Turn(a, r) /\ Accommodates(a, r)
  /\ faults < MaxFaults
  /\ faults' = faults + 1
  /\ LET wanted == InstancesFor(a, r)
         of == Assignment(wanted, Available(r.pool))
         existing == {of[i] : i \in wanted} \cap Available(r.pool)
     IN \E left \in SUBSET {of[i] : i \in wanted} :
          /\ left \cap existing \in {{}, existing}
          /\ machine' = Marked(a, r.pool, left)
  /\ at' = [at EXCEPT ![a] = "cleanup"]
  /\ UNCHANGED <<pools, selection, todo, allocations, patch>>

\* The flow is started in a process of its own, or cannot be.
_run_machine_allocation_subflow_for_action(a) ==
  /\ at[a] = "allocating" /\ todo[a] = {}
  /\ \/ at' = [at EXCEPT ![a] = "flow"] /\ UNCHANGED faults
     \/ /\ faults < MaxFaults
        /\ faults' = faults + 1
        /\ at' = [at EXCEPT ![a] = "cleanup"]
  /\ UNCHANGED <<pools, machine, selection, todo, allocations, patch>>

\* Machines which were never created are forgotten ...
_cleanup_machines_with_statuses_for_action(a) ==
  /\ at[a] = "cleanup"
  /\ machine' = [m \in Machines |->
       IF m \in AllocatedTo(a) /\ machine[m].status = "UNINITIALIZED"
         THEN NoMachine ELSE machine[m]]
  /\ at' = [at EXCEPT ![a] = "deallocate"]
  /\ UNCHANGED <<pools, selection, todo, allocations, patch, faults>>

\* A mutant: only the machines of the pool which could not be allocated from are freed.
DeallocateLastPool(a) ==
  /\ at[a] = "deallocate"
  /\ machine' = [m \in Machines |->
       IF m \in AllocatedTo(a) /\ \A g \in allocations[a] : g.machine # m
         THEN Machine(machine[m].pool, "AVAILABLE", "none") ELSE machine[m]]
  /\ at' = [at EXCEPT ![a] = "over"]
  /\ allocations' = [allocations EXCEPT ![a] = {}]
  /\ todo' = [todo EXCEPT ![a] = {}]
  /\ UNCHANGED <<pools, selection, patch, faults>>

\* ... and the others made available, in whatever pools they are: one pool after the
\* other, of which the others see only that machines become free.  The conductor is told,
\* or has asked for it.
deallocate_minion_machines_for_action(a) ==
  /\ at[a] = "deallocate"
  /\ machine' = [m \in Machines |->
       IF m \notin AllocatedTo(a) THEN machine[m]
       ELSE IF machine[m].status = "UNINITIALIZED" THEN NoMachine
       ELSE Machine(machine[m].pool, "AVAILABLE", "none")]
  /\ at' = [at EXCEPT ![a] = "over"]
  /\ allocations' = [allocations EXCEPT ![a] = {}]
  /\ todo' = [todo EXCEPT ![a] = {}]
  /\ UNCHANGED <<pools, selection, patch, faults>>

\* All machines are healthy, or have been created: the conductor is given them.
FlowSucceeds(a) ==
  /\ at[a] = "flow"
  /\ machine' = [m \in Machines |->
       IF m \in AllocatedTo(a) THEN [machine[m] EXCEPT !.status = "IN_USE"] ELSE machine[m]]
  /\ at' = [at EXCEPT ![a] = "confirmed"]
  /\ UNCHANGED <<pools, selection, todo, allocations, patch, faults>>

\* The machines which were to be created are gone.
FlowFails(a) ==
  /\ at[a] = "flow"
  /\ machine' = [m \in Machines |->
       IF m \in AllocatedTo(a) /\ machine[m].status = "UNINITIALIZED"
         THEN NoMachine ELSE machine[m]]
  /\ at' = [at EXCEPT ![a] = "deallocate"]
  /\ UNCHANGED <<pools, selection, todo, allocations, patch, faults>>

\* _set_tasks_execution_status: the execution is over.
ExecutionEnds(a) ==
  /\ at[a] = "confirmed"
  /\ at' = [at EXCEPT ![a] = "deallocate"]
  /\ UNCHANGED <<pools, machine, selection, todo, allocations, patch, faults>>

SelectionsNext ==
  \/ \E p \in Pools : \/ allocate_minion_pool(p) \/ deallocate_minion_pool(p)
                      \/ PoolDeallocated(p)
  \/ \E u \in Patches :
       \/ update_minion_pool(u)
       \/ \E p \in Pools :
            \/ \E field \in {"minimum", "maximum"}, value \in {1, 2} :
                 _validate_update_body(u, p, field, value)
            \/ _validate_update_body(u, p, "os_type", "windows")
  \/ \E a \in Actions :
       \/ validate_minion_pool_selections_for_action(a)
       \/ \E r \in todo[a] : \/ RefusesAllocation(a, r)
                             \/ _make_minion_machine_allocation_subflow_for_action(a, r)
                             \/ AllocationFails(a, r)
       \/ _run_machine_allocation_subflow_for_action(a)
       \/ _cleanup_machines_with_statuses_for_action(a)
       \/ deallocate_minion_machines_for_action(a)
       \/ FlowSucceeds(a) \/ FlowFails(a) \/ ExecutionEnds(a)

SelectionsSpec == SelectionsInit /\ [][SelectionsNext]_selectionVars

-----------------------------------------------------------------------------
SelectionsTypeOK ==
  /\ \A m \in Machines : machine[m] = NoMachine \/
       machine[m] \in [pool : Pools, action : Actions \cup {"none"},
                       status : {"AVAILABLE", "UNINITIALIZED", "RESERVED", "IN_USE"}]
  /\ at \in [Actions -> {"new", "allocating", "cleanup", "deallocate", "flow",
                         "confirmed", "over"}]

Served(a, i, r) ==
  \E g \in allocations[a] :
    /\ g.instance = i /\ g.role = r.role
    /\ machine[g.machine] = Machine(r.pool, "IN_USE", a)

\* Whatever other actions took and pools' owners changed since the pools were validated,
\* an action whose machines are confirmed has, for every instance, a machine of its own
\* in each pool it has selected, and that pool is on the side which it is used for.
EveryInstanceServed ==
  \A a \in Actions : at[a] = "confirmed" =>
    /\ \A r \in Roles(a) :
         /\ \A i \in InstancesFor(a, r) : Served(a, i, r)
         /\ pools[r.pool].platform = IF r.role = "origin" THEN "source" ELSE "destination"
    /\ \A g, h \in allocations[a] : g # h => g.machine # h.machine

\* An action which is over, or was refused by any of its pools, holds no machine of the
\* others, whichever step of its request has failed.
OverHoldsNothing == \A a \in Actions : at[a] = "over" => AllocatedTo(a) = {}

\* A pool never has more machines than its maximum, whatever actions are given machines
\* of it at once and however it is updated; one update at a time, that is.
PoolMaximum == \A p \in Pools : Cardinality(MachinesOf(p)) <= pools[p].maximum
=============================================================================

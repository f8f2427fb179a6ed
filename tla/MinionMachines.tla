--------------------------- MODULE MinionMachines ---------------------------
(***************************************************************************)
(* The machines of one allocated minion pool: what the minion manager      *)
(* (minion_manager/rpc/server.py) does with them on behalf of actions      *)
(* (transfers and deployments) and to refresh the pool, and the taskflow   *)
(* tasks (minion_manager/rpc/tasks.py) its flows consist of, which run in  *)
(* processes of their own.  Handlers and tasks write under the lock of the *)
(* pool, but what they write often follows from an earlier reading.        *)
(*                                                                         *)
(* An action needs a machine for each of its instances.  Executions are of *)
(* actions of their own, as those of deployments are, or all of one        *)
(* transfer; the machines are allocated to the action in either case.      *)
(***************************************************************************)
EXTENDS Integers, FiniteSets

CONSTANTS
  Machines,         \* identifiers of machines
  Executions,       \* of transfers and deployments which use the pool
  Transfer,         \* the action of each, where a transfer is executed again
  Refreshes,        \* refresh flows which may be in progress together
  Instances,        \* how many machines each action needs
  MinimumMinions,   \* of the pool
  MaximumMinions,
  Scenarios         \* retention strategies of the pool and what may go wrong

\* unhealthy:   a healthcheck fails although the machine is there
\* undeployed:  a machine cannot be created
\* undeletable: a machine cannot be deleted
\* unpowered_on, unpowered_off: it cannot be powered on, or off
\* again:   the executions are of one transfer, which is executed again
\* orderly: the requests of an execution are handled in order, and a transfer is not
\*          executed again before those of its last execution are handled
AllFaults ==
  {"unhealthy", "undeployed", "undeletable", "unpowered_on", "unpowered_off"}

ASSUME MinionMachinesAssumption ==
  /\ IsFiniteSet(Machines)
  /\ \E M \in SUBSET Machines : Cardinality(M) = MinimumMinions
  /\ Transfer \in Executions
  /\ Executions \cap (Refreshes \cup {"none"}) = {}
  /\ Instances \in [Executions -> Nat \ {0}]
  /\ MinimumMinions \in Nat /\ MaximumMinions \in Nat
  /\ MinimumMinions <= MaximumMinions
  /\ Scenarios \subseteq [retention : {"delete", "poweroff"},
                          faults : SUBSET AllFaults, refreshed : BOOLEAN,
                          again : BOOLEAN, orderly : BOOLEAN]

VARIABLES
  pool,       \* the scenario
  machine,    \* the machines' entries in the DB
  vms,        \* the machines which exist on the platform
  execution,  \* the status of each execution, in the conductor
  using,      \* machines its tasks use
  flow,       \* the flow of each execution and refresh
  job,        \* what each flow does with each machine
  release,    \* deallocate_minion_machines_for_action, for each flow
  freeing     \* machines for which each execution has sent deallocate_minion_machine

vars == <<pool, machine, vms, execution, using, flow, job, release, freeing>>

Owners == Executions \cup Refreshes

ActionOf(e) == IF pool.again THEN Transfer ELSE e

SameAction(e) == {x \in Executions : ActionOf(x) = ActionOf(e)}

NoEntry == [status |-> "none", power |-> "none", action |-> "none",
            deployed |-> FALSE]

MachineStatuses ==
  {"UNINITIALIZED", "HEALTHCHECKING", "ALLOCATING", "DEALLOCATING", "ERROR",
   "POWERING_OFF", "POWER_ERROR", "ERROR_DEPLOYING", "AVAILABLE", "IN_USE",
   "RESERVED"}

PowerStatuses ==
  {"UNINITIALIZED", "POWERED_ON", "POWERED_OFF", "POWERING_ON", "POWERING_OFF"}

\* A task that has not been started, one at work, and the ends of a job: created
\* and uncreated say that it has run an AllocateMinionMachineTask.
Waiting == {"power", "check", "dealloc", "create", "off"}
Working == {"powering", "checking", "deleting", "forget", "creating",
            "powering_off"}
Failed  == {"failed", "uncreated"}
Ended   == {"done", "created"} \cup Failed

NoJob == [kind |-> "none", at |-> "none"]

\* new: the machine is created; heal: it is checked, and redeployed if need be;
\* retire: it is powered off or deleted.
Jobs == {NoJob} \cup [kind : {"new", "heal", "retire"},
                      at : Waiting \cup Working \cup Ended \cup {"reverted"}]

FlowPlaces == {"none", "requested", "machines", "confirm", "confirming",
               "reverting", "over"}

NotAsked == [at |-> "none", listed |-> {}, fresh |-> {}]

TypeOK ==
  /\ pool \in Scenarios
  /\ \A m \in Machines :
       \/ machine[m] = NoEntry
       \/ /\ machine[m].status \in MachineStatuses
          /\ machine[m].power \in PowerStatuses
          /\ machine[m].action \in Executions \cup {"none"}
          /\ machine[m].deployed \in BOOLEAN
  /\ vms \subseteq Machines
  /\ execution \in [Executions -> {"none", "AWAITING", "RUNNING", "ENDED"}]
  /\ using \in [Executions -> SUBSET Machines]
  /\ flow \in [Owners -> FlowPlaces]
  /\ job \in [Owners -> [Machines -> Jobs]]
  /\ release \in [Executions -> [at : {"none", "sent", "read", "over"},
                              listed : SUBSET Machines,
                              fresh : SUBSET Machines]]
  /\ freeing \in [Executions -> SUBSET Machines]

Unused(power) == [status |-> "AVAILABLE", power |-> power, action |-> "none",
                  deployed |-> TRUE]

\* An allocated pool with as few machines as it may have.
Init ==
  /\ pool \in Scenarios
  /\ vms = CHOOSE M \in SUBSET Machines : Cardinality(M) = MinimumMinions
  /\ \E on \in SUBSET vms :
       machine = [m \in Machines |->
                    IF m \in on THEN Unused("POWERED_ON")
                    ELSE IF m \in vms THEN Unused("POWERED_OFF") ELSE NoEntry]
  /\ execution = [e \in Executions |-> "none"]
  /\ using = [e \in Executions |-> {}]
  /\ flow = [o \in Owners |-> "none"]
  /\ job = [o \in Owners |-> [m \in Machines |-> NoJob]]
  /\ release = [e \in Executions |-> NotAsked]
  /\ freeing = [e \in Executions |-> {}]

Exists(m) == machine[m] # NoEntry
Entries == {m \in Machines : Exists(m)}
Fails(fault) == fault \in pool.faults

-----------------------------------------------------------------------------
(* The conductor: an execution waits for its machines, uses them, and is   *)
(* cancelled or ends.                                                      *)

\* Nothing of what was asked for an execution is still to be handled.
Handled(e) ==
  /\ flow[e] \in {"none", "over"} /\ release[e].at \in {"none", "over"}
  /\ freeing[e] = {}

\* A transfer is executed again only when its last execution is over.
AllocateMinionMachines(e) ==
  /\ execution[e] = "none"
  /\ \A x \in SameAction(e) \ {e} :
       execution[x] \in {"none", "ENDED"} /\ (pool.orderly => Handled(x))
  /\ execution' = [execution EXCEPT ![e] = "AWAITING"]
  /\ flow' = [flow EXCEPT ![e] = "requested"]
  /\ UNCHANGED <<pool, machine, vms, using, job, release, freeing>>

Sent == [NotAsked EXCEPT !.at = "sent"]

\* The flow whose confirmation has started an execution: there is one, which has ended
\* and after which nothing was deallocated.
ServedBy(e) == CHOOSE x \in SameAction(e) : flow[x] = "over" /\ release[x].at = "none"

\* _set_tasks_execution_status: the machines of an execution which ends before it
\* has them are left to the refusal of their confirmation.
ExecutionEnds(e) ==
  /\ \/ execution[e] = "AWAITING" /\ UNCHANGED release
     \/ execution[e] = "RUNNING" /\ release' = [release EXCEPT ![ServedBy(e)] = Sent]
  /\ execution' = [execution EXCEPT ![e] = "ENDED"]
  /\ using' = [using EXCEPT ![e] = {}]
  /\ UNCHANGED <<pool, machine, vms, flow, job, freeing>>

\* RELEASE_SOURCE_MINION, RELEASE_DESTINATION_MINION, RELEASE_OSMORPHING_MINION: once
\* the task has completed the machine is given back, by a cast.
ReleaseMinion(e, m) ==
  /\ execution[e] = "RUNNING" /\ m \in using[e]
  /\ using' = [using EXCEPT ![e] = @ \ {m}]
  /\ freeing' = [freeing EXCEPT ![e] = @ \cup {m}]
  /\ UNCHANGED <<pool, machine, vms, execution, flow, job, release>>

-----------------------------------------------------------------------------
(* Handlers of the minion manager.                                         *)

\* Mutant: machines reserved by an action may be selected for another.
SelectableIfReserved ==
  {m \in Machines : machine[m].status \in {"AVAILABLE", "RESERVED"}}

Selectable == {m \in Machines : machine[m].status = "AVAILABLE"}

ExtraSlots == MaximumMinions - Cardinality(Entries)

\* Identifiers nothing refers to.
Fresh == {m \in Machines \ (Entries \cup vms) :
            /\ \A o \in Owners : job[o][m] = NoJob
            /\ \A e \in Executions :
                 m \notin release[e].listed \cup using[e] \cup freeing[e]}

ForAction(status, a, entry) == [entry EXCEPT !.status = status, !.action = a]

NewEntry(status, a) == ForAction(status, a, [NoEntry EXCEPT !.power = "UNINITIALIZED"])

\* The conductor looks at the last execution of the action, which alone can be waiting
\* for its machines, and not at the one whose flow it hears from.
IsAwaited(x, e) == x \in SameAction(e) /\ execution[x] = "AWAITING"

\* What a flow ends with if it fails: ReportMinionAllocationFailure's revert.
ReportFailure(e) ==
  /\ release' = [release EXCEPT ![e] = Sent]
  /\ execution' = [x \in Executions |-> IF IsAwaited(x, e) THEN "ENDED" ELSE execution[x]]

\* _run_machine_allocation_subflow_for_action: existing machines are preferred,
\* the others are created; or the pool cannot accommodate the action.
MakeAllocationSubflow(e) ==
  /\ flow[e] = "requested"
  /\ IF Instances[ActionOf(e)] > Cardinality(Selectable) + ExtraSlots
     THEN /\ ReportFailure(e)
          /\ flow' = [flow EXCEPT ![e] = "over"]
          /\ UNCHANGED <<machine, job>>
     ELSE \E old \in SUBSET Selectable, new \in SUBSET Fresh :
          /\ Cardinality(old) + Cardinality(new) = Instances[ActionOf(e)]
          /\ new # {} => old = Selectable
          /\ machine' = [m \in Machines |->
               IF m \in old THEN ForAction("RESERVED", ActionOf(e), machine[m])
               ELSE IF m \in new THEN NewEntry("UNINITIALIZED", ActionOf(e))
               ELSE machine[m]]
          /\ job' = [job EXCEPT ![e] = [m \in Machines |->
               IF m \in new THEN [kind |-> "new", at |-> "create"]
               ELSE IF m \notin old THEN NoJob
               ELSE IF machine[m].power = "POWERED_OFF"
                    THEN [kind |-> "heal", at |-> "power"]
                    ELSE [kind |-> "heal", at |-> "check"]]]
          /\ flow' = [flow EXCEPT ![e] = "machines"]
          /\ UNCHANGED <<execution, release>>
  /\ UNCHANGED <<pool, vms, using, freeing>>

\* deallocate_minion_machine: the machine is available, "anyway", whatever its status and
\* its action are by now.
DeallocateMinionMachine(e, m) ==
  /\ m \in freeing[e]
  /\ machine' = [machine EXCEPT ![m] =
       IF @ = NoEntry THEN @ ELSE ForAction("AVAILABLE", "none", @)]
  /\ freeing' = [freeing EXCEPT ![e] = @ \ {m}]
  /\ UNCHANGED <<pool, vms, execution, using, flow, job, release>>

\* deallocate_minion_machines_for_action reads before it locks the pool.
ReadAllocated(e) ==
  LET listed == {m \in Machines : machine[m].action = ActionOf(e)} IN
  /\ release[e].at = "sent"
  /\ pool.orderly => \A x \in SameAction(e) : freeing[x] = {}
  /\ release' = [release EXCEPT ![e] =
       [at |-> IF listed = {} THEN "over" ELSE "read",
        listed |-> listed,
        fresh |-> {m \in listed : machine[m].status = "UNINITIALIZED"}]]
  /\ UNCHANGED <<pool, machine, vms, execution, using, flow, job, freeing>>

\* Never deployed machines are removed, the others made available, unless one
\* of them is gone.
DeallocateMinionMachines(e) ==
  LET gone == release[e].listed \ Entries
      fresh == release[e].fresh
      kept == release[e].listed \ fresh
  IN
  /\ release[e].at = "read"
  /\ \E removed \in SUBSET (fresh \ gone) :
       /\ fresh \cap gone = {} => removed = fresh
       /\ machine' = [m \in Machines |->
            IF m \in removed THEN NoEntry
            ELSE IF m \in kept /\ gone = {}
                 THEN ForAction("AVAILABLE", "none", machine[m])
                 ELSE machine[m]]
  /\ release' = [release EXCEPT ![e] = [NotAsked EXCEPT !.at = "over"]]
  /\ UNCHANGED <<pool, vms, execution, using, flow, job, freeing>>

Errored == {"ERROR", "POWER_ERROR", "ERROR_DEPLOYING"}

Refreshable == Errored \cup {"AVAILABLE"}

\* refresh_minion_pool: of the machines nobody uses, expired ones (which is any)
\* are retired as long as the pool keeps its minimum, the others checked if they
\* are powered on.
Refresh(r) ==
  LET counted == {m \in Entries : machine[m].status \notin
                    Errored \cup {"DEALLOCATING", "POWERING_OFF"}}
      idle == {m \in Entries : machine[m].status \in Refreshable}
      poweroff == pool.retention = "poweroff"
      off == {m \in Entries : poweroff /\
                machine[m].power \in {"POWERED_OFF", "POWERING_OFF"}}
  IN
  /\ pool.refreshed
  /\ flow[r] = "none"
  /\ \E expired \in SUBSET idle :
       LET retired == expired \ off
           checked == {m \in idle \ expired : machine[m].power = "POWERED_ON"}
       IN
       /\ \/ expired = {}
          \/ Cardinality(expired) <= Cardinality(counted) - MinimumMinions
       /\ retired \cup checked # {}
       /\ machine' = [m \in Machines |->
            IF m \in retired
            THEN [machine[m] EXCEPT !.status =
                    IF poweroff THEN "POWERING_OFF" ELSE "DEALLOCATING"]
            ELSE IF m \in checked
            THEN [machine[m] EXCEPT !.status = "HEALTHCHECKING"]
            ELSE machine[m]]
       /\ job' = [job EXCEPT ![r] = [m \in Machines |->
            IF m \in retired
            THEN [kind |-> "retire", at |-> IF poweroff THEN "off" ELSE "dealloc"]
            ELSE IF m \in checked THEN [kind |-> "heal", at |-> "check"]
            ELSE NoJob]]
  /\ flow' = [flow EXCEPT ![r] = "machines"]
  /\ UNCHANGED <<pool, vms, execution, using, release, freeing>>

-----------------------------------------------------------------------------
(* Tasks of the flows.  Each is two steps: what it does before, and what   *)
(* after, the platform has done its part.                                  *)

\* A flow starts no task once one has failed.
Failing(o) == \E m \in Machines : job[o][m].at \in Failed

Starts(o, m, place) ==
  /\ flow[o] = "machines" /\ job[o][m].at = place
  /\ ~Failing(o)
  /\ UNCHANGED <<pool, execution, using, flow, release, freeing>>

Finishes(o, m, place) ==
  /\ flow[o] = "machines" /\ job[o][m].at = place
  /\ UNCHANGED <<pool, execution, using, flow, release, freeing>>

Goes(o, m, place) == job' = [job EXCEPT ![o][m].at = place]

\* The platform does nothing with machines it does not have.
Refused(m, fault) == m \notin vms \/ Fails(fault)

SetAllocationStatus(m, s) == machine' = [machine EXCEPT ![m].status = s]
SetPowerStatus(m, p) == machine' = [machine EXCEPT ![m].power = p]

PowerOn(o, m) ==
  /\ Starts(o, m, "power")
  /\ CASE machine[m].power = "POWERED_ON" ->
            Goes(o, m, "check") /\ UNCHANGED machine
       [] machine[m].power = "POWERED_OFF" ->
            Goes(o, m, "powering") /\ SetPowerStatus(m, "POWERING_ON")
       [] OTHER -> Goes(o, m, "failed") /\ UNCHANGED machine
  /\ UNCHANGED vms

PoweredOn(o, m) ==
  /\ Finishes(o, m, "powering")
  /\ IF ~Exists(m) THEN Goes(o, m, "failed") /\ UNCHANGED machine
     ELSE
        /\ Goes(o, m, "check")
        /\ \/ m \in vms /\ SetPowerStatus(m, "POWERED_ON")
           \/ Refused(m, "unpowered_on") /\ SetAllocationStatus(m, "POWER_ERROR")
  /\ UNCHANGED vms

Healthcheck(o, m) ==
  /\ Starts(o, m, "check")
  /\ Goes(o, m, IF ~Exists(m) \/ machine[m].status \in Errored
                THEN "dealloc" ELSE "checking")
  /\ UNCHANGED <<machine, vms>>

\* A machine which does not pass is deleted and created again.
Healthchecked(o, m) ==
  /\ Finishes(o, m, "checking")
  /\ IF ~Exists(m) THEN Goes(o, m, "failed") /\ UNCHANGED machine
     ELSE
     \/ /\ m \in vms
        /\ SetAllocationStatus(m, IF o \in Executions THEN "IN_USE" ELSE "AVAILABLE")
        /\ Goes(o, m, "done")
     \/ /\ Refused(m, "unhealthy")
        /\ SetAllocationStatus(m, "ERROR")
        /\ Goes(o, m, "dealloc")
  /\ UNCHANGED vms

AfterDeallocation(o, m) ==
  Goes(o, m, IF job[o][m].kind = "heal" THEN "create" ELSE "done")

Deallocate(o, m) ==
  /\ Starts(o, m, "dealloc")
  /\ CASE ~Exists(m) -> AfterDeallocation(o, m) /\ UNCHANGED machine
       [] Exists(m) /\ machine[m].deployed ->
            Goes(o, m, "deleting") /\ SetAllocationStatus(m, "DEALLOCATING")
       [] OTHER -> Goes(o, m, "forget") /\ UNCHANGED machine
  /\ UNCHANGED vms

MachineDeleted(o, m) ==
  /\ Finishes(o, m, "deleting")
  /\ \/ Goes(o, m, "forget") /\ vms' = vms \ {m}
     \/ Fails("undeletable") /\ Goes(o, m, "failed") /\ UNCHANGED vms
  /\ UNCHANGED machine

Deallocated(o, m) ==
  /\ Finishes(o, m, "forget")
  /\ IF Exists(m)
     THEN AfterDeallocation(o, m) /\ machine' = [machine EXCEPT ![m] = NoEntry]
     ELSE Goes(o, m, "failed") /\ UNCHANGED machine
  /\ UNCHANGED vms

Allocate(o, m) ==
  LET a == IF o \in Executions THEN ActionOf(o) ELSE "none" IN
  /\ Starts(o, m, "create")
  /\ CASE ~Exists(m) ->
            /\ machine' = [machine EXCEPT ![m] = NewEntry("ALLOCATING", a)]
            /\ Goes(o, m, "creating")
       [] /\ machine[m].status = "UNINITIALIZED"
          /\ o \in Executions => machine[m].action \in {"none", a} ->
            SetAllocationStatus(m, "ALLOCATING") /\ Goes(o, m, "creating")
       [] OTHER -> Goes(o, m, "uncreated") /\ UNCHANGED machine
  /\ UNCHANGED vms

\* A machine whose entry is gone by then is not recorded.
Allocated(o, m) ==
  /\ Finishes(o, m, "creating")
  /\ \/ /\ vms' = vms \cup {m}
        /\ Goes(o, m, IF Exists(m) THEN "created" ELSE "uncreated")
        /\ machine' = [machine EXCEPT ![m] =
             IF @ = NoEntry THEN @
             ELSE [status |-> IF o \in Executions THEN "IN_USE" ELSE "AVAILABLE",
                   action |-> IF o \in Executions THEN ActionOf(o) ELSE @.action,
                   power |-> "POWERED_ON", deployed |-> TRUE]]
     \/ /\ Fails("undeployed")
        /\ Goes(o, m, "uncreated")
        /\ machine' = [machine EXCEPT ![m] =
             IF @ = NoEntry THEN @ ELSE [@ EXCEPT !.status = "ERROR_DEPLOYING"]]
        /\ UNCHANGED vms

PowerOff(o, m) ==
  /\ Starts(o, m, "off")
  /\ CASE ~Exists(m) -> Goes(o, m, "failed") /\ UNCHANGED machine
       [] machine[m].power = "POWERED_OFF" -> Goes(o, m, "done") /\ UNCHANGED machine
       [] OTHER -> Goes(o, m, "powering_off") /\ SetPowerStatus(m, "POWERING_OFF")
  /\ UNCHANGED vms

PoweredOff(o, m) ==
  /\ Finishes(o, m, "powering_off")
  /\ IF ~Exists(m) THEN Goes(o, m, "failed") /\ UNCHANGED machine
     ELSE
        /\ Goes(o, m, "done")
        /\ \/ m \in vms /\ machine' = [machine EXCEPT ![m].power = "POWERED_OFF",
                                                      ![m].status = "AVAILABLE"]
           \/ Refused(m, "unpowered_off") /\ SetAllocationStatus(m, "POWER_ERROR")
  /\ UNCHANGED vms

Task(o, m) ==
  \/ PowerOn(o, m) \/ PoweredOn(o, m)
  \/ Healthcheck(o, m) \/ Healthchecked(o, m)
  \/ Deallocate(o, m) \/ MachineDeleted(o, m) \/ Deallocated(o, m)
  \/ Allocate(o, m) \/ Allocated(o, m)
  \/ PowerOff(o, m) \/ PoweredOff(o, m)

-----------------------------------------------------------------------------
(* What the engine does with a flow once its machines are ready, or not.   *)

Settled(o) ==
  \A m \in Machines :
    job[o][m].at \in {"none"} \cup Ended \cup (IF Failing(o) THEN Waiting ELSE {})

Over(o) ==
  /\ flow' = [flow EXCEPT ![o] = IF o \in Executions THEN "over" ELSE "none"]
  /\ job' = [job EXCEPT ![o] = [m \in Machines |-> NoJob]]

MachinesSettled(o) ==
  /\ flow[o] = "machines"
  /\ Settled(o)
  /\ IF ~Failing(o) /\ o \in Refreshes THEN Over(o)
     ELSE /\ flow' = [flow EXCEPT ![o] =
                        IF Failing(o) THEN "reverting" ELSE "confirm"]
          /\ UNCHANGED job
  /\ UNCHANGED <<pool, machine, vms, execution, using, release, freeing>>

MachinesOf(e) == {m \in Machines : job[e][m] # NoJob}

\* ConfirmMinionAllocationForAction looks at each machine, and calls the
\* conductor.
ChecksMachines(e) ==
  /\ flow[e] = "confirm"
  /\ flow' = [flow EXCEPT ![e] =
       IF \A m \in MachinesOf(e) :
            machine[m] = [status |-> "IN_USE", power |-> "POWERED_ON",
                          action |-> ActionOf(e), deployed |-> TRUE]
       THEN "confirming" ELSE "reverting"]
  /\ UNCHANGED <<pool, machine, vms, execution, using, job, release, freeing>>

\* The execution which awaits machines is given those of the flow.
ConfirmMinionsAllocation(e) ==
  /\ flow[e] = "confirming"
  /\ \/ \E x \in Executions :
          /\ IsAwaited(x, e)
          /\ execution' = [execution EXCEPT ![x] = "RUNNING"]
          /\ using' = [using EXCEPT ![x] = MachinesOf(e)]
          /\ Over(e)
     \/ /\ \A x \in Executions : ~IsAwaited(x, e)
        /\ flow' = [flow EXCEPT ![e] = "reverting"]
        /\ UNCHANGED <<execution, using, job>>
  /\ UNCHANGED <<pool, machine, vms, release, freeing>>

Reversible(o) == {m \in Machines : job[o][m].at \in {"created", "uncreated"}}

\* Mutant: the machine is left on the platform.
RevertEntryOnly(o, m) ==
  /\ flow[o] = "reverting"
  /\ m \in Reversible(o)
  /\ machine' = [machine EXCEPT ![m] = NoEntry]
  /\ Goes(o, m, "reverted")
  /\ UNCHANGED <<pool, vms, execution, using, flow, release, freeing>>

\* AllocateMinionMachineTask.revert removes the entry, then the machine it named,
\* which nothing else knows of in between; if that fails for a redeployed machine,
\* the engine gives up.
RevertAllocation(o, m) ==
  /\ flow[o] = "reverting"
  /\ m \in Reversible(o)
  /\ machine' = [machine EXCEPT ![m] = NoEntry]
  /\ \/ /\ vms' = IF machine[m].deployed THEN vms \ {m} ELSE vms
        /\ Goes(o, m, "reverted")
        /\ UNCHANGED flow
     \/ /\ machine[m].deployed /\ Fails("undeletable")
        /\ IF job[o][m].kind = "new" THEN Goes(o, m, "reverted") /\ UNCHANGED flow
           ELSE Over(o)
        /\ UNCHANGED vms
  /\ UNCHANGED <<pool, execution, using, release, freeing>>

\* Mutant: the machines are not deallocated.
RevertedWithoutRelease(o) ==
  /\ flow[o] = "reverting"
  /\ Reversible(o) = {}
  /\ Over(o)
  /\ IF o \in Executions
     THEN execution' = [x \in Executions |->
                          IF IsAwaited(x, o) THEN "ENDED" ELSE execution[x]]
     ELSE UNCHANGED execution
  /\ UNCHANGED <<pool, machine, vms, using, release, freeing>>

\* Mutant: the failure is not reported.
RevertedWithoutReport(o) ==
  /\ flow[o] = "reverting"
  /\ Reversible(o) = {}
  /\ Over(o)
  /\ IF o \in Executions THEN release' = [release EXCEPT ![o] = Sent]
     ELSE UNCHANGED release
  /\ UNCHANGED <<pool, machine, vms, using, execution, freeing>>

Reverted(o) ==
  /\ flow[o] = "reverting"
  /\ Reversible(o) = {}
  /\ Over(o)
  /\ IF o \in Executions THEN ReportFailure(o) ELSE UNCHANGED <<execution, release>>
  /\ UNCHANGED <<pool, machine, vms, using, freeing>>

Flow(o) ==
  \/ \E m \in Machines : Task(o, m) \/ RevertAllocation(o, m)
  \/ MachinesSettled(o)
  \/ Reverted(o)

Requests(e) ==
  \/ MakeAllocationSubflow(e)
  \/ \E m \in freeing[e] : DeallocateMinionMachine(e, m)
  \/ ReadAllocated(e)
  \/ DeallocateMinionMachines(e)
  \/ ChecksMachines(e)
  \/ ConfirmMinionsAllocation(e)

Next ==
  \/ \E e \in Executions : \/ AllocateMinionMachines(e) \/ ExecutionEnds(e)
                           \/ \E m \in using[e] : ReleaseMinion(e, m)
                           \/ Requests(e)
  \/ \E r \in Refreshes : Refresh(r)
  \/ \E o \in Owners : Flow(o)

Spec == Init /\ [][Next]_vars

\* Flows run to their end and requests are served.
Fairness ==
  /\ \A e \in Executions : WF_vars(Flow(e) \/ Requests(e))
  /\ \A r \in Refreshes : WF_vars(Flow(r))

FairSpec == Spec /\ Fairness

-----------------------------------------------------------------------------
(* Properties.                                                             *)

\* A machine which tasks of an execution use is theirs: it is IN_USE, allocated to its
\* action only, powered on and on the platform, whatever other actions, deallocations and
\* refreshes do meanwhile, and whatever is left over from a former execution which was
\* cancelled while it waited; as long as requests are not overtaken, that is.
UsedIsHeld ==
  pool.orderly => \A e \in Executions : \A m \in using[e] :
    /\ machine[m] = [status |-> "IN_USE", power |-> "POWERED_ON",
                     action |-> ActionOf(e), deployed |-> TRUE]
    /\ m \in vms

\* ConfirmMinionAllocationForAction refuses a machine which "appears to be allocated
\* to action with ID '%s' instead of the expected '%s'": two executions never use
\* the same one.
ExclusiveUse ==
  \A e, x \in Executions : e # x => using[e] \cap using[x] = {}

\* The pool never has more machines than its maximum, as long as none fails its
\* healthcheck or to be powered on (the redeployment of a machine frees its slot for a
\* while).
PoolBound ==
  ~Fails("unhealthy") /\ ~Fails("unpowered_on") =>
    Cardinality(Entries) <= MaximumMinions

\* No machine is left on the platform without an entry that could lead to its
\* deletion, unless the platform refuses to delete it, or a late deallocation for a
\* former execution of the transfer removes the entry of a machine being created.
NoLeak ==
  (~Fails("undeletable") /\ (pool.again => pool.orderly)) => vms \subseteq Entries

\* What is on the platform is on record and within the pool's maximum, as far as its
\* faults allow: flows create, redeploy, delete and revert machines together with
\* their entries (AllocateMinionMachineTask, DeallocateMinionMachineTask).
MachinesAccountedFor == TypeOK /\ PoolBound /\ NoLeak

\* Every execution gets its machines, or an error: the flow runs to its end and
\* reports (ConfirmMinionAllocation, ReportMinionAllocationFailure).  A transfer which
\* is executed again while the flow of its last execution goes on may get the machines
\* of that flow, or its error.
AllocationEnds ==
  \A e \in Executions : execution[e] = "AWAITING" ~> execution[e] # "AWAITING"

\* The machines of an action whose executions are over are given back, also those of an
\* execution cancelled before it had them, whose deallocation nobody asks for.
Released ==
  \A e \in Executions :
    execution[e] = "ENDED" ~>
      \/ \E x \in SameAction(e) : execution[x] \in {"AWAITING", "RUNNING"}
      \/ \A m \in Machines : machine[m].action # ActionOf(e)
=============================================================================

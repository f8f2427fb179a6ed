------------------------ MODULE MinionMachinesProofs ------------------------
(***************************************************************************)
(* Proofs about the machines of a minion pool: however many machines,      *)
(* executions and refreshes there are, the machines which an execution     *)
(* uses are its own, what is on the platform is on record, and the pool    *)
(* keeps to its maximum.                                                   *)
(***************************************************************************)
EXTENDS MinionMachines, TLAPS

\* No machine has to be redeployed: none fails its healthcheck or to be powered on.
Calm == ~Fails("unhealthy") /\ ~Fails("unpowered_on")

\* A refresh meets no machine which has to be redeployed, and requests are not overtaken.
Sound == pool.orderly /\ (pool.refreshed => Calm)

-----------------------------------------------------------------------------
(* The inductive invariant.  What is the case with a machine is said by    *)
(* its entry, by who works on it and by whether it is on the platform.     *)

Rows ==
  {NoEntry} \cup [status : MachineStatuses, power : PowerStatuses,
                  action : Executions \cup {"none"}, deployed : BOOLEAN]

Typed ==
  /\ pool \in Scenarios
  /\ machine \in [Machines -> Rows]
  /\ vms \subseteq Machines
  /\ execution \in [Executions -> {"none", "AWAITING", "RUNNING", "ENDED"}]
  /\ using \in [Executions -> SUBSET Machines]
  /\ flow \in [Owners -> FlowPlaces]
  /\ job \in [Owners -> [Machines -> Jobs]]
  /\ release \in [Executions -> [at : {"none", "sent", "read", "over"},
                              listed : SUBSET Machines,
                              fresh : SUBSET Machines]]
  /\ freeing \in [Executions -> SUBSET Machines]

Busy(e) ==
  execution[e] \in {"AWAITING", "RUNNING"} \/ flow[e] \notin {"none", "over"}

Releasing(e) == release[e].at \in {"sent", "read"}

\* Of the executions of an action one at a time has requests which are being handled,
\* and its machines are deallocated when there is none.
Ordered(e, x) ==
  /\ Busy(e) => ~Releasing(x)
  /\ e # x => /\ ~(Busy(e) /\ Busy(x))
              /\ ~(Releasing(e) /\ Releasing(x))
              /\ Busy(e) => freeing[x] = {}
              /\ freeing[e] = {} \/ freeing[x] = {}
  /\ release[e].at = "read" => freeing[x] = {}

InOrder == \A e \in Executions : \A x \in SameAction(e) : Ordered(e, x)

Gone(m) == machine[m].status = "none"

InUse(e, m) ==
  /\ machine[m].status = "IN_USE" /\ machine[m].power = "POWERED_ON"
  /\ machine[m].action = ActionOf(e) /\ machine[m].deployed

Undeployed(e, m, status) ==
  /\ machine[m].status = status /\ machine[m].power = "UNINITIALIZED"
  /\ machine[m].action = ActionOf(e) /\ ~machine[m].deployed

OfAction(e, m, statuses) ==
  machine[m].action = ActionOf(e) /\ machine[m].status \in statuses

Stage(e) ==
  /\ execution[e] = "none" => flow[e] = "none"
  /\ execution[e] = "RUNNING" => flow[e] = "over" /\ release[e].at = "none"
  /\ execution[e] # "RUNNING" => using[e] = {}
  /\ flow[e] # "over" => release[e].at = "none" /\ freeing[e] = {}
  /\ flow[e] \in {"none", "requested", "over"} =>
       \A m \in Machines : job[e][m].at = "none"
  /\ flow[e] = "reverting" => \A m \in Machines : job[e][m].at \notin Working
  /\ flow[e] \in {"confirm", "confirming"} =>
       \A m \in Machines : job[e][m].at \in {"none", "done", "created"}
  /\ flow[e] = "confirming" =>
       \A m \in Machines : job[e][m].at # "none" => InUse(e, m)

Stages == \A e \in Executions : Stage(e)

RefreshStage(r) ==
  /\ flow[r] \in {"none", "machines", "reverting"}
  /\ flow[r] = "none" => \A m \in Machines : job[r][m].at = "none"
  /\ flow[r] # "none" => pool.refreshed
  /\ flow[r] = "reverting" => \A m \in Machines : job[r][m].at \notin Working

RefreshStages == \A r \in Refreshes : RefreshStage(r)

\* A machine which is used, or about to be given back, is held by its execution, and a
\* deallocation is about what is allocated to its action.
HeldBy(e) ==
  /\ using[e] \cap freeing[e] = {}
  /\ \A m \in using[e] \cup freeing[e] : InUse(e, m)
  /\ release[e].at = "read" =>
       /\ release[e].listed = {m \in Machines : machine[m].action = ActionOf(e)}
       /\ release[e].fresh =
            {m \in Machines : machine[m].action = ActionOf(e)
                              /\ machine[m].status = "UNINITIALIZED"}

Held == \A e \in Executions : HeldBy(e)

\* The places of a job at which its flow has the machine.
Places ==
  Waiting \cup Working \cup {"created", "uncreated"}

Live(o, m) ==
  job[o][m].at \in Places \cup (IF o \in Executions THEN {"done", "failed"} ELSE {})

Redeploys == {"dealloc", "deleting", "forget", "failed"}

\* The entry of a machine which the flow of an execution has.
ExecutionFits(e, m) ==
  LET at == job[e][m].at
      heal == job[e][m].kind = "heal"
  IN
  /\ job[e][m].kind # "retire" /\ at \notin {"off", "powering_off"}
  /\ at \in {"power", "powering", "check", "checking", "done"} \cup Redeploys => heal
  /\ at = "power" => OfAction(e, m, {"RESERVED"}) /\ machine[m].power = "POWERED_OFF"
  /\ at \in {"powering", "checking"} => OfAction(e, m, {"RESERVED"})
  /\ at = "check" => OfAction(e, m, {"RESERVED", "POWER_ERROR"})
  /\ at \in {"power", "powering", "check", "checking"} /\ Calm =>
       machine[m].deployed /\ machine[m].status = "RESERVED"
  /\ at \in Redeploys => ~Calm /\ OfAction(e, m, {"ERROR", "POWER_ERROR", "DEALLOCATING"})
  /\ at = "deleting" => machine[m].deployed
  /\ at = "done" => OfAction(e, m, {"IN_USE"}) /\ machine[m].deployed
  /\ at \in {"create", "creating", "created", "uncreated"} /\ heal => ~Calm
  /\ at = "create" => IF heal THEN Gone(m) /\ m \notin vms
                      ELSE Undeployed(e, m, "UNINITIALIZED")
  /\ at = "creating" => Undeployed(e, m, "ALLOCATING")
  /\ at = "created" => InUse(e, m)
  /\ at = "uncreated" =>
       /\ m \notin vms /\ ~machine[m].deployed
       /\ \/ Gone(m) /\ pool.refreshed
          \/ OfAction(e, m, {"ERROR_DEPLOYING"})
          \/ /\ pool.refreshed
             /\ OfAction(e, m, {"DEALLOCATING", "POWERING_OFF", "POWER_ERROR"})

\* A refresh retires a machine whose creation has failed, before or after the flow which
\* has tried to create it reverts that.
Ghost(m) ==
  /\ m \notin vms
  /\ \/ Gone(m)
     \/ /\ ~machine[m].deployed
        /\ machine[m].status \in {"DEALLOCATING", "POWERING_OFF"}
        /\ \E e \in Executions : job[e][m].at = "uncreated"
                                 /\ machine[m].action = ActionOf(e)

Idling(m, status) ==
  machine[m].action = "none" /\ machine[m].deployed /\ machine[m].status = status

\* The entry of a machine which a refresh has.
RefreshFits(r, m) ==
  LET at == job[r][m].at IN
  /\ job[r][m].kind # "new"
  /\ job[r][m].kind = "heal" => at \in {"check", "checking", "done"}
  /\ job[r][m].kind = "retire" =>
       at \in {"dealloc", "deleting", "forget", "off", "powering_off", "done", "failed"}
  /\ at \in {"check", "checking"} =>
       Idling(m, "HEALTHCHECKING") /\ machine[m].power = "POWERED_ON"
  /\ at = "deleting" => Idling(m, "DEALLOCATING")
  /\ at \in {"dealloc", "forget"} => Ghost(m) \/ Idling(m, "DEALLOCATING")
  /\ at \in {"off", "powering_off"} =>
       /\ pool.retention = "poweroff"
       /\ Ghost(m) \/ Idling(m, "POWERING_OFF")
  /\ at = "powering_off" => Gone(m) \/ machine[m].power = "POWERING_OFF"

\* No two flows have the same machine, but for one whose creation has failed.
Apart(m) ==
  \A o, p \in Owners : o # p /\ Live(o, m) /\ Live(p, m) =>
    \/ o \in Executions /\ p \in Refreshes /\ job[o][m].at = "uncreated"
    \/ p \in Executions /\ o \in Refreshes /\ job[p][m].at = "uncreated"

RowFits(m) ==
  /\ ~Gone(m) =>
       (m \in vms <=> machine[m].deployed /\ \A o \in Owners : job[o][m].at # "forget")
  /\ Gone(m) /\ m \in vms => Fails("undeletable")
  /\ machine[m].status = "AVAILABLE" =>
       machine[m].action = "none" /\ \A o \in Owners : ~Live(o, m)
  /\ machine[m].status = "UNINITIALIZED" => ~machine[m].deployed
  /\ machine[m].status = "ERROR_DEPLOYING" => machine[m].power = "UNINITIALIZED"

\* Where nothing is redeployed, a machine which an action has, or which is available, is
\* there, is on or off, and no error is left behind but that of powering it off.
RowCalm(m) ==
  /\ machine[m].status # "ERROR"
  /\ machine[m].status = "AVAILABLE" =>
       machine[m].deployed /\ machine[m].power \in {"POWERED_ON", "POWERED_OFF"}
  /\ machine[m].status = "POWER_ERROR" =>
       machine[m].power = "POWERING_OFF" /\ pool.retention = "poweroff"
  /\ machine[m].status = "ERROR_DEPLOYING" =>
       \E e \in Executions : job[e][m].at = "uncreated"
  /\ machine[m].action # "none" =>
       IF machine[m].deployed
       THEN machine[m].power \in {"POWERED_ON", "POWERED_OFF"}
            \/ \E e \in Executions : job[e][m].at = "powering"
       ELSE machine[m].status = "UNINITIALIZED" \/ \E e \in Executions : Live(e, m)

MachineInv(m) ==
  /\ \A e \in Executions : ExecutionFits(e, m)
  /\ \A r \in Refreshes : RefreshFits(r, m)
  /\ Apart(m)
  /\ RowFits(m)
  /\ Calm => RowCalm(m)

Inv ==
  /\ Sound /\ Typed /\ InOrder /\ Stages /\ RefreshStages /\ Held
  /\ \A m \in Machines : MachineInv(m)

\* What every step does but the one which adds machines to the pool.
NoneAdded == Calm => Entries' \subseteq Entries

Keeps == Inv' /\ NoneAdded

-----------------------------------------------------------------------------
(* What the operators of the model come to.                                *)

\* Most steps below are first-order consequences of a few facts: Zenon is tried first, and
\* the steps which need records, functions or arithmetic name SMT.
USE Zenon

\* Whom machines are allocated to.
LEMMA ActionFacts ==
  ASSUME NEW e \in Executions
  PROVE  /\ ActionOf(e) \in Executions /\ ActionOf(e) # "none"
         /\ e \in SameAction(e) /\ e \in Owners /\ e \notin Refreshes
         /\ \A x \in Executions : x \in SameAction(e) <=> ActionOf(x) = ActionOf(e)
BY MinionMachinesAssumption DEF ActionOf, SameAction, Owners

LEMMA RefreshFacts ==
  ASSUME NEW r \in Refreshes
  PROVE  r \in Owners /\ r \notin Executions
BY MinionMachinesAssumption DEF Owners

\* The fields of an entry say whether there is one.
LEMMA RowFacts ==
  ASSUME NEW row \in Rows
  PROVE  row = NoEntry <=> row.status = "none"
BY SMT DEF Rows, NoEntry, MachineStatuses

LEMMA EntryFacts ==
  ASSUME machine \in [Machines -> Rows], NEW m \in Machines
  PROVE  /\ machine[m] \in Rows /\ (Exists(m) <=> ~Gone(m))
         /\ Gone(m) => /\ machine[m] = NoEntry
                       /\ machine[m].action = "none" /\ ~machine[m].deployed
                       /\ machine[m].power = "none"
         /\ ~Gone(m) => /\ machine[m].status \in MachineStatuses
                        /\ machine[m].power \in PowerStatuses
                        /\ machine[m].action \in Executions \cup {"none"}
                        /\ machine[m].deployed \in BOOLEAN
BY SMT DEF Rows, Exists, Gone, NoEntry, MachineStatuses

\* The place of a job says whether there is one.
LEMMA JobFacts ==
  ASSUME job \in [Owners -> [Machines -> Jobs]], NEW o \in Owners, NEW m \in Machines
  PROVE  /\ job[o][m] \in Jobs /\ (job[o][m] = NoJob <=> job[o][m].at = "none")
         /\ job[o][m].at # "none" =>
              /\ job[o][m].kind \in {"new", "heal", "retire"}
              /\ job[o][m].at \in Waiting \cup Working \cup Ended \cup {"reverted"}
BY SMT DEF Jobs, NoJob, Waiting, Working, Ended, Failed

\* A job goes on, and nothing else is done.
LEMMA GoesFacts ==
  ASSUME job \in [Owners -> [Machines -> Jobs]], NEW o \in Owners, NEW m \in Machines,
         NEW place \in Waiting \cup Working \cup Ended \cup {"reverted"},
         job[o][m].at # "none", Goes(o, m, place)
  PROVE  /\ job' \in [Owners -> [Machines -> Jobs]]
         /\ job'[o][m].at = place /\ job'[o][m].kind = job[o][m].kind
         /\ \A p \in Owners : \A n \in Machines :
              p # o \/ n # m => job'[p][n] = job[p][n]
<1> DEFINE new == [job[o][m] EXCEPT !.at = place]
<1>1. /\ job[o][m].kind \in {"new", "heal", "retire"}
      /\ job[o][m] = [kind |-> job[o][m].kind, at |-> job[o][m].at]
  BY SMT DEF Jobs, NoJob
<1>2. new = [kind |-> job[o][m].kind, at |-> place]
  BY SMT, <1>1
<1>3. new \in Jobs
  BY <1>1, <1>2 DEF Jobs
<1>4. job' = [job EXCEPT ![o] = [job[o] EXCEPT ![m] = new]]
  BY DEF Goes
<1> HIDE DEF new
<1>5. job'[o] = [job[o] EXCEPT ![m] = new] /\ \A p \in Owners : p # o => job'[p] = job[p]
  BY <1>4
<1>6. job'[o][m] = new
  BY <1>5
<1> QED
  BY <1>2, <1>3, <1>4, <1>5, <1>6

\* The entry of a machine is written, and no other.
LEMMA EntryWritten ==
  ASSUME machine \in [Machines -> Rows], NEW m \in Machines, NEW row \in Rows,
         machine' = [machine EXCEPT ![m] = row]
  PROVE  /\ machine' \in [Machines -> Rows] /\ machine'[m] = row
         /\ \A n \in Machines : n # m => machine'[n] = machine[n]
OBVIOUS

LEMMA StatusSet ==
  ASSUME machine \in [Machines -> Rows], NEW m \in Machines, ~Gone(m),
         NEW status \in MachineStatuses, SetAllocationStatus(m, status)
  PROVE  /\ machine' \in [Machines -> Rows]
         /\ machine'[m].status = status /\ machine'[m].power = machine[m].power
         /\ machine'[m].action = machine[m].action
         /\ machine'[m].deployed = machine[m].deployed
         /\ \A n \in Machines : n # m => machine'[n] = machine[n]
<1>1. PICK row : row = [machine[m] EXCEPT !.status = status]
  OBVIOUS
<1>2. machine[m] \in [status : MachineStatuses, power : PowerStatuses,
                      action : Executions \cup {"none"}, deployed : BOOLEAN]
  BY SMT, EntryFacts DEF Rows, Gone, NoEntry
<1>3. /\ row \in Rows /\ row.status = status /\ row.power = machine[m].power
      /\ row.action = machine[m].action /\ row.deployed = machine[m].deployed
  BY <1>1, <1>2 DEF Rows
<1>4. machine' = [machine EXCEPT ![m] = row]
  BY <1>1 DEF SetAllocationStatus
<1> QED
  BY <1>3, <1>4, EntryWritten

LEMMA PowerSet ==
  ASSUME machine \in [Machines -> Rows], NEW m \in Machines, ~Gone(m),
         NEW power \in PowerStatuses, SetPowerStatus(m, power)
  PROVE  /\ machine' \in [Machines -> Rows]
         /\ machine'[m].power = power /\ machine'[m].status = machine[m].status
         /\ machine'[m].action = machine[m].action
         /\ machine'[m].deployed = machine[m].deployed
         /\ \A n \in Machines : n # m => machine'[n] = machine[n]
<1>1. PICK row : row = [machine[m] EXCEPT !.power = power]
  OBVIOUS
<1>2. machine[m] \in [status : MachineStatuses, power : PowerStatuses,
                      action : Executions \cup {"none"}, deployed : BOOLEAN]
  BY SMT, EntryFacts DEF Rows, Gone, NoEntry
<1>3. /\ row \in Rows /\ row.power = power /\ row.status = machine[m].status
      /\ row.action = machine[m].action /\ row.deployed = machine[m].deployed
  BY <1>1, <1>2 DEF Rows
<1>4. machine' = [machine EXCEPT ![m] = row]
  BY <1>1 DEF SetPowerStatus
<1> QED
  BY <1>3, <1>4, EntryWritten

\* An entry which is given to an action or taken from it, and a new one.
LEMMA ForActionFacts ==
  ASSUME NEW entry, entry = [status |-> entry.status, power |-> entry.power,
                             action |-> entry.action, deployed |-> entry.deployed],
         NEW status, NEW a
  PROVE  ForAction(status, a, entry) =
           [status |-> status, power |-> entry.power, action |-> a,
            deployed |-> entry.deployed]
<1>1. PICK row : row = ForAction(status, a, entry)
  OBVIOUS
<1>2. DOMAIN entry = {"status", "power", "action", "deployed"}
  OBVIOUS
<1>3. DOMAIN row = {"status", "power", "action", "deployed"}
  BY <1>1, <1>2, Zenon DEF ForAction
<1>4. row.status = status /\ row.action = a
  BY <1>1, <1>2 DEF ForAction
<1>5. row.power = entry.power /\ row.deployed = entry.deployed
  BY <1>1, <1>2 DEF ForAction
<1>6. row = [f \in DOMAIN row |-> row[f]]
  BY <1>1, Zenon DEF ForAction
<1> QED
  BY <1>1, <1>3, <1>4, <1>5, <1>6

LEMMA NewEntryFacts ==
  ASSUME NEW a \in Executions, NEW status \in {"UNINITIALIZED", "ALLOCATING"}
  PROVE  /\ NewEntry(status, a) \in Rows
         /\ NewEntry(status, a) = [status |-> status, power |-> "UNINITIALIZED",
                                   action |-> a, deployed |-> FALSE]
<1>1. PICK entry : entry = [NoEntry EXCEPT !.power = "UNINITIALIZED"]
  OBVIOUS
<1>2. entry = [status |-> "none", power |-> "UNINITIALIZED", action |-> "none",
               deployed |-> FALSE]
  <2>1. DOMAIN entry = {"status", "power", "action", "deployed"}
    BY <1>1 DEF NoEntry
  <2>2. /\ entry.status = "none" /\ entry.power = "UNINITIALIZED"
        /\ entry.action = "none" /\ entry.deployed = FALSE
    BY <1>1 DEF NoEntry
  <2>3. entry = [f \in DOMAIN entry |-> entry[f]]
    BY <1>1, Zenon
  <2> QED
    BY <2>1, <2>2, <2>3
<1>3. NewEntry(status, a) = ForAction(status, a, entry)
  BY <1>1 DEF NewEntry
<1>4. NewEntry(status, a) = [status |-> status, power |-> "UNINITIALIZED",
                             action |-> a, deployed |-> FALSE]
  <2>1. /\ entry.power = "UNINITIALIZED" /\ entry.deployed = FALSE
        /\ entry = [status |-> entry.status, power |-> entry.power,
                    action |-> entry.action, deployed |-> entry.deployed]
    BY <1>2
  <2>2. ForAction(status, a, entry) =
          [status |-> status, power |-> entry.power, action |-> a,
           deployed |-> entry.deployed]
    BY <2>1, ForActionFacts
  <2> QED
    BY <1>3, <2>1, <2>2
<1> QED
  BY SMT, <1>4 DEF Rows, MachineStatuses, PowerStatuses

LEMMA GivenEntryFacts ==
  ASSUME machine \in [Machines -> Rows], NEW m \in Machines, ~Gone(m),
         NEW a \in Executions \cup {"none"}, NEW status \in MachineStatuses
  PROVE  /\ ForAction(status, a, machine[m]) \in Rows
         /\ ForAction(status, a, machine[m]) =
              [status |-> status, power |-> machine[m].power, action |-> a,
               deployed |-> machine[m].deployed]
<1>1. machine[m] \in [status : MachineStatuses, power : PowerStatuses,
                      action : Executions \cup {"none"}, deployed : BOOLEAN]
  BY SMT, EntryFacts DEF Rows, Gone, NoEntry
<1>2. PICK entry : entry = machine[m]
  OBVIOUS
<1>3. ForAction(status, a, entry) =
        [status |-> status, power |-> entry.power, action |-> a,
         deployed |-> entry.deployed]
  BY <1>1, <1>2, ForActionFacts
<1> QED
  BY SMT, <1>1, <1>2, <1>3 DEF Rows

-----------------------------------------------------------------------------
(* What a step leaves alone, and who has a machine.                        *)

\* An execution whose machines are being confirmed has them in use.
LEMMA StageInUse ==
  ASSUME NEW x \in Executions, Stage(x), flow[x] = "confirming", NEW m \in Machines,
         job[x][m].at # "none"
  PROVE  InUse(x, m)
BY SMT DEF Stage

\* An execution which is no longer running, whose flow is over and which uses no machine.
LEMMA StageOver ==
  ASSUME NEW x \in Executions, Stage(x), flow[x] = "over", flow'[x] = "over",
         job'[x] = job[x], execution'[x] \notin {"none", "RUNNING"}, using'[x] = {}
  PROVE  Stage(x)'
BY SMT DEF Stage

\* A step which leaves the flow of an execution, its tasks and its record alone, and starts
\* no deallocation of it, leaves it in its stage.
LEMMA StageKept ==
  ASSUME NEW x \in Executions, Stage(x), flow'[x] = flow[x], job'[x] = job[x],
         execution'[x] = execution[x], using'[x] = using[x],
         release[x].at = "none" => release'[x].at = "none",
         freeing[x] = {} => freeing'[x] = {},
         ASSUME flow[x] = "confirming", NEW m \in Machines, job[x][m].at # "none"
         PROVE  InUse(x, m)'
  PROVE  Stage(x)'
<1>1. flow'[x] = "confirming" => \A m \in Machines : job'[x][m].at # "none" => InUse(x, m)'
  OBVIOUS
<1> QED
  BY SMT, <1>1 DEF Stage

\* What is the case with a machine is only about its entry, its jobs and whether it is
\* on the platform.
LEMMA MachineKept ==
  ASSUME NEW m \in Machines, MachineInv(m), UNCHANGED pool, machine'[m] = machine[m],
         m \in vms' <=> m \in vms, \A o \in Owners : job'[o][m] = job[o][m]
  PROVE  MachineInv(m)'
<1>1. /\ Calm' = Calm /\ (Gone(m)' <=> Gone(m))
      /\ \A o \in Owners : Live(o, m)' <=> Live(o, m)
      /\ \A e \in Executions : job'[e][m] = job[e][m]
      /\ \A r \in Refreshes : job'[r][m] = job[r][m]
  BY DEF Calm, Fails, Gone, Live, Owners
<1>2. ASSUME NEW e \in Executions
      PROVE  ExecutionFits(e, m)'
  <2>1. ExecutionFits(e, m)
    BY DEF MachineInv
  <2> QED
    BY <1>1, <2>1 DEF ExecutionFits, OfAction, Undeployed, InUse, ActionOf
<1>3. ASSUME NEW r \in Refreshes
      PROVE  RefreshFits(r, m)'
  <2>1. RefreshFits(r, m)
    BY DEF MachineInv
  <2> QED
    BY <1>1, <2>1 DEF RefreshFits, Ghost, Idling, ActionOf
<1>4. Apart(m)'
  BY <1>1 DEF MachineInv, Apart
<1>5. RowFits(m)'
  BY <1>1 DEF MachineInv, RowFits, Fails
<1>6. Calm' => RowCalm(m)'
  <2>1. \A e \in Executions : Live(e, m)' <=> Live(e, m)
    BY <1>1 DEF Owners
  <2> QED
    BY <1>1, <2>1 DEF MachineInv, RowCalm
<1> QED
  BY <1>2, <1>3, <1>4, <1>5, <1>6 DEF MachineInv

\* A flow which does not have a machine is at no place at which it says something about
\* its entry.
LEMMA ExecutionGone ==
  ASSUME NEW e \in Executions, NEW m \in Machines, ExecutionFits(e, m), ~Live(e, m),
         job'[e][m] = job[e][m]
  PROVE  ExecutionFits(e, m)' /\ ~Live(e, m)'
<1>1. job[e][m].at \notin Places \cup {"done", "failed"}
  BY DEF Live
<1>2. job[e][m].kind # "retire" /\ job[e][m].at \notin {"off", "powering_off"}
  BY DEF ExecutionFits
<1>3. ~Live(e, m)'
  BY <1>1 DEF Live
<1> QED
  BY <1>1, <1>2, <1>3 DEF ExecutionFits, Places, Waiting, Working, Redeploys

LEMMA RefreshGone ==
  ASSUME NEW r \in Refreshes, NEW m \in Machines, RefreshFits(r, m), ~Live(r, m),
         job'[r][m] = job[r][m]
  PROVE  RefreshFits(r, m)' /\ ~Live(r, m)'
<1>1. job[r][m].at \notin Places
  BY DEF Live
<1>2. /\ job[r][m].kind # "new"
      /\ job[r][m].kind = "heal" => job[r][m].at \in {"check", "checking", "done"}
      /\ job[r][m].kind = "retire" =>
           job[r][m].at \in {"dealloc", "deleting", "forget", "off", "powering_off",
                             "done", "failed"}
  BY DEF RefreshFits
<1>3. ~Live(r, m)'
  BY <1>1, RefreshFacts DEF Live
<1> QED
  BY <1>1, <1>2, <1>3 DEF RefreshFits, Places, Waiting, Working

\* While the flow of an execution goes on nothing is used, given back or deallocated for
\* its action.
LEMMA FlowAlone ==
  ASSUME Inv, NEW e \in Executions, NEW x \in Executions, ActionOf(x) = ActionOf(e),
         flow[e] \notin {"none", "over"}
  PROVE  using[x] = {} /\ freeing[x] = {} /\ ~Releasing(x)
<1>1. Busy(e) /\ x \in SameAction(e) /\ e \in SameAction(e)
  BY ActionFacts DEF Busy
<1>2. ~Releasing(x) /\ (x # e => ~Busy(x) /\ freeing[x] = {})
  BY <1>1 DEF Inv, InOrder, Ordered
<1>3. flow[e] # "over" => execution[e] # "RUNNING" /\ freeing[e] = {}
  BY DEF Inv, Stages, Stage
<1>4. execution[x] # "RUNNING"
  BY <1>2, <1>3 DEF Busy
<1>5. using[x] = {}
  BY <1>4 DEF Inv, Stages, Stage
<1> QED
  BY <1>2, <1>3, <1>5

\* A flow which has a machine goes on, and the machine is its action's or is not there.
LEMMA ExecutionHas ==
  ASSUME Inv, NEW e \in Executions, NEW m \in Machines, Live(e, m)
  PROVE  /\ flow[e] \notin {"none", "requested", "over"}
         /\ Gone(m) \/ machine[m].action = ActionOf(e)
<1>1. job[e][m].at \in Places \cup {"done", "failed"}
  BY DEF Live
<1>2. job[e][m].at # "none"
  BY <1>1 DEF Places, Waiting, Working
<1>3. flow[e] \notin {"none", "requested", "over"}
  BY <1>2 DEF Inv, Stages, Stage
<1>4. ExecutionFits(e, m)
  BY DEF Inv, MachineInv
<1> QED
  BY <1>1, <1>3, <1>4 DEF ExecutionFits, Places, Waiting, Working, Redeploys, OfAction,
     Undeployed, InUse

LEMMA RefreshHas ==
  ASSUME Inv, NEW r \in Refreshes, NEW m \in Machines, Live(r, m)
  PROVE  /\ pool.refreshed /\ Calm /\ flow[r] # "none"
         /\ \/ Gone(m) /\ m \notin vms
            \/ machine[m].action = "none" /\ machine[m].deployed
            \/ /\ m \notin vms /\ ~machine[m].deployed
               /\ \E e \in Executions : job[e][m].at = "uncreated"
                                        /\ machine[m].action = ActionOf(e)
<1>1. job[r][m].at \in Places
  BY RefreshFacts DEF Live
<1>2. job[r][m].at # "none"
  BY <1>1 DEF Places, Waiting, Working
<1>3. flow[r] # "none" /\ pool.refreshed /\ Calm
  BY <1>2 DEF Inv, RefreshStages, RefreshStage, Sound
<1>4. RefreshFits(r, m) /\ job[r][m].kind \in {"new", "heal", "retire"}
  BY <1>2, JobFacts, RefreshFacts DEF Inv, MachineInv, Typed
<1> QED
  BY <1>1, <1>3, <1>4 DEF RefreshFits, Places, Waiting, Working, Ghost, Idling

\* A machine which a flow has is used by no execution, and is not about to be given back
\* or deallocated.
LEMMA NotHeld ==
  ASSUME Inv, NEW o \in Owners, NEW m \in Machines, Live(o, m), NEW x \in Executions
  PROVE  /\ m \notin using[x] \cup freeing[x]
         /\ release[x].at = "read" => machine[m].action # ActionOf(x)
<1>1. SUFFICES ASSUME machine[m].action = ActionOf(x)
               PROVE  m \notin using[x] \cup freeing[x] /\ release[x].at # "read"
  <2>1. m \in using[x] \cup freeing[x] => machine[m].action = ActionOf(x)
    BY DEF Inv, Held, HeldBy, InUse
  <2> QED
    BY <2>1
<1>2. ~Gone(m)
  BY <1>1, EntryFacts, ActionFacts DEF Inv, Typed
<1>3. ASSUME NEW e \in Executions, Live(e, m)
      PROVE  m \notin using[x] \cup freeing[x] /\ release[x].at # "read"
  <2>1. ActionOf(x) = ActionOf(e) /\ flow[e] \notin {"none", "over"}
    BY <1>1, <1>2, <1>3, ExecutionHas
  <2> QED
    BY <2>1, FlowAlone DEF Releasing
<1>4. CASE o \in Refreshes
  <2>1. PICK e \in Executions : job[e][m].at = "uncreated"
    BY <1>1, <1>2, <1>4, RefreshHas, ActionFacts
  <2>2. Live(e, m)
    BY <2>1 DEF Live, Places
  <2> QED
    BY <1>3, <2>2
<1> QED
  BY <1>3, <1>4 DEF Owners

\* An execution whose flow has a machine shares it only if its creation has failed.
LEMMA ExecutionAlone ==
  ASSUME Inv, NEW e \in Executions, NEW m \in Machines, Live(e, m), NEW o \in Owners,
         o # e, Live(o, m)
  PROVE  job[e][m].at = "uncreated" /\ o \in Refreshes
<1>1. Apart(m) /\ e \in Owners /\ e \notin Refreshes
  BY ActionFacts DEF Inv, MachineInv
<1> QED
  BY <1>1 DEF Apart

LEMMA RefreshAlone ==
  ASSUME Inv, NEW r \in Refreshes, NEW m \in Machines, Live(r, m), NEW o \in Owners,
         o # r, Live(o, m)
  PROVE  job[o][m].at = "uncreated" /\ o \in Executions
<1>1. Apart(m) /\ r \in Owners /\ r \notin Executions
  BY RefreshFacts DEF Inv, MachineInv
<1> QED
  BY <1>1 DEF Apart

-----------------------------------------------------------------------------
(* Tasks: the flow o does something with the machine m.                    *)

Touches(o, m) ==
  /\ UNCHANGED <<pool, execution, using, flow, release, freeing>>
  /\ machine' \in [Machines -> Rows]
  /\ \A n \in Machines : n # m => machine'[n] = machine[n]
  /\ vms' \subseteq Machines
  /\ \A n \in Machines : n # m => (n \in vms' <=> n \in vms)
  /\ job' \in [Owners -> [Machines -> Jobs]]
  /\ \A p \in Owners : \A n \in Machines : p # o \/ n # m => job'[p][n] = job[p][n]

\* What an execution uses, and what is deallocated for it, is not concerned when the
\* entries of other machines change.
LEMMA HeldChanged ==
  ASSUME Inv, NEW e \in Executions, UNCHANGED pool, NEW C,
         \A n \in Machines : n \notin C => machine'[n] = machine[n],
         using'[e] \cup freeing'[e] \subseteq using[e] \cup freeing[e],
         using'[e] \cap freeing'[e] = {}, (using'[e] \cup freeing'[e]) \cap C = {},
         release'[e] = release[e] \/ release'[e].at # "read",
         release'[e].at = "read" =>
           \A n \in C : machine[n].action # ActionOf(e) /\ machine'[n].action # ActionOf(e)
  PROVE  HeldBy(e)'
<1>1. HeldBy(e) /\ using[e] \subseteq Machines /\ freeing[e] \subseteq Machines
  BY DEF Inv, Held, Typed
<1>2. ActionOf(e)' = ActionOf(e)
  BY DEF ActionOf
<1>3. \A n \in using'[e] \cup freeing'[e] : InUse(e, n)'
  BY SMT, <1>1, <1>2 DEF HeldBy, InUse
<1>4. ASSUME release'[e].at = "read"
      PROVE  /\ release'[e].listed = {n \in Machines : machine'[n].action = ActionOf(e)}
             /\ release'[e].fresh =
                  {n \in Machines : machine'[n].action = ActionOf(e)
                                    /\ machine'[n].status = "UNINITIALIZED"}
  <2>1. /\ release'[e].listed = {n \in Machines : machine[n].action = ActionOf(e)}
        /\ release'[e].fresh =
             {n \in Machines : machine[n].action = ActionOf(e)
                               /\ machine[n].status = "UNINITIALIZED"}
    BY <1>1, <1>4 DEF HeldBy
  <2>2. \A n \in Machines :
          /\ machine'[n].action = ActionOf(e) <=> machine[n].action = ActionOf(e)
          /\ machine[n].action = ActionOf(e) => machine'[n] = machine[n]
    BY <1>4
  <2> QED
    BY <2>1, <2>2
<1> QED
  BY <1>2, <1>3, <1>4 DEF HeldBy

LEMMA HeldTouched ==
  ASSUME Inv, NEW o \in Owners, NEW m \in Machines, Live(o, m),
         UNCHANGED <<pool, using, freeing, release>>,
         \A n \in Machines : n # m => machine'[n] = machine[n],
         \/ machine'[m].action \in {"none", machine[m].action}
         \/ o \in Executions /\ machine'[m].action = ActionOf(o)
  PROVE  Held'
<1>1. ASSUME NEW e \in Executions
      PROVE  HeldBy(e)'
  <2>1. /\ m \notin using[e] \cup freeing[e]
        /\ release[e].at = "read" => machine[m].action # ActionOf(e)
    BY NotHeld
  <2>2. ASSUME release[e].at = "read"
        PROVE  machine'[m].action # ActionOf(e)
    <3>1. ASSUME o \in Executions, ActionOf(o) = ActionOf(e)
          PROVE  FALSE
      BY <2>2, <3>1, FlowAlone, ExecutionHas DEF Releasing
    <3> QED
      BY <2>1, <2>2, <3>1, ActionFacts
  <2>3. using[e] \cap freeing[e] = {}
    BY DEF Inv, Held, HeldBy
  <2>4. PICK C : C = {m}
    OBVIOUS
  <2>5. /\ \A n \in Machines : n \notin C => machine'[n] = machine[n]
        /\ (using'[e] \cup freeing'[e]) \cap C = {}
        /\ release'[e].at = "read" =>
             \A n \in C : machine[n].action # ActionOf(e) /\ machine'[n].action # ActionOf(e)
    BY <2>1, <2>2, <2>4
  <2> QED
    BY <2>3, <2>5, HeldChanged
<1> QED
  BY <1>1 DEF Held

\* A task does not disturb anything but the machine it is about.
LEMMA TaskStep ==
  ASSUME Inv, NEW o \in Owners, NEW m \in Machines, Live(o, m), Touches(o, m),
         \/ flow[o] = "machines"
         \/ flow[o] = "reverting" /\ job'[o][m].at \notin Working,
         MachineInv(m)', Calm /\ Gone(m) => Gone(m)',
         \/ machine'[m].action \in {"none", machine[m].action}
         \/ o \in Executions /\ machine'[m].action = ActionOf(o)
  PROVE  Keeps
<1>1. Typed' /\ Sound'
  BY DEF Inv, Typed, Touches, Sound, Calm, Fails
<1>2. InOrder'
  BY SMT DEF Inv, InOrder, Ordered, Touches, Busy, Releasing, SameAction, ActionOf
<1>3. \A e \in Executions : ActionOf(e)' = ActionOf(e)
  BY DEF Touches, ActionOf
<1>4. \A e \in Executions : \A n \in Machines : n # m => InUse(e, n)' = InUse(e, n)
  BY <1>3 DEF Touches, InUse
<1>5. Stages'
  <2>1. ASSUME NEW e \in Executions, e # o
        PROVE  \A n \in Machines : job'[e][n] = job[e][n]
    BY <2>1, ActionFacts DEF Touches
  <2>2. ASSUME NEW e \in Executions, e # o, flow[e] = "confirming", job[e][m].at # "none"
        PROVE  FALSE
    <3>1. job[e][m].at \in {"done", "created"}
      BY <2>2 DEF Inv, Stages, Stage
    <3>2. Live(e, m)
      BY <3>1 DEF Live, Places
    <3> QED
      BY <2>2, <3>1, <3>2, ExecutionAlone
  <2>3. ASSUME NEW e \in Executions, flow[e] = "confirming", NEW n \in Machines,
               job'[e][n].at # "none"
        PROVE  InUse(e, n)'
    BY SMT, <1>4, <2>1, <2>2, <2>3 DEF Inv, Stages, Stage
  <2>4. ASSUME NEW e \in Executions, flow[e] = "reverting", NEW n \in Machines
        PROVE  job'[e][n].at \notin Working
    BY SMT, <2>4, ActionFacts DEF Inv, Stages, Stage, Touches
  <2> QED
    BY SMT, <2>1, <2>3, <2>4 DEF Inv, Stages, Stage, Touches
<1>6. RefreshStages'
  <2>1. ASSUME NEW r \in Refreshes, r # o
        PROVE  \A n \in Machines : job'[r][n] = job[r][n]
    BY <2>1, RefreshFacts DEF Touches
  <2>2. ASSUME NEW r \in Refreshes, flow[r] = "reverting", NEW n \in Machines
        PROVE  job'[r][n].at \notin Working
    BY SMT, <2>2, RefreshFacts DEF Inv, RefreshStages, RefreshStage, Touches
  <2> QED
    BY SMT, <2>1, <2>2 DEF Inv, RefreshStages, RefreshStage, Touches
<1>7. Held'
  BY HeldTouched DEF Touches
<1>8. ASSUME NEW n \in Machines
      PROVE  MachineInv(n)'
  <2>1. CASE n # m
    <3>1. /\ UNCHANGED pool /\ machine'[n] = machine[n] /\ (n \in vms' <=> n \in vms)
          /\ \A p \in Owners : job'[p][n] = job[p][n] /\ MachineInv(n)
      BY <2>1 DEF Touches, Inv
    <3> QED
      BY <3>1, MachineKept
  <2> QED
    BY <2>1
<1>9. NoneAdded
  <2>1. \A n \in Machines : (Exists(n) <=> ~Gone(n)) /\ (Exists(n)' <=> ~Gone(n)')
    BY <1>1, RowFacts DEF Inv, Typed, Exists, Gone
  <2>2. \A n \in Machines : n # m => machine'[n] = machine[n]
    BY DEF Touches
  <2> QED
    BY <2>1, <2>2 DEF NoneAdded, Entries, Exists
<1> QED
  BY <1>1, <1>2, <1>5, <1>6, <1>7, <1>8, <1>9 DEF Inv, Keeps

\* The entry of a machine which no other flow has.
LoneRow(e, m) ==
  /\ ~Gone(m) => (m \in vms <=> machine[m].deployed /\ job[e][m].at # "forget")
  /\ Gone(m) /\ m \in vms => Fails("undeletable")
  /\ machine[m].status # "AVAILABLE"
  /\ machine[m].status = "UNINITIALIZED" => ~machine[m].deployed
  /\ machine[m].status = "ERROR_DEPLOYING" => machine[m].power = "UNINITIALIZED"
  /\ Calm =>
       /\ machine[m].status \notin {"ERROR", "POWER_ERROR"}
       /\ machine[m].status = "ERROR_DEPLOYING" => job[e][m].at = "uncreated"
       /\ machine[m].deployed => \/ machine[m].power \in {"POWERED_ON", "POWERED_OFF"}
                                 \/ job[e][m].at = "powering"

\* A job goes on, with what is done to its machine.
LEMMA Moves ==
  ASSUME Inv, NEW o \in Owners, NEW m \in Machines, job[o][m].at # "none",
         NEW place \in Waiting \cup Working \cup Ended, Goes(o, m, place),
         UNCHANGED <<pool, execution, using, flow, release, freeing>>,
         machine' \in [Machines -> Rows],
         \A n \in Machines : n # m => machine'[n] = machine[n],
         vms' \in {vms, vms \cup {m}, vms \ {m}}
  PROVE  /\ Touches(o, m)
         /\ job'[o][m].at = place /\ job'[o][m].kind = job[o][m].kind
<1>1. job \in [Owners -> [Machines -> Jobs]] /\ vms \subseteq Machines
  BY DEF Inv, Typed
<1>2. /\ job' \in [Owners -> [Machines -> Jobs]]
      /\ job'[o][m].at = place /\ job'[o][m].kind = job[o][m].kind
      /\ \A p \in Owners : \A n \in Machines :
           p # o \/ n # m => job'[p][n] = job[p][n]
  BY <1>1, GoesFacts
<1> QED
  BY <1>1, <1>2 DEF Touches

\* What a flow of an execution does with a machine keeps everything in order.
LEMMA ExecutionTasks ==
  \A e \in Executions : \A m \in Machines : Inv /\ Task(e, m) => Keeps
\* A task of an execution: the machine stays with its flow.
<1>ExecutionTask.
    ASSUME Inv, NEW e \in Executions, NEW m \in Machines, flow[e] = "machines", Live(e, m),
           job[e][m].at # "uncreated", Touches(e, m), Live(e, m)', ExecutionFits(e, m)',
           LoneRow(e, m)', Calm /\ Gone(m) => Gone(m)',
           machine'[m].action \in {"none", machine[m].action, ActionOf(e)}
    PROVE  Keeps
  <2> USE <1>ExecutionTask
  <2>1. e \in Owners /\ e \notin Refreshes
    BY ActionFacts
  <2>2. \A p \in Owners : p # e => ~Live(p, m) /\ job'[p][m] = job[p][m]
    BY ExecutionAlone DEF Touches
  <2>3. MachineInv(m)
    BY DEF Inv
  <2>4. ASSUME NEW x \in Executions, x # e
        PROVE  ExecutionFits(x, m)' /\ ~Live(x, m)'
    BY <2>2, <2>3, <2>4, ExecutionGone, ActionFacts DEF MachineInv
  <2>5. ASSUME NEW r \in Refreshes
        PROVE  RefreshFits(r, m)' /\ ~Live(r, m)'
    BY <2>1, <2>2, <2>3, RefreshGone, RefreshFacts DEF MachineInv
  <2>6. \A p \in Owners : p # e => ~Live(p, m)'
    BY <2>4, <2>5 DEF Owners
  <2>7. Apart(m)'
    BY <2>6 DEF Apart
  <2>8. \A p \in Owners : job'[p][m].at = "forget" => p = e
    BY <2>6 DEF Live, Places, Working
  <2>9. RowFits(m)'
    BY <2>1, <2>8 DEF RowFits, LoneRow
  <2>10. Calm' => RowCalm(m)'
    BY DEF RowCalm, LoneRow
  <2>11. MachineInv(m)'
    BY <2>4, <2>5, <2>7, <2>9, <2>10 DEF MachineInv
  <2> QED
    BY <2>1, <2>11, TaskStep
\* What is known of a machine which a flow of an execution is about to do something with.
<1>ExecutionKnows.
    ASSUME Inv, NEW e \in Executions, NEW m \in Machines,
           job[e][m].at \in Waiting \cup Working
    PROVE  /\ Live(e, m) /\ ExecutionFits(e, m) /\ LoneRow(e, m) /\ e \in Owners
           /\ job[e][m].at \notin {"none", "uncreated"}
           /\ machine \in [Machines -> Rows]
           /\ Exists(m) <=> ~Gone(m)
  <2> USE <1>ExecutionKnows
  <2>1. Live(e, m) /\ job[e][m].at \notin {"none", "uncreated"}
    BY DEF Live, Places, Waiting, Working
  <2>2. /\ ExecutionFits(e, m) /\ RowFits(m) /\ (Calm => RowCalm(m)) /\ e \in Owners
        /\ machine \in [Machines -> Rows]
    BY ActionFacts DEF Inv, MachineInv, Typed
  <2>3. \A p \in Owners : job[p][m].at = "forget" => p = e
    <3>1. \A p \in Owners : job[p][m].at = "forget" => Live(p, m)
      BY DEF Live, Places, Working
    <3> QED
      BY <2>1, <3>1, ExecutionAlone
  <2>4. Calm => machine[m].status # "POWER_ERROR"
    BY <2>2 DEF ExecutionFits, Redeploys, Undeployed, Gone, Waiting, Working
  <2>5. Calm /\ machine[m].status = "ERROR_DEPLOYING" => job[e][m].at = "uncreated"
    BY <2>2 DEF ExecutionFits, Redeploys, Undeployed, Gone, Waiting, Working
  <2>6. Calm /\ machine[m].deployed =>
          machine[m].power \in {"POWERED_ON", "POWERED_OFF"} \/ job[e][m].at = "powering"
    <3>1. SUFFICES ASSUME Calm, machine[m].deployed
                   PROVE  \/ machine[m].power \in {"POWERED_ON", "POWERED_OFF"}
                          \/ job[e][m].at = "powering"
      OBVIOUS
    <3>2. machine[m].action # "none"
      BY <2>1, <2>2, <3>1, ExecutionHas, EntryFacts, ActionFacts
    <3>3. \A x \in Executions : job[x][m].at = "powering" => x = e
      <4>1. \A x \in Executions : job[x][m].at = "powering" => Live(x, m) /\ x \in Owners
        BY ActionFacts DEF Live, Places, Working
      <4> QED
        BY <2>1, <4>1, ExecutionAlone
    <3> QED
      BY <2>2, <3>1, <3>2, <3>3 DEF RowCalm
  <2>7. machine[m].status # "AVAILABLE"
    BY <2>1, <2>2 DEF RowFits
  <2>8. LoneRow(e, m)
    BY <2>2, <2>3, <2>4, <2>5, <2>6, <2>7 DEF LoneRow, RowFits, RowCalm
  <2> QED
    BY <2>1, <2>2, <2>8, EntryFacts
<1>ExecutionPowersOn.
    ASSUME Inv, NEW e \in Executions, NEW m \in Machines, PowerOn(e, m)
    PROVE  Keeps
  <2> USE <1>ExecutionPowersOn
  <2>1. /\ flow[e] = "machines" /\ job[e][m].at = "power"
        /\ UNCHANGED <<pool, execution, using, flow, release, freeing, vms>>
    BY DEF PowerOn, Starts
  <2>2. /\ Live(e, m) /\ ExecutionFits(e, m) /\ LoneRow(e, m) /\ e \in Owners
        /\ job[e][m].at \notin {"none", "uncreated"}
        /\ machine \in [Machines -> Rows]
    BY <2>1, <1>ExecutionKnows DEF Waiting
  <2>3. /\ job[e][m].kind = "heal" /\ OfAction(e, m, {"RESERVED"})
        /\ machine[m].power = "POWERED_OFF" /\ (Calm => machine[m].deployed)
    BY <2>1, <2>2 DEF ExecutionFits
  <2>4. ~Gone(m)
    BY <2>3 DEF Gone, OfAction
  <2>5. Goes(e, m, "powering") /\ SetPowerStatus(m, "POWERING_ON")
    BY <2>3 DEF PowerOn
  <2>6. /\ machine' \in [Machines -> Rows]
        /\ machine'[m].power = "POWERING_ON" /\ machine'[m].status = machine[m].status
        /\ machine'[m].action = machine[m].action
        /\ machine'[m].deployed = machine[m].deployed
        /\ \A n \in Machines : n # m => machine'[n] = machine[n]
    BY <2>2, <2>4, <2>5, PowerSet DEF PowerStatuses
  <2>7. Touches(e, m) /\ job'[e][m].at = "powering" /\ job'[e][m].kind = "heal"
    BY <2>1, <2>2, <2>3, <2>5, <2>6, Moves DEF Working
  <2>8. Live(e, m)'
    BY <2>7 DEF Live, Places, Working
  <2>9. ExecutionFits(e, m)'
    BY <2>1, <2>3, <2>6, <2>7
       DEF ExecutionFits, OfAction, Redeploys, ActionOf, Calm, Fails
  <2>10. LoneRow(e, m)'
    BY <2>1, <2>2, <2>3, <2>6, <2>7 DEF LoneRow, OfAction, Gone, Calm, Fails
  <2> QED
    BY <2>1, <2>2, <2>4, <2>6, <2>7, <2>8, <2>9, <2>10, <1>ExecutionTask
<1>ExecutionPoweredOn.
    ASSUME Inv, NEW e \in Executions, NEW m \in Machines, PoweredOn(e, m)
    PROVE  Keeps
  <2> USE <1>ExecutionPoweredOn
  <2>1. /\ flow[e] = "machines" /\ job[e][m].at = "powering"
        /\ UNCHANGED <<pool, execution, using, flow, release, freeing, vms>>
    BY DEF PoweredOn, Finishes
  <2>2. /\ Live(e, m) /\ ExecutionFits(e, m) /\ LoneRow(e, m) /\ e \in Owners
        /\ job[e][m].at \notin {"none", "uncreated"}
        /\ machine \in [Machines -> Rows] /\ (Exists(m) <=> ~Gone(m))
    BY <2>1, <1>ExecutionKnows DEF Working
  <2>3. /\ job[e][m].kind = "heal" /\ OfAction(e, m, {"RESERVED"})
        /\ Calm => machine[m].deployed
    BY <2>1, <2>2 DEF ExecutionFits
  <2>4. ~Gone(m)
    BY <2>3 DEF Gone, OfAction
  <2>5. /\ Goes(e, m, "check")
        /\ \/ SetPowerStatus(m, "POWERED_ON")
           \/ Refused(m, "unpowered_on") /\ SetAllocationStatus(m, "POWER_ERROR")
    BY <2>2, <2>4 DEF PoweredOn
  <2>6. Refused(m, "unpowered_on") => ~Calm
    BY <2>1, <2>2, <2>3, <2>4 DEF Refused, LoneRow, Calm
  <2>7. /\ machine' \in [Machines -> Rows]
        /\ machine'[m].action = machine[m].action
        /\ machine'[m].deployed = machine[m].deployed
        /\ \/ machine'[m].status = "RESERVED" /\ machine'[m].power = "POWERED_ON"
           \/ machine'[m].status = "POWER_ERROR" /\ ~Calm
        /\ \A n \in Machines : n # m => machine'[n] = machine[n]
    <3>1. CASE SetPowerStatus(m, "POWERED_ON")
      BY <2>2, <2>3, <2>4, <3>1, PowerSet DEF PowerStatuses, OfAction
    <3>2. CASE Refused(m, "unpowered_on") /\ SetAllocationStatus(m, "POWER_ERROR")
      BY <2>2, <2>4, <2>6, <3>2, StatusSet DEF MachineStatuses
    <3> QED
      BY <2>5, <3>1, <3>2
  <2>8. Touches(e, m) /\ job'[e][m].at = "check" /\ job'[e][m].kind = "heal"
    BY <2>1, <2>2, <2>3, <2>5, <2>7, Moves DEF Waiting
  <2>9. Live(e, m)'
    BY <2>8 DEF Live, Places, Waiting
  <2>10. ExecutionFits(e, m)'
    BY <2>1, <2>3, <2>7, <2>8
       DEF ExecutionFits, OfAction, Redeploys, ActionOf, Calm, Fails
  <2>11. LoneRow(e, m)'
    BY <2>1, <2>2, <2>4, <2>7, <2>8 DEF LoneRow, Gone, Calm, Fails
  <2> QED
    BY <2>1, <2>2, <2>4, <2>7, <2>8, <2>9, <2>10, <2>11, <1>ExecutionTask
<1>ExecutionChecks.
    ASSUME Inv, NEW e \in Executions, NEW m \in Machines,
           Healthcheck(e, m) \/ Healthchecked(e, m)
    PROVE  Keeps
  <2> USE <1>ExecutionChecks
  <2>1. /\ flow[e] = "machines" /\ job[e][m].at \in {"check", "checking"}
        /\ UNCHANGED <<pool, execution, using, flow, release, freeing, vms>>
    BY DEF Healthcheck, Starts, Healthchecked, Finishes
  <2>2. /\ Live(e, m) /\ ExecutionFits(e, m) /\ LoneRow(e, m) /\ e \in Owners
        /\ job[e][m].at \notin {"none", "uncreated"}
        /\ machine \in [Machines -> Rows] /\ (Exists(m) <=> ~Gone(m))
    BY <2>1, <1>ExecutionKnows DEF Working, Waiting
  <2>3. /\ job[e][m].kind = "heal" /\ OfAction(e, m, {"RESERVED", "POWER_ERROR"})
        /\ Calm => machine[m].deployed /\ machine[m].status = "RESERVED"
        /\ job[e][m].at = "checking" => machine[m].status = "RESERVED"
    BY <2>1, <2>2 DEF ExecutionFits, OfAction
  <2>4. m \in vms <=> machine[m].deployed
    BY <2>1, <2>2, <2>3 DEF Gone, OfAction, LoneRow
  <2>5. ~Gone(m) /\ e \notin Refreshes
    BY <2>3, ActionFacts DEF Gone, OfAction
  <2>6. CASE Healthcheck(e, m)
    <3>1. PICK place \in {"dealloc", "checking"} :
            /\ Goes(e, m, place) /\ UNCHANGED machine
            /\ IF machine[m].status = "POWER_ERROR" THEN place = "dealloc"
               ELSE place = "checking" /\ machine[m].status = "RESERVED"
      BY <2>2, <2>3, <2>5, <2>6 DEF Healthcheck, Errored, OfAction
    <3>2. Touches(e, m) /\ job'[e][m].at = place /\ job'[e][m].kind = "heal"
      BY <2>1, <2>2, <2>3, <3>1, Moves DEF Working, Waiting
    <3>3. Live(e, m)'
      BY <3>2 DEF Live, Places, Waiting, Working
    <3>4. ExecutionFits(e, m)'
      BY <2>1, <2>3, <3>1, <3>2
         DEF ExecutionFits, OfAction, Redeploys, ActionOf, Calm, Fails
    <3>5. LoneRow(e, m)'
      BY <2>1, <2>2, <3>1, <3>2 DEF LoneRow, Gone, Calm, Fails
    <3> QED
      BY <2>1, <2>2, <2>5, <3>1, <3>2, <3>3, <3>4, <3>5, <1>ExecutionTask
  <2>7. CASE Healthchecked(e, m)
    <3>1. /\ job[e][m].at = "checking"
          /\ \/ /\ m \in vms /\ SetAllocationStatus(m, "IN_USE") /\ Goes(e, m, "done")
             \/ /\ Refused(m, "unhealthy") /\ SetAllocationStatus(m, "ERROR")
                /\ Goes(e, m, "dealloc")
      BY <2>2, <2>5, <2>7 DEF Healthchecked, Finishes
    <3>2. Refused(m, "unhealthy") => ~Calm
      BY <2>3, <2>4, <2>5 DEF Refused, Calm
    <3>3. PICK place, status :
            /\ Goes(e, m, place) /\ SetAllocationStatus(m, status)
            /\ \/ place = "done" /\ status = "IN_USE" /\ machine[m].deployed
               \/ place = "dealloc" /\ status = "ERROR" /\ ~Calm
      BY <2>4, <3>1, <3>2
    <3>4. /\ place \in Waiting \cup Working \cup Ended /\ status \in MachineStatuses
      BY <3>3 DEF Waiting, Ended, MachineStatuses
    <3>5. /\ machine' \in [Machines -> Rows]
          /\ machine'[m].status = status /\ machine'[m].power = machine[m].power
          /\ machine'[m].action = machine[m].action
          /\ machine'[m].deployed = machine[m].deployed
          /\ \A n \in Machines : n # m => machine'[n] = machine[n]
      BY <2>2, <2>5, <3>3, <3>4, StatusSet
    <3>6. Touches(e, m) /\ job'[e][m].at = place /\ job'[e][m].kind = "heal"
      BY <2>1, <2>2, <2>3, <3>3, <3>4, <3>5, Moves
    <3>7. Live(e, m)'
      BY <3>3, <3>6 DEF Live, Places, Waiting
    <3>8. ExecutionFits(e, m)'
      BY <2>1, <2>3, <3>3, <3>5, <3>6
         DEF ExecutionFits, OfAction, Redeploys, ActionOf, Calm, Fails
    <3>9. LoneRow(e, m)'
      BY <2>1, <2>2, <2>5, <3>1, <3>3, <3>5, <3>6 DEF LoneRow, Gone, Calm, Fails
    <3> QED
      BY <2>1, <2>2, <2>5, <3>5, <3>6, <3>7, <3>8, <3>9, <1>ExecutionTask
  <2> QED
    BY <2>6, <2>7
<1>ExecutionDeletes.
    ASSUME Inv, NEW e \in Executions, NEW m \in Machines,
           Deallocate(e, m) \/ MachineDeleted(e, m) \/ Deallocated(e, m)
    PROVE  Keeps
  <2> USE <1>ExecutionDeletes
  <2>1. /\ flow[e] = "machines" /\ job[e][m].at \in {"dealloc", "deleting", "forget"}
        /\ UNCHANGED <<pool, execution, using, flow, release, freeing>>
    BY DEF Deallocate, Starts, MachineDeleted, Deallocated, Finishes
  <2>2. /\ Live(e, m) /\ ExecutionFits(e, m) /\ LoneRow(e, m) /\ e \in Owners
        /\ job[e][m].at \notin {"none", "uncreated"}
        /\ machine \in [Machines -> Rows] /\ (Exists(m) <=> ~Gone(m))
    BY <2>1, <1>ExecutionKnows DEF Working, Waiting
  <2>3. /\ job[e][m].kind = "heal" /\ ~Calm
        /\ OfAction(e, m, {"ERROR", "POWER_ERROR", "DEALLOCATING"})
        /\ job[e][m].at = "deleting" => machine[m].deployed
    BY <2>1, <2>2 DEF ExecutionFits, Redeploys
  <2>4. ~Gone(m)
    BY <2>3 DEF Gone, OfAction
  <2>5. CASE Deallocate(e, m)
    <3>1. CASE machine[m].deployed
      <4>1. /\ Goes(e, m, "deleting") /\ SetAllocationStatus(m, "DEALLOCATING")
            /\ UNCHANGED vms /\ job[e][m].at = "dealloc"
        BY <2>2, <2>4, <2>5, <3>1 DEF Deallocate, Starts
      <4>2. /\ machine' \in [Machines -> Rows]
            /\ machine'[m].status = "DEALLOCATING"
            /\ machine'[m].action = machine[m].action
            /\ machine'[m].deployed = machine[m].deployed
            /\ \A n \in Machines : n # m => machine'[n] = machine[n]
        BY <2>2, <2>4, <4>1, StatusSet DEF MachineStatuses
      <4>3. Touches(e, m) /\ job'[e][m].at = "deleting" /\ job'[e][m].kind = "heal"
        BY <2>1, <2>2, <2>3, <4>1, <4>2, Moves DEF Working
      <4>4. Live(e, m)'
        BY <4>3 DEF Live, Places, Working
      <4>5. ExecutionFits(e, m)'
        BY <2>1, <2>3, <3>1, <4>2, <4>3
           DEF ExecutionFits, OfAction, Redeploys, ActionOf, Calm, Fails
      <4>6. LoneRow(e, m)'
        BY <2>1, <2>2, <2>3, <2>4, <4>1, <4>2, <4>3 DEF LoneRow, Gone, Calm, Fails
      <4> QED
        BY <2>1, <2>2, <2>3, <4>2, <4>3, <4>4, <4>5, <4>6, <1>ExecutionTask
    <3>2. CASE ~machine[m].deployed
      <4>1. Goes(e, m, "forget") /\ UNCHANGED <<machine, vms>> /\ job[e][m].at = "dealloc"
        BY <2>2, <2>4, <2>5, <3>2 DEF Deallocate, Starts
      <4>2. Touches(e, m) /\ job'[e][m].at = "forget" /\ job'[e][m].kind = "heal"
        BY <2>1, <2>2, <2>3, <4>1, Moves DEF Working
      <4>3. Live(e, m)'
        BY <4>2 DEF Live, Places, Working
      <4>4. ExecutionFits(e, m)'
        BY <2>1, <2>3, <4>1, <4>2
           DEF ExecutionFits, OfAction, Redeploys, ActionOf, Calm, Fails
      <4>5. LoneRow(e, m)'
        BY <2>1, <2>2, <2>3, <3>2, <4>1, <4>2 DEF LoneRow, Gone, Calm, Fails
      <4> QED
        BY <2>1, <2>2, <2>3, <4>1, <4>2, <4>3, <4>4, <4>5, <1>ExecutionTask
    <3> QED
      BY <3>1, <3>2
  <2>6. CASE MachineDeleted(e, m)
    <3>1. PICK place \in {"forget", "failed"} :
            /\ Goes(e, m, place) /\ UNCHANGED machine
            /\ vms' = IF place = "forget" THEN vms \ {m} ELSE vms
            /\ job[e][m].at = "deleting"
      BY <2>6 DEF MachineDeleted, Finishes
    <3>2. Touches(e, m) /\ job'[e][m].at = place /\ job'[e][m].kind = "heal"
      BY <2>1, <2>2, <2>3, <3>1, Moves DEF Working, Ended, Failed
    <3>3. Live(e, m)'
      BY <3>2 DEF Live, Places, Working
    <3>4. ExecutionFits(e, m)'
      BY <2>1, <2>3, <3>1, <3>2
         DEF ExecutionFits, OfAction, Redeploys, ActionOf, Calm, Fails
    <3>5. LoneRow(e, m)'
      BY <2>1, <2>2, <2>3, <2>4, <3>1, <3>2 DEF LoneRow, Gone, Calm, Fails
    <3> QED
      BY <2>1, <2>2, <2>3, <3>1, <3>2, <3>3, <3>4, <3>5, <1>ExecutionTask
  <2>7. CASE Deallocated(e, m)
    <3>1. /\ job[e][m].at = "forget" /\ Goes(e, m, "create") /\ UNCHANGED vms
          /\ machine' = [machine EXCEPT ![m] = NoEntry]
      BY <2>2, <2>3, <2>4, <2>7 DEF Deallocated, Finishes, AfterDeallocation
    <3>2. /\ machine' \in [Machines -> Rows] /\ machine'[m] = NoEntry
          /\ \A n \in Machines : n # m => machine'[n] = machine[n]
      BY <2>2, <3>1, EntryWritten DEF Rows
    <3>3. /\ machine'[m].status = "none" /\ machine'[m].action = "none"
          /\ machine'[m].deployed = FALSE /\ m \notin vms
      BY <2>2, <2>4, <3>1, <3>2 DEF NoEntry, LoneRow
    <3>4. Touches(e, m) /\ job'[e][m].at = "create" /\ job'[e][m].kind = "heal"
      BY SMT, <2>1, <2>2, <2>3, <3>1, <3>2, Moves DEF Waiting
    <3>5. Live(e, m)'
      BY <3>4 DEF Live, Places, Waiting
    <3>6. ExecutionFits(e, m)'
      BY <2>1, <2>3, <3>1, <3>3, <3>4 DEF ExecutionFits, Redeploys, Gone, Calm, Fails
    <3>7. LoneRow(e, m)'
      BY <2>1, <2>3, <3>1, <3>3, <3>4 DEF LoneRow, Gone, Calm, Fails
    <3> QED
      BY <2>1, <2>2, <2>3, <3>3, <3>4, <3>5, <3>6, <3>7, <1>ExecutionTask
  <2> QED
    BY <2>5, <2>6, <2>7
<1>ExecutionCreates.
    ASSUME Inv, NEW e \in Executions, NEW m \in Machines, Allocate(e, m)
    PROVE  Keeps
  <2> USE <1>ExecutionCreates
  <2>1. /\ flow[e] = "machines" /\ job[e][m].at = "create"
        /\ UNCHANGED <<pool, execution, using, flow, release, freeing, vms>>
    BY DEF Allocate, Starts
  <2>2. /\ Live(e, m) /\ ExecutionFits(e, m) /\ LoneRow(e, m) /\ e \in Owners
        /\ job[e][m].at \notin {"none", "uncreated"}
        /\ machine \in [Machines -> Rows] /\ (Exists(m) <=> ~Gone(m))
    BY <2>1, <1>ExecutionKnows DEF Waiting
  <2>3. /\ job[e][m].kind # "retire" /\ (job[e][m].kind = "heal" => ~Calm)
        /\ \/ job[e][m].kind = "heal" /\ Gone(m) /\ m \notin vms
           \/ Undeployed(e, m, "UNINITIALIZED")
    BY <2>1, <2>2 DEF ExecutionFits
  <2>4. /\ Goes(e, m, "creating") /\ machine' \in [Machines -> Rows]
        /\ machine'[m].status = "ALLOCATING" /\ machine'[m].power = "UNINITIALIZED"
        /\ machine'[m].action = ActionOf(e) /\ ~machine'[m].deployed
        /\ \A n \in Machines : n # m => machine'[n] = machine[n]
        /\ m \notin vms
    <3>1. CASE Gone(m)
      <4>1. /\ machine' = [machine EXCEPT ![m] = NewEntry("ALLOCATING", ActionOf(e))]
            /\ Goes(e, m, "creating")
        <5>1. ~Exists(m)
          BY <2>2, <3>1
        <5>2. ~(machine[m].status = "UNINITIALIZED")
          BY <3>1 DEF Gone
        <5>3. Goes(e, m, "creating")
          BY <5>1, <5>2 DEF Allocate
        <5>4. machine' = [machine EXCEPT ![m] = NewEntry("ALLOCATING", ActionOf(e))]
          BY <5>1, <5>2 DEF Allocate
        <5> QED
          BY <5>3, <5>4
      <4>2. PICK row \in Rows :
              /\ row = NewEntry("ALLOCATING", ActionOf(e))
              /\ row = [status |-> "ALLOCATING", power |-> "UNINITIALIZED",
                        action |-> ActionOf(e), deployed |-> FALSE]
        BY NewEntryFacts, ActionFacts
      <4>3. /\ machine' \in [Machines -> Rows] /\ machine'[m] = row
            /\ \A n \in Machines : n # m => machine'[n] = machine[n]
        BY <2>2, <4>1, <4>2, EntryWritten
      <4>4. m \notin vms
        BY <2>3, <3>1 DEF Undeployed, Gone
      <4> QED
        BY SMT, <4>1, <4>2, <4>3, <4>4
    <3>2. CASE ~Gone(m)
      <4>1. Undeployed(e, m, "UNINITIALIZED")
        BY <2>3, <3>2
      <4>2. /\ machine[m].status = "UNINITIALIZED" /\ machine[m].action = ActionOf(e)
            /\ machine[m].power = "UNINITIALIZED" /\ ~machine[m].deployed
        BY <4>1 DEF Undeployed
      <4>3. SetAllocationStatus(m, "ALLOCATING") /\ Goes(e, m, "creating")
        BY <2>2, <3>2, <4>2 DEF Allocate
      <4>4. m \notin vms
        BY <2>2, <3>2, <4>2 DEF LoneRow
      <4> QED
        BY <2>2, <3>2, <4>2, <4>3, <4>4, StatusSet DEF MachineStatuses
    <3> QED
      BY <3>1, <3>2
  <2>5. Touches(e, m) /\ job'[e][m].at = "creating" /\ job'[e][m].kind = job[e][m].kind
    BY SMT, <2>1, <2>2, <2>4, Moves DEF Working
  <2>6. Live(e, m)'
    BY <2>5 DEF Live, Places, Working
  <2>7. ExecutionFits(e, m)'
    BY <2>1, <2>3, <2>4, <2>5
       DEF ExecutionFits, Undeployed, Redeploys, ActionOf, Calm, Fails
  <2>8. LoneRow(e, m)'
    BY <2>1, <2>4, <2>5 DEF LoneRow, Gone
  <2>9. Calm => ~Gone(m)
    BY <2>3 DEF Undeployed, Gone
  <2> QED
    BY <2>1, <2>2, <2>4, <2>5, <2>6, <2>7, <2>8, <2>9, <1>ExecutionTask
<1>ExecutionCreated.
    ASSUME Inv, NEW e \in Executions, NEW m \in Machines, Allocated(e, m)
    PROVE  Keeps
  <2> USE <1>ExecutionCreated
  <2>1. /\ flow[e] = "machines" /\ job[e][m].at = "creating"
        /\ UNCHANGED <<pool, execution, using, flow, release, freeing>>
    BY DEF Allocated, Finishes
  <2>2. /\ Live(e, m) /\ ExecutionFits(e, m) /\ LoneRow(e, m) /\ e \in Owners
        /\ job[e][m].at \notin {"none", "uncreated"}
        /\ machine \in [Machines -> Rows] /\ (Exists(m) <=> ~Gone(m))
    BY <2>1, <1>ExecutionKnows DEF Working
  <2>3. /\ job[e][m].kind # "retire" /\ (job[e][m].kind = "heal" => ~Calm)
        /\ machine[m].status = "ALLOCATING" /\ machine[m].power = "UNINITIALIZED"
        /\ machine[m].action = ActionOf(e) /\ ~machine[m].deployed
    BY <2>1, <2>2 DEF ExecutionFits, Undeployed
  <2>4. ~Gone(m) /\ m \notin vms /\ ActionOf(e) \in Executions /\ machine[m] # NoEntry
    BY <2>2, <2>3, ActionFacts DEF Gone, LoneRow, Exists
  <2>5. CASE /\ vms' = vms \cup {m} /\ Goes(e, m, IF Exists(m) THEN "created" ELSE "uncreated")
             /\ machine' = [machine EXCEPT ![m] =
                  IF @ = NoEntry THEN @
                  ELSE [status |-> IF e \in Executions THEN "IN_USE" ELSE "AVAILABLE",
                        action |-> IF e \in Executions THEN ActionOf(e) ELSE @.action,
                        power |-> "POWERED_ON", deployed |-> TRUE]]
    <3>0. PICK row : row = [status |-> "IN_USE", action |-> ActionOf(e),
                            power |-> "POWERED_ON", deployed |-> TRUE]
      OBVIOUS
    <3>1. /\ row \in Rows /\ row.status = "IN_USE" /\ row.action = ActionOf(e)
          /\ row.power = "POWERED_ON" /\ row.deployed = TRUE
      BY <2>4, <3>0 DEF Rows, MachineStatuses, PowerStatuses
    <3>2. machine' = [machine EXCEPT ![m] = row] /\ Goes(e, m, "created")
      BY <2>2, <2>4, <2>5, <3>0
    <3>3. /\ machine' \in [Machines -> Rows] /\ machine'[m] = row
          /\ \A n \in Machines : n # m => machine'[n] = machine[n]
          /\ vms' \in {vms, vms \cup {m}, vms \ {m}}
      BY <2>2, <2>5, <3>1, <3>2, EntryWritten
    <3>4. Touches(e, m) /\ job'[e][m].at = "created" /\ job'[e][m].kind = job[e][m].kind
      BY SMT, <2>1, <2>2, <3>2, <3>3, Moves DEF Ended
    <3>5. Live(e, m)'
      BY <3>4 DEF Live, Places
    <3>6. ExecutionFits(e, m)'
      BY <2>1, <2>3, <3>1, <3>3, <3>4
         DEF ExecutionFits, InUse, Redeploys, ActionOf, Calm, Fails
    <3>7. LoneRow(e, m)'
      BY <2>5, <3>1, <3>3, <3>4 DEF LoneRow, Gone
    <3> QED
      BY <2>1, <2>2, <2>4, <3>1, <3>3, <3>4, <3>5, <3>6, <3>7, <1>ExecutionTask
  <2>6. CASE /\ Goes(e, m, "uncreated") /\ UNCHANGED vms
             /\ machine' = [machine EXCEPT ![m] =
                  IF @ = NoEntry THEN @ ELSE [@ EXCEPT !.status = "ERROR_DEPLOYING"]]
    <3>1. SetAllocationStatus(m, "ERROR_DEPLOYING")
      BY <2>4, <2>6 DEF SetAllocationStatus
    <3>2. /\ machine' \in [Machines -> Rows]
          /\ machine'[m].status = "ERROR_DEPLOYING" /\ machine'[m].power = "UNINITIALIZED"
          /\ machine'[m].action = ActionOf(e) /\ ~machine'[m].deployed
          /\ \A n \in Machines : n # m => machine'[n] = machine[n]
      BY <2>2, <2>3, <2>4, <3>1, StatusSet DEF MachineStatuses
    <3>3. Touches(e, m) /\ job'[e][m].at = "uncreated" /\ job'[e][m].kind = job[e][m].kind
      BY SMT, <2>1, <2>2, <2>6, <3>2, Moves DEF Ended, Failed
    <3>4. Live(e, m)'
      BY <3>3 DEF Live, Places
    <3>5. ExecutionFits(e, m)'
      BY <2>1, <2>3, <2>4, <2>6, <3>2, <3>3
         DEF ExecutionFits, OfAction, Redeploys, ActionOf, Calm, Fails
    <3>6. LoneRow(e, m)'
      BY <2>4, <2>6, <3>2, <3>3 DEF LoneRow, Gone
    <3> QED
      BY <2>1, <2>2, <2>4, <3>2, <3>3, <3>4, <3>5, <3>6, <1>ExecutionTask
  <2> QED
    BY <2>5, <2>6 DEF Allocated
<1> SUFFICES ASSUME Inv, NEW e \in Executions, NEW m \in Machines, Task(e, m)
             PROVE  Keeps
  OBVIOUS
<1>1. ~PowerOff(e, m) /\ ~PoweredOff(e, m)
  BY DEF Inv, MachineInv, ExecutionFits, PowerOff, PoweredOff, Starts, Finishes
<1> QED
  BY <1>1, <1>ExecutionPowersOn, <1>ExecutionPoweredOn, <1>ExecutionChecks, <1>ExecutionDeletes,
     <1>ExecutionCreates, <1>ExecutionCreated DEF Task

\* What a refresh does with a machine keeps everything in order.
LEMMA RefreshTasks ==
  \A r \in Refreshes : \A m \in Machines : Inv /\ Task(r, m) => Keeps
\* A task of a refresh: the machine is idle, or its creation has failed.
<1>RefreshTask.
    ASSUME Inv, NEW r \in Refreshes, NEW m \in Machines, flow[r] = "machines", Live(r, m),
           Touches(r, m), RefreshFits(r, m)',
           \/ Gone(m)' /\ m \notin vms'
           \/ /\ ~Gone(m) /\ machine'[m].action = machine[m].action
              /\ machine'[m].deployed = machine[m].deployed
              /\ m \in vms' <=> machine[m].deployed /\ job'[r][m].at # "forget"
              /\ machine'[m].status \in {"AVAILABLE", "HEALTHCHECKING", "DEALLOCATING",
                                         "POWERING_OFF", "POWER_ERROR"}
              /\ machine'[m].status = "AVAILABLE" =>
                   /\ ~Live(r, m)' /\ machine[m].deployed
                   /\ machine'[m].power \in {"POWERED_ON", "POWERED_OFF"}
              /\ machine'[m].status = "HEALTHCHECKING" => machine[m].deployed
              /\ machine'[m].status = "POWER_ERROR" =>
                   machine'[m].power = "POWERING_OFF" /\ pool.retention = "poweroff"
    PROVE  Keeps
  <2> USE <1>RefreshTask
  <2>1. r \in Owners /\ r \notin Executions
    BY RefreshFacts
  <2>2. /\ pool.refreshed /\ Calm
        /\ \/ Gone(m) /\ m \notin vms
           \/ machine[m].action = "none" /\ machine[m].deployed
           \/ /\ m \notin vms /\ ~machine[m].deployed
              /\ \E e \in Executions : job[e][m].at = "uncreated"
                                       /\ machine[m].action = ActionOf(e)
    BY RefreshHas
  <2>3. MachineInv(m) /\ UNCHANGED pool
    BY DEF Inv, Touches
  <2>4. /\ \A p \in Owners : p # r => job'[p][m] = job[p][m]
        /\ \A e \in Executions : job'[e][m] = job[e][m]
    BY <2>1, ActionFacts DEF Touches
  <2>5. machine'[m] \in Rows
    BY DEF Touches
  <2>6. Gone(m)' => ~machine'[m].deployed /\ machine'[m].action = "none"
    BY SMT, <2>5, RowFacts DEF Gone, NoEntry
  <2>7. ASSUME NEW e \in Executions
        PROVE  ExecutionFits(e, m)' /\ (Live(e, m)' => job[e][m].at = "uncreated")
    <3>1. ExecutionFits(e, m) /\ e \in Owners /\ e # r
      BY <2>1, <2>3, ActionFacts DEF MachineInv
    <3>2. CASE Live(e, m)
      <4>1. job[e][m].at = "uncreated"
        BY <3>1, <3>2, RefreshAlone
      <4>2. /\ m \notin vms /\ ~machine[m].deployed
            /\ \/ Gone(m)
               \/ machine[m].action = ActionOf(e)
        BY <3>1, <4>1 DEF ExecutionFits, OfAction
      <4>3. m \notin vms' /\ ~machine'[m].deployed
        BY <2>6, <4>2
      <4>4. \/ Gone(m)'
            \/ /\ machine'[m].action = ActionOf(e)
               /\ machine'[m].status \in {"DEALLOCATING", "POWERING_OFF", "POWER_ERROR"}
        BY <4>2
      <4>5. job[e][m].kind # "retire" /\ (job[e][m].kind = "heal" => ~Calm)
        BY <3>1, <4>1 DEF ExecutionFits
      <4> QED
        BY <2>2, <2>3, <2>4, <4>1, <4>3, <4>4, <4>5
           DEF ExecutionFits, OfAction, ActionOf, Redeploys
    <3>3. CASE ~Live(e, m)
      BY <2>4, <3>1, <3>3, ExecutionGone
    <3> QED
      BY <3>2, <3>3
  <2>8. ASSUME NEW q \in Refreshes, q # r
        PROVE  RefreshFits(q, m)' /\ ~Live(q, m)'
    <3>1. ~Live(q, m) /\ job'[q][m] = job[q][m] /\ RefreshFits(q, m)
      BY <2>3, <2>4, <2>8, RefreshAlone, RefreshFacts DEF MachineInv
    <3> QED
      BY <3>1, RefreshGone
  <2>9. Apart(m)'
    <3>1. \A e \in Executions : Live(e, m)' => Live(e, m)
      BY <2>4, <2>7 DEF Live, Places
    <3>2. ASSUME NEW o \in Owners, NEW p \in Owners, o # p, Live(o, m)', Live(p, m)',
                 o \in Executions
          PROVE  p \in Refreshes /\ job'[o][m].at = "uncreated"
      <4>1. p \notin Executions
        BY <3>1, <3>2, ExecutionAlone, ActionFacts
      <4> QED
        BY <2>4, <2>7, <3>2, <4>1 DEF Owners
    <3>3. \A o, p \in Owners : o # p /\ Live(o, m)' /\ Live(p, m)' =>
            o \in Executions \/ p \in Executions
      BY <2>8 DEF Owners
    <3> QED
      BY <3>2, <3>3 DEF Apart
  <2>10. \A p \in Owners : job'[p][m].at = "forget" => p = r
    <3>1. ASSUME NEW p \in Owners, job'[p][m].at = "forget", p # r
          PROVE  FALSE
      <4>1. Live(p, m)'
        BY <3>1 DEF Live, Places, Working
      <4> QED
        BY <2>4, <2>7, <2>8, <3>1, <4>1 DEF Owners
    <3> QED
      BY <3>1
  <2>11. RowFits(m)'
    <3>1. CASE Gone(m)'
      BY <3>1 DEF RowFits, Gone
    <3>2. CASE ~Gone(m)'
      <4>1. machine'[m].status = "AVAILABLE" =>
              machine'[m].action = "none" /\ \A o \in Owners : ~Live(o, m)'
        <5>1. SUFFICES ASSUME machine'[m].status = "AVAILABLE"
                       PROVE  /\ machine'[m].action = "none"
                              /\ \A o \in Owners : o # r => ~Live(o, m)'
          BY <3>2
        <5>2. machine'[m].action = "none" /\ machine[m].deployed
          BY <2>2, <3>2, <5>1
        <5>3. ASSUME NEW e \in Executions, job[e][m].at = "uncreated"
              PROVE  FALSE
          BY <2>3, <5>2, <5>3 DEF MachineInv, ExecutionFits
        <5> QED
          BY <2>7, <2>8, <5>2, <5>3 DEF Owners
      <4> QED
        BY <2>1, <2>10, <3>2, <4>1 DEF RowFits
    <3> QED
      BY <3>1, <3>2
  <2>12. RowCalm(m)'
    <3>1. ASSUME machine'[m].action # "none"
          PROVE  ~machine'[m].deployed /\ \E e \in Executions : Live(e, m)'
      <4>1. PICK e \in Executions : job[e][m].at = "uncreated" /\ ~machine'[m].deployed
        BY <2>2, <2>6, <3>1
      <4>2. Live(e, m)'
        BY <2>4, <4>1 DEF Live, Places
      <4> QED
        BY <4>1, <4>2
    <3> QED
      BY <2>3, <2>6, <3>1 DEF RowCalm, Gone
  <2>13. MachineInv(m)'
    BY <2>7, <2>8, <2>9, <2>11, <2>12 DEF MachineInv
  <2> QED
    BY <2>1, <2>6, <2>13, TaskStep
\* What is known of a machine which a refresh is about to do something with.
<1>RefreshKnows.
    ASSUME Inv, NEW r \in Refreshes, NEW m \in Machines,
           job[r][m].at \in Waiting \cup Working
    PROVE  /\ Live(r, m) /\ RefreshFits(r, m) /\ Calm /\ r \in Owners /\ r \notin Executions
           /\ job[r][m].at # "none" /\ job[r][m].kind \in {"heal", "retire"}
           /\ machine \in [Machines -> Rows]
           /\ Exists(m) <=> ~Gone(m)
           /\ Gone(m) => m \notin vms
           /\ ~Gone(m) => (m \in vms <=> machine[m].deployed /\ job[r][m].at # "forget")
  <2> USE <1>RefreshKnows
  <2>1. Live(r, m) /\ job[r][m].at # "none"
    BY DEF Live, Places, Waiting, Working
  <2>2. /\ RefreshFits(r, m) /\ RowFits(m) /\ r \in Owners /\ r \notin Executions
        /\ machine \in [Machines -> Rows] /\ job \in [Owners -> [Machines -> Jobs]]
    BY RefreshFacts DEF Inv, MachineInv, Typed
  <2>3. job[r][m].kind \in {"heal", "retire"}
    BY <2>1, <2>2, JobFacts DEF RefreshFits
  <2>4. \A p \in Owners : job[p][m].at = "forget" => p = r
    <3>1. \A p \in Owners : job[p][m].at = "forget" => Live(p, m)
      BY DEF Live, Places, Working
    <3> QED
      BY <2>1, <3>1, RefreshAlone
  <2>5. Calm /\ (Gone(m) => m \notin vms)
    BY <2>1, <2>2, RefreshHas, EntryFacts
  <2> QED
    BY <2>1, <2>2, <2>3, <2>4, <2>5, EntryFacts DEF RowFits
<1>RefreshChecks.
    ASSUME Inv, NEW r \in Refreshes, NEW m \in Machines,
           Healthcheck(r, m) \/ Healthchecked(r, m)
    PROVE  Keeps
  <2> USE <1>RefreshChecks
  <2>1. /\ flow[r] = "machines" /\ job[r][m].at \in {"check", "checking"}
        /\ UNCHANGED <<pool, execution, using, flow, release, freeing, vms>>
    BY DEF Healthcheck, Starts, Healthchecked, Finishes
  <2>2. /\ Live(r, m) /\ RefreshFits(r, m) /\ Calm /\ r \in Owners /\ r \notin Executions
        /\ job[r][m].at # "none" /\ job[r][m].kind \in {"heal", "retire"}
        /\ machine \in [Machines -> Rows]
        /\ Exists(m) <=> ~Gone(m)
        /\ ~Gone(m) => (m \in vms <=> machine[m].deployed /\ job[r][m].at # "forget")
    BY <2>1, <1>RefreshKnows DEF Waiting, Working
  <2>3. /\ job[r][m].kind = "heal"
        /\ machine[m].action = "none" /\ machine[m].deployed
        /\ machine[m].status = "HEALTHCHECKING" /\ machine[m].power = "POWERED_ON"
    BY <2>1, <2>2 DEF RefreshFits, Idling
  <2>4. ~Gone(m) /\ m \in vms
    BY <2>1, <2>2, <2>3 DEF Gone
  <2>5. CASE Healthcheck(r, m)
    <3>1. Goes(r, m, "checking") /\ UNCHANGED machine
      BY <2>2, <2>3, <2>4, <2>5 DEF Healthcheck, Errored
    <3>2. Touches(r, m) /\ job'[r][m].at = "checking" /\ job'[r][m].kind = "heal"
      BY <2>1, <2>2, <2>3, <3>1, Moves DEF Working
    <3>3. RefreshFits(r, m)'
      BY <2>3, <3>1, <3>2 DEF RefreshFits, Idling
    <3> QED
      BY <2>1, <2>2, <2>3, <2>4, <3>1, <3>2, <3>3, <1>RefreshTask
  <2>6. CASE Healthchecked(r, m)
    <3>1. SetAllocationStatus(m, "AVAILABLE") /\ Goes(r, m, "done")
      BY <2>2, <2>4, <2>6 DEF Healthchecked, Refused, Calm
    <3>2. /\ machine' \in [Machines -> Rows]
          /\ machine'[m].status = "AVAILABLE" /\ machine'[m].power = "POWERED_ON"
          /\ machine'[m].action = machine[m].action
          /\ machine'[m].deployed = machine[m].deployed
          /\ \A n \in Machines : n # m => machine'[n] = machine[n]
      BY <2>2, <2>3, <2>4, <3>1, StatusSet DEF MachineStatuses
    <3>3. Touches(r, m) /\ job'[r][m].at = "done" /\ job'[r][m].kind = "heal"
      BY <2>1, <2>2, <2>3, <3>1, <3>2, Moves DEF Ended
    <3>4. RefreshFits(r, m)' /\ ~Live(r, m)'
      BY <2>2, <3>3 DEF RefreshFits, Live, Places, Waiting, Working
    <3> QED
      BY <2>1, <2>2, <2>3, <2>4, <3>2, <3>3, <3>4, <1>RefreshTask
  <2> QED
    BY <2>5, <2>6
<1>RefreshDeletes.
    ASSUME Inv, NEW r \in Refreshes, NEW m \in Machines,
           Deallocate(r, m) \/ MachineDeleted(r, m) \/ Deallocated(r, m)
    PROVE  Keeps
  <2> USE <1>RefreshDeletes
  <2>1. /\ flow[r] = "machines" /\ job[r][m].at \in {"dealloc", "deleting", "forget"}
        /\ UNCHANGED <<pool, execution, using, flow, release, freeing>>
    BY DEF Deallocate, Starts, MachineDeleted, Deallocated, Finishes
  <2>2. /\ Live(r, m) /\ RefreshFits(r, m) /\ Calm /\ r \in Owners /\ r \notin Executions
        /\ job[r][m].at # "none" /\ job[r][m].kind \in {"heal", "retire"}
        /\ machine \in [Machines -> Rows]
        /\ Exists(m) <=> ~Gone(m)
        /\ Gone(m) => m \notin vms
        /\ ~Gone(m) => (m \in vms <=> machine[m].deployed /\ job[r][m].at # "forget")
    BY <2>1, <1>RefreshKnows DEF Waiting, Working
  <2>3. /\ job[r][m].kind = "retire"
        /\ Gone(m) \/ machine[m].status \in {"DEALLOCATING", "POWERING_OFF"}
        /\ machine[m].deployed => Gone(m) \/ Idling(m, "DEALLOCATING")
        /\ ~machine[m].deployed => Ghost(m)
        /\ job[r][m].at = "deleting" => Idling(m, "DEALLOCATING")
    BY <2>1, <2>2 DEF RefreshFits, Ghost, Idling
  <2>4. \A e \in Executions : e \in Owners /\ e # r
    BY <2>2, ActionFacts
  <2>5. CASE Deallocate(r, m)
    <3>0. job[r][m].at = "dealloc" /\ UNCHANGED vms
      BY <2>5 DEF Deallocate, Starts
    <3>1. CASE Gone(m)
      <4>1. Goes(r, m, "done") /\ UNCHANGED machine
        BY <2>2, <2>3, <2>5, <3>1 DEF Deallocate, AfterDeallocation
      <4>2. Touches(r, m) /\ job'[r][m].at = "done" /\ job'[r][m].kind = "retire"
        BY <2>1, <2>2, <2>3, <3>0, <4>1, Moves DEF Ended
      <4>3. RefreshFits(r, m)'
        BY <4>2 DEF RefreshFits
      <4>4. Gone(m)' /\ m \notin vms'
        BY <2>2, <3>0, <3>1, <4>1 DEF Gone
      <4> QED
        BY <2>1, <2>2, <4>2, <4>3, <4>4, <1>RefreshTask
    <3>2. CASE ~Gone(m) /\ machine[m].deployed
      <4>1. Goes(r, m, "deleting") /\ SetAllocationStatus(m, "DEALLOCATING")
        BY <2>2, <2>5, <3>2 DEF Deallocate
      <4>2. /\ machine' \in [Machines -> Rows]
            /\ machine'[m].status = "DEALLOCATING"
            /\ machine'[m].action = machine[m].action
            /\ machine'[m].deployed = machine[m].deployed
            /\ \A n \in Machines : n # m => machine'[n] = machine[n]
        BY <2>2, <3>2, <4>1, StatusSet DEF MachineStatuses
      <4>3. Touches(r, m) /\ job'[r][m].at = "deleting" /\ job'[r][m].kind = "retire"
        BY <2>1, <2>2, <2>3, <3>0, <4>1, <4>2, Moves DEF Working
      <4>4. RefreshFits(r, m)'
        BY <2>3, <3>2, <4>2, <4>3 DEF RefreshFits, Idling
      <4> QED
        BY <2>1, <2>2, <3>0, <3>2, <4>2, <4>3, <4>4, <1>RefreshTask
    <3>3. CASE ~Gone(m) /\ ~machine[m].deployed
      <4>1. Goes(r, m, "forget") /\ UNCHANGED machine
        BY <2>2, <2>5, <3>3 DEF Deallocate
      <4>2. Touches(r, m) /\ job'[r][m].at = "forget" /\ job'[r][m].kind = "retire"
        BY <2>1, <2>2, <2>3, <3>0, <4>1, Moves DEF Working
      <4>3. Ghost(m)'
        BY <2>1, <2>3, <2>4, <3>0, <3>3, <4>1, <4>2 DEF Ghost, Touches, ActionOf, Gone
      <4>4. RefreshFits(r, m)'
        BY <4>2, <4>3 DEF RefreshFits
      <4> QED
        BY <2>1, <2>2, <2>3, <3>0, <3>3, <4>1, <4>2, <4>4, <1>RefreshTask
    <3> QED
      BY <3>1, <3>2, <3>3
  <2>6. CASE MachineDeleted(r, m)
    <3>1. PICK place \in {"forget", "failed"} :
            /\ Goes(r, m, place) /\ UNCHANGED machine
            /\ vms' = IF place = "forget" THEN vms \ {m} ELSE vms
            /\ job[r][m].at = "deleting"
      BY <2>6 DEF MachineDeleted, Finishes
    <3>2. Touches(r, m) /\ job'[r][m].at = place /\ job'[r][m].kind = "retire"
      BY <2>1, <2>2, <2>3, <3>1, Moves DEF Working, Ended, Failed
    <3>3. RefreshFits(r, m)'
      BY <2>3, <3>1, <3>2 DEF RefreshFits, Idling
    <3>4. /\ machine[m].deployed /\ machine[m].status = "DEALLOCATING"
          /\ m \in vms' <=> place # "forget"
      BY <2>2, <2>3, <3>1 DEF Idling, Gone
    <3> QED
      BY <2>1, <2>2, <3>1, <3>2, <3>3, <3>4, <1>RefreshTask DEF Gone
  <2>7. CASE Deallocated(r, m)
    <3>1. /\ job[r][m].at = "forget" /\ UNCHANGED vms
          /\ IF Gone(m) THEN Goes(r, m, "failed") /\ UNCHANGED machine
             ELSE Goes(r, m, "done") /\ machine' = [machine EXCEPT ![m] = NoEntry]
      BY <2>2, <2>3, <2>7 DEF Deallocated, Finishes, AfterDeallocation
    <3>2. /\ machine' \in [Machines -> Rows] /\ machine'[m] = NoEntry
          /\ \A n \in Machines : n # m => machine'[n] = machine[n]
      BY <2>2, <3>1, EntryWritten DEF Rows, Exists
    <3>3. /\ Touches(r, m) /\ job'[r][m].at \in {"done", "failed"}
          /\ job'[r][m].kind = "retire"
      BY SMT, <2>1, <2>2, <2>3, <3>1, <3>2, Moves DEF Ended, Failed
    <3>4. RefreshFits(r, m)'
      BY <3>3 DEF RefreshFits
    <3>5. Gone(m)' /\ m \notin vms'
      BY SMT, <2>2, <3>1, <3>2 DEF Gone, NoEntry
    <3> QED
      BY <2>1, <2>2, <3>3, <3>4, <3>5, <1>RefreshTask
  <2> QED
    BY <2>5, <2>6, <2>7
<1>RefreshPowersOff.
    ASSUME Inv, NEW r \in Refreshes, NEW m \in Machines,
           PowerOff(r, m) \/ PoweredOff(r, m)
    PROVE  Keeps
  <2> USE <1>RefreshPowersOff
  <2>1. /\ flow[r] = "machines" /\ job[r][m].at \in {"off", "powering_off"}
        /\ UNCHANGED <<pool, execution, using, flow, release, freeing, vms>>
    BY DEF PowerOff, Starts, PoweredOff, Finishes
  <2>2. /\ Live(r, m) /\ RefreshFits(r, m) /\ Calm /\ r \in Owners /\ r \notin Executions
        /\ job[r][m].at # "none" /\ job[r][m].kind \in {"heal", "retire"}
        /\ machine \in [Machines -> Rows]
        /\ Exists(m) <=> ~Gone(m)
        /\ Gone(m) => m \notin vms
        /\ ~Gone(m) => (m \in vms <=> machine[m].deployed /\ job[r][m].at # "forget")
    BY <2>1, <1>RefreshKnows DEF Waiting, Working
  <2>3. /\ job[r][m].kind = "retire" /\ pool.retention = "poweroff"
        /\ Ghost(m) \/ Idling(m, "POWERING_OFF")
        /\ job[r][m].at = "powering_off" => Gone(m) \/ machine[m].power = "POWERING_OFF"
    BY <2>1, <2>2 DEF RefreshFits
  <2>4. /\ \A e \in Executions : e \in Owners /\ e # r
        /\ ~Gone(m) => machine[m].status \in {"POWERING_OFF", "DEALLOCATING"}
    BY <2>2, <2>3, ActionFacts DEF Ghost, Idling
  <2>5. CASE Gone(m)
    <3>1. Goes(r, m, "failed") /\ UNCHANGED machine
      <4>1. ~Exists(m) /\ machine[m].power = "none"
        BY <2>2, <2>5, EntryFacts
      <4>2. CASE PowerOff(r, m)
        BY <4>1, <4>2 DEF PowerOff
      <4>3. CASE PoweredOff(r, m)
        BY <4>1, <4>3 DEF PoweredOff
      <4> QED
        BY <4>2, <4>3
    <3>2. Touches(r, m) /\ job'[r][m].at = "failed" /\ job'[r][m].kind = "retire"
      BY <2>1, <2>2, <2>3, <3>1, Moves DEF Ended, Failed
    <3>3. RefreshFits(r, m)'
      BY <3>2 DEF RefreshFits
    <3>4. Gone(m)' /\ m \notin vms'
      BY <2>1, <2>2, <2>5, <3>1 DEF Gone
    <3> QED
      BY <2>1, <2>2, <3>2, <3>3, <3>4, <1>RefreshTask
  <2>6. CASE ~Gone(m) /\ PowerOff(r, m) /\ machine[m].power = "POWERED_OFF"
    <3>1. Goes(r, m, "done") /\ UNCHANGED machine
      BY <2>2, <2>6 DEF PowerOff
    <3>2. Touches(r, m) /\ job'[r][m].at = "done" /\ job'[r][m].kind = "retire"
      BY <2>1, <2>2, <2>3, <3>1, Moves DEF Ended
    <3>3. RefreshFits(r, m)'
      BY <3>2 DEF RefreshFits
    <3> QED
      BY <2>1, <2>2, <2>4, <2>6, <3>1, <3>2, <3>3, <1>RefreshTask
  <2>7. CASE ~Gone(m) /\ PowerOff(r, m) /\ machine[m].power # "POWERED_OFF"
    <3>1. Goes(r, m, "powering_off") /\ SetPowerStatus(m, "POWERING_OFF")
      BY <2>2, <2>7 DEF PowerOff
    <3>2. /\ machine' \in [Machines -> Rows]
          /\ machine'[m].power = "POWERING_OFF" /\ machine'[m].status = machine[m].status
          /\ machine'[m].action = machine[m].action
          /\ machine'[m].deployed = machine[m].deployed
          /\ \A n \in Machines : n # m => machine'[n] = machine[n]
      BY <2>2, <2>7, <3>1, PowerSet DEF PowerStatuses
    <3>3. Touches(r, m) /\ job'[r][m].at = "powering_off" /\ job'[r][m].kind = "retire"
      BY <2>1, <2>2, <2>3, <3>1, <3>2, Moves DEF Working
    <3>4. Ghost(m)' \/ Idling(m, "POWERING_OFF")'
      BY <2>1, <2>3, <2>4, <2>7, <3>2, <3>3 DEF Ghost, Idling, Touches, ActionOf, Gone
    <3>5. RefreshFits(r, m)'
      BY <2>1, <2>3, <3>2, <3>3, <3>4 DEF RefreshFits
    <3> QED
      BY <2>1, <2>2, <2>4, <2>7, <3>2, <3>3, <3>5, <1>RefreshTask
  <2>8. CASE ~Gone(m) /\ PoweredOff(r, m)
    <3>1. /\ Goes(r, m, "done") /\ job[r][m].at = "powering_off"
          /\ \/ m \in vms /\ machine' = [machine EXCEPT ![m].power = "POWERED_OFF",
                                                        ![m].status = "AVAILABLE"]
             \/ SetAllocationStatus(m, "POWER_ERROR")
      BY <2>2, <2>8 DEF PoweredOff, Finishes
    <3>2. /\ machine' \in [Machines -> Rows]
          /\ machine'[m].action = machine[m].action
          /\ machine'[m].deployed = machine[m].deployed
          /\ \/ /\ m \in vms /\ machine'[m].status = "AVAILABLE"
                /\ machine'[m].power = "POWERED_OFF"
             \/ /\ machine'[m].status = "POWER_ERROR"
                /\ machine'[m].power = "POWERING_OFF"
          /\ \A n \in Machines : n # m => machine'[n] = machine[n]
      <4>1. CASE m \in vms /\ machine' = [machine EXCEPT ![m].power = "POWERED_OFF",
                                                         ![m].status = "AVAILABLE"]
        <5>1. PICK row : row = [machine[m] EXCEPT !.power = "POWERED_OFF",
                                                  !.status = "AVAILABLE"]
          OBVIOUS
        <5>2. machine[m] \in [status : MachineStatuses, power : PowerStatuses,
                              action : Executions \cup {"none"}, deployed : BOOLEAN]
          BY SMT, <2>2, <2>8, EntryFacts DEF Rows, Gone, NoEntry
        <5>3. /\ row.power = "POWERED_OFF" /\ row.status = "AVAILABLE"
              /\ row.action = machine[m].action /\ row.deployed = machine[m].deployed
          BY <5>1, <5>2
        <5>4. row \in Rows
          BY <5>1, <5>2 DEF Rows, MachineStatuses, PowerStatuses
        <5>5. machine' = [machine EXCEPT ![m] = row]
          BY <2>2, <4>1, <5>1
        <5> QED
          BY <2>2, <4>1, <5>3, <5>4, <5>5, EntryWritten
      <4>2. CASE SetAllocationStatus(m, "POWER_ERROR")
        BY <2>2, <2>3, <2>8, <3>1, <4>2, StatusSet DEF MachineStatuses
      <4> QED
        BY <3>1, <4>1, <4>2
    <3>3. Touches(r, m) /\ job'[r][m].at = "done" /\ job'[r][m].kind = "retire"
      BY <2>1, <2>2, <2>3, <3>1, <3>2, Moves DEF Ended
    <3>4. RefreshFits(r, m)' /\ ~Live(r, m)'
      BY <2>2, <3>3 DEF RefreshFits, Live, Places, Waiting, Working
    <3> QED
      BY <2>1, <2>2, <2>3, <2>8, <3>1, <3>2, <3>3, <3>4, <1>RefreshTask
  <2> QED
    BY <2>5, <2>6, <2>7, <2>8
<1> SUFFICES ASSUME Inv, NEW r \in Refreshes, NEW m \in Machines, Task(r, m)
             PROVE  Keeps
  OBVIOUS
<1>1. job[r][m].at \notin {"power", "powering", "create", "creating"}
  <2>1. RefreshFits(r, m) /\ job[r][m] \in Jobs
    BY SMT, RefreshFacts DEF Inv, MachineInv, Typed
  <2> QED
    BY SMT, <2>1 DEF RefreshFits, Jobs, NoJob
<1>2. /\ ~PowerOn(r, m) /\ ~PoweredOn(r, m) /\ ~Allocate(r, m) /\ ~Allocated(r, m)
  BY <1>1 DEF PowerOn, PoweredOn, Allocate, Allocated, Starts, Finishes
<1> QED
  BY <1>2, <1>RefreshChecks, <1>RefreshDeletes, <1>RefreshPowersOff DEF Task

-----------------------------------------------------------------------------
(* Flows which end, and those which are reverted.                          *)

\* What is used and deallocated is as it was, when no entry changes.
LEMMA HeldKept ==
  ASSUME Inv, UNCHANGED <<pool, machine, using, freeing>>,
         \A e \in Executions : release'[e] = release[e] \/ release'[e].at # "read"
  PROVE  Held'
<1>1. ASSUME NEW e \in Executions
      PROVE  HeldBy(e)'
  <2>1. HeldBy(e)
    BY DEF Inv, Held
  <2>2. \A m \in Machines : InUse(e, m)' = InUse(e, m)
    BY DEF InUse, ActionOf
  <2>3. using[e] \subseteq Machines /\ freeing[e] \subseteq Machines
    BY DEF Inv, Typed
  <2> QED
    BY <2>1, <2>2, <2>3 DEF HeldBy, ActionOf
<1> QED
  BY <1>1 DEF Held

LEMMA SentFacts ==
  /\ Sent = [at |-> "sent", listed |-> {}, fresh |-> {}] /\ Sent.at = "sent"
  /\ Sent \in [at : {"none", "sent", "read", "over"}, listed : SUBSET Machines,
               fresh : SUBSET Machines]
<1>1. Sent = [at |-> "sent", listed |-> {}, fresh |-> {}]
  BY SMT DEF Sent, NotAsked
<1> QED
  BY <1>1

\* The failure of a flow is reported to the execution it is for: nothing else is awaited.
LEMMA ReportFacts ==
  ASSUME Inv, NEW e \in Executions, flow[e] \notin {"none", "over"}, ReportFailure(e)
  PROVE  /\ execution' \in [Executions -> {"none", "AWAITING", "RUNNING", "ENDED"}]
         /\ execution'[e] = "ENDED"
         /\ release' \in [Executions -> [at : {"none", "sent", "read", "over"},
                                         listed : SUBSET Machines,
                                         fresh : SUBSET Machines]]
         /\ release'[e].at = "sent"
         /\ \A x \in Executions : x # e => /\ execution'[x] = execution[x]
                                           /\ release'[x] = release[x]
<1>1. /\ execution \in [Executions -> {"none", "AWAITING", "RUNNING", "ENDED"}]
      /\ release \in [Executions -> [at : {"none", "sent", "read", "over"},
                                     listed : SUBSET Machines,
                                     fresh : SUBSET Machines]]
  BY DEF Inv, Typed
<1>2. execution[e] \in {"AWAITING", "ENDED"}
  BY SMT, <1>1 DEF Inv, Stages, Stage
<1>3. Busy(e) /\ e \in SameAction(e)
  BY ActionFacts DEF Busy
<1>4. ASSUME NEW x \in Executions, IsAwaited(x, e)
      PROVE  x = e
  <2>1. Busy(x) /\ x \in SameAction(e)
    BY <1>4 DEF IsAwaited, Busy
  <2> QED
    BY <1>3, <2>1 DEF Inv, InOrder, Ordered
<1>5. IsAwaited(e, e) <=> execution[e] = "AWAITING"
  BY <1>3 DEF IsAwaited
<1>6. /\ execution' = [x \in Executions |-> IF IsAwaited(x, e) THEN "ENDED" ELSE execution[x]]
      /\ release' = [release EXCEPT ![e] = Sent]
  BY DEF ReportFailure
<1>7. execution' \in [Executions -> {"none", "AWAITING", "RUNNING", "ENDED"}]
  BY <1>1, <1>6
<1>8. execution'[e] = "ENDED" /\ \A x \in Executions : x # e => execution'[x] = execution[x]
  BY <1>2, <1>4, <1>5, <1>6
<1> QED
  BY <1>1, <1>6, <1>7, <1>8, SentFacts

\* A flow which fails asks for the deallocation of its machines and is over.
LEMMA GivesUp ==
  ASSUME Inv, NEW e \in Executions, flow[e] \notin {"none", "over"}, ReportFailure(e),
         flow' \in [Owners -> FlowPlaces], flow'[e] = "over",
         \A p \in Owners : p # e => flow'[p] = flow[p] /\ job'[p] = job[p],
         job' \in [Owners -> [Machines -> Jobs]],
         \A m \in Machines : job'[e][m].at = "none",
         UNCHANGED <<pool, machine, vms, using, freeing>>,
         \A m \in Machines : MachineInv(m)'
  PROVE  Keeps
<1>1. /\ execution' \in [Executions -> {"none", "AWAITING", "RUNNING", "ENDED"}]
      /\ execution'[e] = "ENDED"
      /\ release' \in [Executions -> [at : {"none", "sent", "read", "over"},
                                      listed : SUBSET Machines,
                                      fresh : SUBSET Machines]]
      /\ release'[e].at = "sent"
      /\ \A x \in Executions : x # e => /\ execution'[x] = execution[x]
                                        /\ release'[x] = release[x]
  BY ReportFacts
<1>2. Typed' /\ Sound'
  BY <1>1 DEF Inv, Typed, Sound, Calm, Fails
<1>3. \A x \in Executions : x \in Owners /\ SameAction(x)' = SameAction(x)
  BY ActionFacts DEF SameAction, ActionOf
<1>4. /\ ~Busy(e)' /\ Releasing(e)'
      /\ \A x \in Executions : x # e => /\ Busy(x)' <=> Busy(x)
                                        /\ Releasing(x)' <=> Releasing(x)
  BY <1>1, <1>3 DEF Busy, Releasing
<1>5. \A x \in Executions : x \in SameAction(e) =>
        freeing[x] = {} /\ ~Releasing(x) /\ (x # e => ~Busy(x))
  <2>1. Busy(e) /\ e \in SameAction(e)
    BY ActionFacts DEF Busy
  <2>2. \A x \in Executions : x \in SameAction(e) => freeing[x] = {} /\ ~Releasing(x)
    BY FlowAlone, ActionFacts
  <2> QED
    BY <2>1, <2>2 DEF Inv, InOrder, Ordered
<1>6. \A x, y \in Executions : x \in SameAction(y) => y \in SameAction(x)
  BY DEF SameAction
<1>7. InOrder'
  <2>1. ASSUME NEW y \in Executions, NEW x \in SameAction(y), y # e, x # e
        PROVE  Ordered(y, x)'
    <3>1. x \in Executions
      BY DEF SameAction
    <3> QED
      BY SMT, <1>1, <1>4, <2>1, <3>1 DEF Inv, InOrder, Ordered
  <2>2. ASSUME NEW y \in Executions, NEW x \in SameAction(y), y = e \/ x = e
        PROVE  Ordered(y, x)'
    <3>1. x \in Executions /\ x \in SameAction(e) /\ y \in SameAction(e)
      BY <1>6, <2>2 DEF SameAction
    <3> QED
      BY <1>1, <1>4, <1>5, <2>2, <3>1 DEF Ordered
  <2> QED
    BY <1>3, <2>1, <2>2 DEF InOrder
<1>8. Stages'
  <2>1. \A x \in Executions : \A m \in Machines : InUse(x, m)' = InUse(x, m)
    BY DEF InUse, ActionOf
  <2>2. using[e] = {}
    BY FlowAlone
  <2>3. ASSUME NEW x \in Executions, x # e
        PROVE  /\ flow'[x] = flow[x] /\ job'[x] = job[x] /\ execution'[x] = execution[x]
               /\ release'[x] = release[x]
    BY <1>1, <1>3, <2>3
  <2>4. Stage(e)'
    BY SMT, <1>1, <2>1, <2>2 DEF Inv, Stages, Stage
  <2>5. ASSUME NEW x \in Executions, x # e
        PROVE  Stage(x)'
    <3>1. Stage(x)
      BY DEF Inv, Stages
    <3> QED
      BY SMT, <2>1, <2>3, <2>5, <3>1 DEF Stage
  <2> QED
    BY <2>4, <2>5 DEF Stages
<1>9. RefreshStages'
  <2>1. \A r \in Refreshes : flow'[r] = flow[r] /\ job'[r] = job[r]
    BY RefreshFacts
  <2> QED
    BY SMT, <2>1 DEF Inv, RefreshStages, RefreshStage
<1>10. Held'
  BY <1>1, HeldKept
<1>11. NoneAdded
  BY DEF NoneAdded, Entries, Exists
<1> QED
  BY <1>2, <1>7, <1>8, <1>9, <1>10, <1>11 DEF Inv, Keeps

\* Flows which end, go on or are reverted keep everything in order.
LEMMA FlowEnds ==
  /\ \A o \in Owners : Inv /\ (MachinesSettled(o) \/ Reverted(o)) => Keeps
  /\ \A o \in Owners : \A m \in Machines : Inv /\ RevertAllocation(o, m) => Keeps
  /\ \A e \in Executions :
       Inv /\ (ChecksMachines(e) \/ ConfirmMinionsAllocation(e)) => Keeps
\* A flow which does nothing with a machine any more can leave it as it is.
<1>MachineDropped.
    ASSUME Inv, NEW o \in Owners, NEW m \in Machines, UNCHANGED pool,
           machine'[m] = machine[m], m \in vms' <=> m \in vms, job'[o][m] = NoJob,
           \A p \in Owners : p # o => job'[p][m] = job[p][m],
           job[o][m].at \notin Working, Calm => job[o][m].at # "uncreated"
    PROVE  MachineInv(m)'
  <2> USE <1>MachineDropped
  <2>1. MachineInv(m)
    BY DEF Inv
  <2>2. job'[o][m].kind = "none" /\ job'[o][m].at = "none" /\ ~Live(o, m)'
    BY SMT DEF NoJob, Live, Places, Waiting, Working
  <2>3. /\ Calm' = Calm /\ (Gone(m)' <=> Gone(m))
        /\ \A p \in Owners : Live(p, m)' => Live(p, m) /\ p # o
        /\ \A p \in Owners : p # o => (Live(p, m)' <=> Live(p, m))
    BY <2>2 DEF Calm, Fails, Gone, Live
  <2>4. ASSUME NEW e \in Executions
        PROVE  ExecutionFits(e, m)'
    <3>1. CASE e = o
      BY <2>2, <3>1 DEF ExecutionFits, Redeploys
    <3>2. CASE e # o
      <4>1. ExecutionFits(e, m) /\ job'[e][m] = job[e][m]
        BY <2>1, <3>2, ActionFacts DEF MachineInv
      <4> QED
        BY <2>3, <4>1 DEF ExecutionFits, OfAction, Undeployed, InUse, ActionOf
    <3> QED
      BY <3>1, <3>2
  <2>5. ASSUME NEW r \in Refreshes
        PROVE  RefreshFits(r, m)'
    <3>1. CASE r = o
      BY <2>2, <3>1 DEF RefreshFits
    <3>2. CASE r # o /\ ~Live(r, m)
      BY <2>1, <3>2, RefreshGone, RefreshFacts DEF MachineInv
    <3>3. CASE r # o /\ Live(r, m)
      <4>1. RefreshFits(r, m) /\ job'[r][m] = job[r][m]
        BY <2>1, <3>3, RefreshFacts DEF MachineInv
      <4>2. \A e \in Executions : job[e][m].at = "uncreated" => job'[e][m] = job[e][m]
        BY <3>3, RefreshHas, ActionFacts
      <4>3. Ghost(m) => Ghost(m)'
        BY <2>3, <4>2 DEF Ghost, ActionOf
      <4>4. \A status : Idling(m, status)' = Idling(m, status)
        BY DEF Idling
      <4> QED
        BY <2>3, <4>1, <4>3, <4>4 DEF RefreshFits
    <3> QED
      BY <3>1, <3>2, <3>3
  <2>6. Apart(m)'
    <3>1. ASSUME NEW p \in Owners, NEW q \in Owners, p # q, Live(p, m)', Live(q, m)'
          PROVE  /\ Live(p, m) /\ Live(q, m)
                 /\ job'[p][m] = job[p][m] /\ job'[q][m] = job[q][m]
      BY <2>3, <3>1
    <3> QED
      BY SMT, <2>1, <3>1 DEF MachineInv, Apart
  <2>7. RowFits(m)'
    <3>1. \A p \in Owners : job'[p][m].at = "forget" <=> job[p][m].at = "forget"
      BY <2>2 DEF Working
    <3> QED
      BY <2>1, <2>3, <3>1 DEF MachineInv, RowFits, Fails
  <2>8. ASSUME Calm
        PROVE  RowCalm(m)'
    <3>1. /\ RowCalm(m) /\ \A e \in Executions : e \in Owners
      BY <2>1, <2>8, ActionFacts DEF MachineInv
    <3>2. \A e \in Executions : job[e][m].at \in {"uncreated", "powering"} =>
            job'[e][m] = job[e][m]
      BY <2>8, <3>1 DEF Working
    <3>3. ASSUME o \in Executions, Live(o, m), ~machine[m].deployed
          PROVE  machine[m].status = "UNINITIALIZED"
      <4>1. ExecutionFits(o, m) /\ job[o][m].at \in Waiting \cup {"created", "done", "failed"}
        BY <2>1, <2>8, <3>3 DEF MachineInv, Live, Places
      <4> QED
        BY <2>8, <3>3, <4>1
           DEF ExecutionFits, Waiting, Redeploys, Undeployed, InUse
    <3>4. /\ machine[m].action # "none" /\ ~machine[m].deployed =>
            machine[m].status = "UNINITIALIZED" \/ \E e \in Executions : Live(e, m)'
      BY <2>3, <3>1, <3>3 DEF RowCalm
    <3> QED
      BY <3>1, <3>2, <3>4 DEF RowCalm
  <2> QED
    BY <2>3, <2>4, <2>5, <2>6, <2>7, <2>8 DEF MachineInv
\* A flow is over.
<1>OverFacts.
    ASSUME Inv, NEW o \in Owners, Over(o)
    PROVE  /\ job' \in [Owners -> [Machines -> Jobs]] /\ flow' \in [Owners -> FlowPlaces]
           /\ flow'[o] = IF o \in Executions THEN "over" ELSE "none"
           /\ \A p \in Owners : p # o => flow'[p] = flow[p] /\ job'[p] = job[p]
           /\ \A m \in Machines : job'[o][m] = NoJob /\ job'[o][m].at = "none"
  <2> USE <1>OverFacts
  <2>1. flow \in [Owners -> FlowPlaces] /\ job \in [Owners -> [Machines -> Jobs]]
    BY DEF Inv, Typed
  <2>2. [m \in Machines |-> NoJob] \in [Machines -> Jobs] /\ NoJob.at = "none"
    BY DEF Jobs, NoJob
  <2>3. PICK none \in [Machines -> Jobs] :
          none = [m \in Machines |-> NoJob] /\ \A m \in Machines : none[m] = NoJob
    BY <2>2
  <2>4. job' = [job EXCEPT ![o] = none]
    BY <2>3 DEF Over
  <2>5. PICK place \in FlowPlaces : place = IF o \in Executions THEN "over" ELSE "none"
    BY DEF FlowPlaces
  <2>6. flow' = [flow EXCEPT ![o] = place]
    BY <2>5 DEF Over
  <2> QED
    BY <2>1, <2>2, <2>3, <2>4, <2>5, <2>6
\* The flow of an execution goes on, or that of a refresh goes on or ends: neither machines
\* nor executions are concerned.
<1>FlowGoesOn.
    ASSUME Inv, NEW o \in Owners, flow[o] \notin {"none", "over"},
           UNCHANGED <<pool, machine, vms, execution, using, release, freeing>>,
           flow' \in [Owners -> FlowPlaces], job' \in [Owners -> [Machines -> Jobs]],
           \A p \in Owners : p # o => flow'[p] = flow[p] /\ job'[p] = job[p],
           o \in Executions => flow'[o] \notin {"none", "over"},
           \A m \in Machines : MachineInv(m)', Stages', RefreshStages'
    PROVE  Keeps
  <2> USE <1>FlowGoesOn
  <2>1. Typed' /\ Sound'
    BY DEF Inv, Typed, Sound, Calm, Fails
  <2>2. \A x \in Executions : /\ SameAction(x)' = SameAction(x) /\ (Busy(x)' => Busy(x))
                              /\ Releasing(x)' <=> Releasing(x)
    BY ActionFacts DEF SameAction, ActionOf, Busy, Releasing
  <2>3. ASSUME NEW y \in Executions, NEW x \in SameAction(y)
        PROVE  Ordered(y, x)'
    <3>1. x \in Executions
      BY DEF SameAction
    <3> QED
      BY <2>2, <3>1 DEF Inv, InOrder, Ordered
  <2>4. InOrder'
    BY <2>2, <2>3 DEF InOrder
  <2>5. Held' /\ NoneAdded
    BY HeldKept DEF NoneAdded, Entries, Exists
  <2> QED
    BY <2>1, <2>4, <2>5 DEF Inv, Keeps
<1>MachinesSettledStep.
    ASSUME Inv, NEW o \in Owners, MachinesSettled(o)
    PROVE  Keeps
  <2> USE <1>MachinesSettledStep
  <2>1. /\ flow[o] = "machines" /\ Settled(o)
        /\ UNCHANGED <<pool, machine, vms, execution, using, release, freeing>>
        /\ flow \in [Owners -> FlowPlaces] /\ job \in [Owners -> [Machines -> Jobs]]
    BY DEF MachinesSettled, Inv, Typed
  <2>2. \A m \in Machines : job[o][m].at \in {"none"} \cup Ended \cup Waiting
    BY <2>1 DEF Settled
  <2>3. CASE ~Failing(o) /\ o \in Refreshes
    <3>1. /\ Over(o) /\ o \notin Executions
      BY <2>3, RefreshFacts DEF MachinesSettled
    <3>2. /\ job' \in [Owners -> [Machines -> Jobs]] /\ flow' \in [Owners -> FlowPlaces]
          /\ flow'[o] = "none"
          /\ \A p \in Owners : p # o => flow'[p] = flow[p] /\ job'[p] = job[p]
          /\ \A m \in Machines : job'[o][m] = NoJob /\ job'[o][m].at = "none"
      BY <3>1, <1>OverFacts
    <3>3. ASSUME NEW m \in Machines
          PROVE  MachineInv(m)'
      <4>1. job[o][m].at \notin Working /\ job[o][m].at # "uncreated"
        BY <2>2, <2>3 DEF Working, Waiting, Ended, Failed, Failing
      <4> QED
        BY <2>1, <3>2, <4>1, <1>MachineDropped
    <3>4. Stages'
      <4>1. \A e \in Executions : flow'[e] = flow[e] /\ job'[e] = job[e]
        BY <3>1, <3>2, ActionFacts
      <4>2. \A e \in Executions : \A m \in Machines : InUse(e, m)' = InUse(e, m)
        BY <2>1 DEF InUse, ActionOf
      <4> QED
        BY SMT, <2>1, <4>1, <4>2 DEF Inv, Stages, Stage
    <3>5. RefreshStages'
      BY SMT, <2>1, <3>2, RefreshFacts DEF Inv, RefreshStages, RefreshStage
    <3> QED
      BY <2>1, <3>1, <3>2, <3>3, <3>4, <3>5, <1>FlowGoesOn
  <2>4. CASE Failing(o) \/ o \in Executions
    <3>1. PICK place : /\ place = IF Failing(o) THEN "reverting" ELSE "confirm"
                       /\ flow' = [flow EXCEPT ![o] = place]
      BY <2>4, ActionFacts DEF MachinesSettled
    <3>2. UNCHANGED job /\ place \in {"reverting", "confirm"}
      BY <2>4, <3>1, ActionFacts DEF MachinesSettled
    <3>3. /\ flow' \in [Owners -> FlowPlaces] /\ flow'[o] = place
          /\ \A p \in Owners : p # o => flow'[p] = flow[p]
      BY <2>1, <3>1, <3>2 DEF FlowPlaces
    <3>4. ASSUME NEW m \in Machines
          PROVE  MachineInv(m)'
      BY <2>1, <3>2, MachineKept DEF Inv
    <3>5. /\ \A m \in Machines : job[o][m].at \notin Working
          /\ place = "confirm" =>
               /\ o \in Executions
               /\ \A m \in Machines : job[o][m].at \in {"none", "done", "created"}
      BY <2>1, <2>2, <2>4, <3>1 DEF Settled, Failing, Working, Waiting, Ended, Failed
    <3>6. Stages'
      <4>1. \A e \in Executions : \A m \in Machines : InUse(e, m)' = InUse(e, m)
        BY <2>1 DEF InUse, ActionOf
      <4>2. \A e \in Executions : e \in Owners
        BY ActionFacts
      <4> QED
        BY SMT, <2>1, <3>2, <3>3, <3>5, <4>1, <4>2 DEF Inv, Stages, Stage
    <3>7. RefreshStages'
      BY <2>1, <3>2, <3>3, <3>5, RefreshFacts DEF Inv, RefreshStages, RefreshStage
    <3> QED
      BY <2>1, <3>2, <3>3, <3>4, <3>6, <3>7, <1>FlowGoesOn
  <2> QED
    BY <2>3, <2>4 DEF Owners
<1>RevertedStep.
    ASSUME Inv, NEW o \in Owners, Reverted(o)
    PROVE  Keeps
  <2> USE <1>RevertedStep
  <2>1. /\ flow[o] = "reverting" /\ Reversible(o) = {} /\ Over(o)
        /\ UNCHANGED <<pool, machine, vms, using, freeing>>
    BY DEF Reverted
  <2>2. /\ job' \in [Owners -> [Machines -> Jobs]] /\ flow' \in [Owners -> FlowPlaces]
        /\ flow'[o] = IF o \in Executions THEN "over" ELSE "none"
        /\ \A p \in Owners : p # o => flow'[p] = flow[p] /\ job'[p] = job[p]
        /\ \A m \in Machines : job'[o][m] = NoJob /\ job'[o][m].at = "none"
    BY <2>1, <1>OverFacts
  <2>3. ASSUME NEW m \in Machines
        PROVE  MachineInv(m)'
    <3>1. job[o][m].at \notin Working /\ job[o][m].at # "uncreated"
      BY <2>1 DEF Reversible, Inv, Stages, Stage, RefreshStages, RefreshStage, Owners
    <3> QED
      BY <2>1, <2>2, <3>1, <1>MachineDropped
  <2>4. CASE o \in Executions
    <3>1. ReportFailure(o)
      BY <2>4 DEF Reverted
    <3> QED
      BY <2>1, <2>2, <2>3, <2>4, <3>1, GivesUp
  <2>5. CASE o \in Refreshes
    <3>1. o \notin Executions /\ UNCHANGED <<execution, release>>
      BY <2>5, RefreshFacts DEF Reverted
    <3>2. Stages'
      <4>1. \A e \in Executions : flow'[e] = flow[e] /\ job'[e] = job[e]
        BY <2>2, <3>1, ActionFacts
      <4>2. \A e \in Executions : \A m \in Machines : InUse(e, m)' = InUse(e, m)
        BY <2>1 DEF InUse, ActionOf
      <4> QED
        BY SMT, <2>1, <3>1, <4>1, <4>2 DEF Inv, Stages, Stage
    <3>3. RefreshStages'
      BY SMT, <2>1, <2>2, <3>1, RefreshFacts DEF Inv, RefreshStages, RefreshStage
    <3> QED
      BY <2>1, <2>2, <2>3, <3>1, <3>2, <3>3, <1>FlowGoesOn
  <2> QED
    BY <2>4, <2>5 DEF Owners
\* The entry of a machine is removed by the flow which has created it, or has failed to.
<1>RevertedMachine.
    ASSUME Inv, NEW e \in Executions, NEW m \in Machines,
           job[e][m].at \in {"created", "uncreated"}, UNCHANGED pool,
           machine'[m] = NoEntry,
           m \in vms' => m \in vms /\ machine[m].deployed /\ Fails("undeletable"),
           job'[e][m].at \in {"reverted", "none"}, job'[e][m].kind # "retire",
           \A p \in Owners : p # e => job'[p][m] = job[p][m]
    PROVE  MachineInv(m)'
  <2> USE <1>RevertedMachine
  <2>1. Live(e, m) /\ ~Live(e, m)' /\ MachineInv(m) /\ e \in Owners
    BY ActionFacts DEF Live, Places, Waiting, Working, Inv
  <2>2. /\ Gone(m)' /\ machine'[m].status = "none" /\ machine'[m].action = "none"
        /\ ~machine'[m].deployed
    BY SMT DEF NoEntry, Gone
  <2>3. ASSUME NEW x \in Executions
        PROVE  ExecutionFits(x, m)' /\ ~Live(x, m)'
    <3>1. CASE x = e
      BY <2>1, <3>1 DEF ExecutionFits, Redeploys
    <3>2. CASE x # e
      <4>1. x \in Owners /\ ~Live(x, m) /\ ExecutionFits(x, m)
        BY <2>1, <3>2, ExecutionAlone, ActionFacts DEF MachineInv
      <4> QED
        BY <3>2, <4>1, ExecutionGone
    <3> QED
      BY <3>1, <3>2
  <2>4. ASSUME NEW r \in Refreshes
        PROVE  RefreshFits(r, m)' /\ (Live(r, m)' => Live(r, m))
    <3>1. r \in Owners /\ r # e /\ RefreshFits(r, m) /\ job'[r][m] = job[r][m]
      BY <2>1, RefreshFacts DEF MachineInv
    <3>2. CASE ~Live(r, m)
      BY <3>1, <3>2, RefreshGone
    <3>3. CASE Live(r, m)
      <4>1. job[e][m].at = "uncreated"
        BY <2>1, <3>1, <3>3, ExecutionAlone
      <4>2. ~machine[m].deployed /\ ~(m \in vms')
        BY <2>1, <4>1 DEF MachineInv, ExecutionFits
      <4>3. Ghost(m)'
        BY <2>2, <4>2 DEF Ghost
      <4>4. job[r][m].at \notin {"check", "checking", "deleting"}
        BY <3>1, <4>2 DEF RefreshFits, Idling
      <4> QED
        BY <2>2, <3>1, <3>3, <4>3, <4>4 DEF RefreshFits
    <3> QED
      BY <3>2, <3>3
  <2>5. Apart(m)'
    <3>1. ASSUME NEW p \in Owners, NEW q \in Owners, p # q, Live(p, m)', Live(q, m)'
          PROVE  FALSE
      <4>1. p \in Refreshes /\ q \in Refreshes
        BY <2>3, <3>1 DEF Owners
      <4> QED
        BY <2>4, <3>1, <4>1, RefreshAlone, RefreshFacts
    <3> QED
      BY <3>1 DEF Apart
  <2>6. RowFits(m)' /\ RowCalm(m)'
    BY <2>2 DEF RowFits, RowCalm, Fails
  <2> QED
    BY <2>3, <2>4, <2>5, <2>6 DEF MachineInv
<1>RevertAllocationStep.
    ASSUME Inv, NEW o \in Owners, NEW m \in Machines, RevertAllocation(o, m)
    PROVE  Keeps
  <2> USE <1>RevertAllocationStep
  <2>1. /\ flow[o] = "reverting" /\ job[o][m].at \in {"created", "uncreated"}
        /\ machine' = [machine EXCEPT ![m] = NoEntry]
        /\ UNCHANGED <<pool, execution, using, release, freeing>>
        /\ machine \in [Machines -> Rows] /\ job \in [Owners -> [Machines -> Jobs]]
        /\ vms \subseteq Machines
    BY DEF RevertAllocation, Reversible, Inv, Typed
  <2>2. o \in Executions
    <3>1. ASSUME o \in Refreshes
          PROVE  FALSE
      <4>1. RefreshFits(o, m) /\ job[o][m].kind \in {"new", "heal", "retire"}
        BY <2>1, <3>1, JobFacts DEF Inv, MachineInv
      <4> QED
        BY <2>1, <4>1 DEF RefreshFits
    <3> QED
      BY <3>1 DEF Owners
  <2>3. /\ machine' \in [Machines -> Rows] /\ machine'[m] = NoEntry
        /\ \A n \in Machines : n # m => machine'[n] = machine[n]
    BY <2>1, EntryWritten DEF Rows
  <2>4. /\ Gone(m)' /\ machine'[m].action = "none" /\ job[o][m].at # "none"
        /\ Live(o, m) /\ MachineInv(m)
    BY <2>1, <2>3 DEF NoEntry, Gone, Live, Places, Inv
  <2>5. /\ ExecutionFits(o, m) /\ job[o][m].kind # "retire"
        /\ job[o][m].kind = "heal" => ~Calm
        /\ m \in vms => machine[m].deployed
    BY <2>1, <2>2, <2>4 DEF MachineInv, ExecutionFits, InUse
  <2>6. CASE /\ Goes(o, m, "reverted") /\ UNCHANGED flow
             /\ \/ vms' = IF machine[m].deployed THEN vms \ {m} ELSE vms
                \/ machine[m].deployed /\ Fails("undeletable") /\ UNCHANGED vms
    <3>1. /\ job' \in [Owners -> [Machines -> Jobs]]
          /\ job'[o][m].at = "reverted" /\ job'[o][m].kind = job[o][m].kind
          /\ \A p \in Owners : \A n \in Machines :
               p # o \/ n # m => job'[p][n] = job[p][n]
      BY <2>1, <2>4, <2>6, GoesFacts
    <3>2. /\ vms' \subseteq Machines /\ \A n \in Machines : n # m => (n \in vms' <=> n \in vms)
          /\ m \in vms' => m \in vms /\ machine[m].deployed /\ Fails("undeletable")
      BY <2>1, <2>5, <2>6
    <3>3. Touches(o, m)
      BY <2>1, <2>3, <2>6, <3>1, <3>2 DEF Touches
    <3>4. MachineInv(m)'
      BY SMT, <2>1, <2>2, <2>3, <2>5, <3>1, <3>2, <1>RevertedMachine
    <3> QED
      BY <2>1, <2>4, <3>1, <3>3, <3>4, TaskStep DEF Working
  <2>7. CASE /\ machine[m].deployed /\ Fails("undeletable") /\ UNCHANGED vms
             /\ job[o][m].kind # "new" /\ Over(o)
    <3>1. ~Calm /\ ~pool.refreshed
      BY <2>1, <2>4, <2>5, <2>7, JobFacts DEF Inv, Sound
    <3>2. /\ job' \in [Owners -> [Machines -> Jobs]] /\ flow' \in [Owners -> FlowPlaces]
          /\ flow'[o] = "over"
          /\ \A p \in Owners : p # o => flow'[p] = flow[p] /\ job'[p] = job[p]
          /\ \A n \in Machines : job'[o][n] = NoJob /\ job'[o][n].at = "none"
      BY <2>2, <2>7, <1>OverFacts
    <3>3. Typed' /\ Sound'
      BY <2>1, <2>3, <2>7, <3>2 DEF Inv, Typed, Sound, Calm, Fails
    <3>4. \A x \in Executions : /\ SameAction(x)' = SameAction(x) /\ (Busy(x)' => Busy(x))
                                /\ Releasing(x)' <=> Releasing(x)
      BY <2>1, <3>2, ActionFacts DEF SameAction, ActionOf, Busy, Releasing
    <3>5. InOrder'
      <4>1. ASSUME NEW y \in Executions, NEW x \in SameAction(y)
            PROVE  Ordered(y, x)'
        <5>1. x \in Executions
          BY DEF SameAction
        <5> QED
          BY <2>1, <3>4, <5>1 DEF Inv, InOrder, Ordered
      <4> QED
        BY <3>4, <4>1 DEF InOrder
    <3>6. Stages'
      <4>1. ASSUME NEW x \in Executions, NEW n \in Machines, flow'[x] = "confirming",
                   job'[x][n].at # "none"
            PROVE  InUse(x, n)'
        <5>1. x \in Owners /\ x # o /\ flow[x] = "confirming" /\ job[x][n].at # "none"
          BY <3>2, <4>1, ActionFacts
        <5>2. InUse(x, n) /\ job[x][n].at \in {"done", "created"}
          BY <5>1 DEF Inv, Stages, Stage
        <5>3. n # m
          <6>1. job[x][n].at \in {"done", "created"} => Live(x, n)
            BY DEF Live, Places
          <6> QED
            BY SMT, <2>2, <2>4, <5>1, <5>2, <6>1, ExecutionAlone, ActionFacts
        <5> QED
          BY <2>1, <2>3, <5>2, <5>3 DEF InUse, ActionOf
      <4>2. execution[o] # "RUNNING" /\ execution[o] # "none"
        BY <2>1, <2>2 DEF Inv, Stages, Stage
      <4>3. \A x \in Executions : x # o => flow'[x] = flow[x] /\ job'[x] = job[x]
        BY <3>2, ActionFacts
      <4> QED
        BY SMT, <2>1, <3>2, <4>1, <4>2, <4>3 DEF Inv, Stages, Stage
    <3>7. RefreshStages'
      <4>1. \A r \in Refreshes : flow'[r] = flow[r] /\ job'[r] = job[r]
        BY <2>2, <3>2, RefreshFacts
      <4> QED
        BY SMT, <2>1, <4>1 DEF Inv, RefreshStages, RefreshStage
    <3>8. Held'
      BY <2>1, <2>3, <2>4, HeldTouched
    <3>9. ASSUME NEW n \in Machines
          PROVE  MachineInv(n)'
      <4>1. CASE n = m
        <5>1. job'[o][m].at = "none" /\ job'[o][m].kind # "retire"
          BY SMT, <3>2 DEF NoJob
        <5> QED
          BY <2>1, <2>2, <2>3, <2>7, <3>2, <4>1, <5>1, <1>RevertedMachine
      <4>2. CASE n # m
        <5>1. job[o][n].at \notin Working
          BY <2>1, <2>2 DEF Inv, Stages, Stage
        <5> QED
          BY SMT, <2>1, <2>3, <2>7, <3>1, <3>2, <4>2, <5>1, <1>MachineDropped
      <4> QED
        BY <4>1, <4>2
    <3>10. NoneAdded
      BY <3>1 DEF NoneAdded
    <3> QED
      BY <3>3, <3>5, <3>6, <3>7, <3>8, <3>9, <3>10 DEF Inv, Keeps
  <2> QED
    BY <2>6, <2>7 DEF RevertAllocation
\* What the flow of an execution does once its machines are ready, or not.
<1>ChecksMachinesStep.
    ASSUME Inv, NEW e \in Executions, ChecksMachines(e)
    PROVE  Keeps
  <2> USE <1>ChecksMachinesStep
  <2>1. /\ flow[e] = "confirm"
        /\ UNCHANGED <<pool, machine, vms, execution, using, job, release, freeing>>
        /\ flow \in [Owners -> FlowPlaces] /\ job \in [Owners -> [Machines -> Jobs]]
        /\ e \in Owners
    BY ActionFacts DEF ChecksMachines, Inv, Typed
  <2>2. PICK place \in {"confirming", "reverting"} :
          /\ flow' = [flow EXCEPT ![e] = place]
          /\ place = "confirming" => \A m \in MachinesOf(e) :
               machine[m] = [status |-> "IN_USE", power |-> "POWERED_ON",
                             action |-> ActionOf(e), deployed |-> TRUE]
    BY DEF ChecksMachines
  <2>3. /\ flow' \in [Owners -> FlowPlaces] /\ flow'[e] = place
        /\ \A p \in Owners : p # e => flow'[p] = flow[p]
    BY <2>1, <2>2 DEF FlowPlaces
  <2>4. \A m \in Machines : job[e][m].at \in {"none", "done", "created"}
    BY <2>1 DEF Inv, Stages, Stage
  <2>5. ASSUME place = "confirming", NEW m \in Machines, job[e][m].at # "none"
        PROVE  InUse(e, m)
    <3>1. m \in MachinesOf(e)
      BY <2>1, <2>5, JobFacts DEF MachinesOf
    <3> QED
      BY SMT, <2>2, <2>5, <3>1 DEF InUse
  <2>6. Stages'
    <3>1. \A x \in Executions : \A m \in Machines : InUse(x, m)' = InUse(x, m)
      BY <2>1 DEF InUse, ActionOf
    <3>2. \A x \in Executions : x # e => flow'[x] = flow[x]
      BY <2>3, ActionFacts
    <3>3. \A m \in Machines : job[e][m].at \notin Working
      BY <2>4 DEF Working
    <3>4. Stage(e)'
      BY SMT, <2>1, <2>2, <2>3, <2>4, <2>5, <3>1, <3>3 DEF Inv, Stages, Stage
    <3>5. ASSUME NEW x \in Executions, x # e
          PROVE  Stage(x)'
      BY SMT, <2>1, <3>1, <3>2, <3>5 DEF Inv, Stages, Stage
    <3> QED
      BY <3>4, <3>5 DEF Stages
  <2>7. RefreshStages'
    <3>1. \A r \in Refreshes : flow'[r] = flow[r]
      BY <2>3, RefreshFacts
    <3> QED
      BY <2>1, <3>1 DEF Inv, RefreshStages, RefreshStage
  <2>8. ASSUME NEW m \in Machines
        PROVE  MachineInv(m)'
    BY <2>1, MachineKept DEF Inv
  <2> QED
    BY <2>1, <2>2, <2>3, <2>6, <2>7, <2>8, <1>FlowGoesOn
<1>ConfirmMinionsAllocationStep.
    ASSUME Inv, NEW e \in Executions, ConfirmMinionsAllocation(e)
    PROVE  Keeps
  <2> USE <1>ConfirmMinionsAllocationStep
  <2>1. /\ flow[e] = "confirming" /\ UNCHANGED <<pool, machine, vms, release, freeing>>
        /\ flow \in [Owners -> FlowPlaces] /\ job \in [Owners -> [Machines -> Jobs]]
        /\ e \in Owners /\ e \in SameAction(e)
        /\ execution \in [Executions -> {"none", "AWAITING", "RUNNING", "ENDED"}]
        /\ using \in [Executions -> SUBSET Machines]
    BY ActionFacts DEF ConfirmMinionsAllocation, Inv, Typed
  <2>2. /\ \A m \in Machines : job[e][m].at \in {"none", "done", "created"}
        /\ \A m \in Machines : job[e][m].at # "none" => InUse(e, m)
        /\ release[e].at = "none" /\ freeing[e] = {}
    BY <2>1 DEF Inv, Stages, Stage
  <2>3. \A x \in Executions : \A m \in Machines : InUse(x, m)' = InUse(x, m)
    BY <2>1 DEF InUse, ActionOf
  <2>4. CASE /\ \A x \in Executions : ~IsAwaited(x, e)
             /\ flow' = [flow EXCEPT ![e] = "reverting"]
             /\ UNCHANGED <<execution, using, job>>
    <3>1. /\ flow' \in [Owners -> FlowPlaces] /\ flow'[e] = "reverting"
          /\ \A p \in Owners : p # e => flow'[p] = flow[p]
      BY <2>1, <2>4 DEF FlowPlaces
    <3>2. Stages'
      <4>1. \A x \in Executions : x # e => flow'[x] = flow[x]
        BY <3>1, ActionFacts
      <4>2. \A m \in Machines : job[e][m].at \notin Working
        BY <2>2 DEF Working
      <4> QED
        BY SMT, <2>1, <2>2, <2>3, <2>4, <3>1, <4>1, <4>2 DEF Inv, Stages, Stage
    <3>3. RefreshStages'
      <4>1. \A r \in Refreshes : flow'[r] = flow[r]
        BY <3>1, RefreshFacts
      <4> QED
        BY <2>1, <2>4, <4>1 DEF Inv, RefreshStages, RefreshStage
    <3>4. ASSUME NEW m \in Machines
          PROVE  MachineInv(m)'
      BY <2>1, <2>4, MachineKept DEF Inv
    <3> QED
      BY <2>1, <2>4, <3>1, <3>2, <3>3, <3>4, <1>FlowGoesOn
  <2>5. ASSUME NEW x \in Executions, IsAwaited(x, e),
               execution' = [execution EXCEPT ![x] = "RUNNING"],
               using' = [using EXCEPT ![x] = MachinesOf(e)], Over(e)
        PROVE  Keeps
    <3>1. x = e
      <4>1. Busy(x) /\ Busy(e) /\ x \in SameAction(e)
        BY <2>1, <2>5 DEF IsAwaited, Busy
      <4> QED
        BY <4>1 DEF Inv, InOrder, Ordered
    <3>2. /\ job' \in [Owners -> [Machines -> Jobs]] /\ flow' \in [Owners -> FlowPlaces]
          /\ flow'[e] = "over"
          /\ \A p \in Owners : p # e => flow'[p] = flow[p] /\ job'[p] = job[p]
          /\ \A m \in Machines : job'[e][m] = NoJob /\ job'[e][m].at = "none"
      BY <2>1, <2>5, <1>OverFacts
    <3>3. MachinesOf(e) \subseteq Machines /\ \A m \in MachinesOf(e) : InUse(e, m)
      BY <2>1, <2>2, JobFacts DEF MachinesOf
    <3>4. /\ execution' \in [Executions -> {"none", "AWAITING", "RUNNING", "ENDED"}]
          /\ execution'[e] = "RUNNING" /\ using'[e] = MachinesOf(e)
          /\ using' \in [Executions -> SUBSET Machines]
          /\ \A y \in Executions : y # e => /\ execution'[y] = execution[y]
                                            /\ using'[y] = using[y]
      BY <2>1, <2>5, <3>1, <3>3
    <3>5. Typed' /\ Sound'
      BY <2>1, <3>2, <3>4 DEF Inv, Typed, Sound, Calm, Fails
    <3>6. \A y \in Executions : /\ SameAction(y)' = SameAction(y) /\ (Busy(y)' => Busy(y))
                                /\ Releasing(y)' <=> Releasing(y)
      BY <2>1, <3>2, <3>4, ActionFacts DEF SameAction, ActionOf, Busy, Releasing
    <3>7. InOrder'
      <4>1. ASSUME NEW y \in Executions, NEW z \in SameAction(y)
            PROVE  Ordered(y, z)'
        <5>1. z \in Executions
          BY DEF SameAction
        <5> QED
          BY <2>1, <3>6, <5>1 DEF Inv, InOrder, Ordered
      <4> QED
        BY <3>6, <4>1 DEF InOrder
    <3>8. Stages'
      <4>1. \A y \in Executions : y # e => flow'[y] = flow[y] /\ job'[y] = job[y]
        BY <3>2, ActionFacts
      <4> QED
        BY SMT, <2>1, <2>2, <2>3, <3>2, <3>4, <4>1 DEF Inv, Stages, Stage
    <3>9. RefreshStages'
      <4>1. \A r \in Refreshes : flow'[r] = flow[r] /\ job'[r] = job[r]
        BY <3>2, RefreshFacts
      <4> QED
        BY SMT, <2>1, <4>1 DEF Inv, RefreshStages, RefreshStage
    <3>10. ASSUME NEW y \in Executions
           PROVE  HeldBy(y)'
      <4>1. CASE y = e
        <5>1. ActionOf(e)' = ActionOf(e)
          BY <2>1 DEF ActionOf
        <5> QED
          BY SMT, <2>1, <2>2, <2>3, <3>3, <3>4, <4>1, <5>1 DEF HeldBy
      <4>2. CASE y # e
        <5>1. PICK C : C = {}
          OBVIOUS
        <5>2. using[y] \cap freeing[y] = {}
          BY DEF Inv, Held, HeldBy
        <5> QED
          BY <2>1, <3>4, <4>2, <5>1, <5>2, HeldChanged
      <4> QED
        BY <4>1, <4>2
    <3>11. ASSUME NEW m \in Machines
           PROVE  MachineInv(m)'
      <4>1. job[e][m].at \notin Working /\ job[e][m].at # "uncreated"
        BY <2>2 DEF Working
      <4> QED
        BY <2>1, <3>2, <4>1, <1>MachineDropped
    <3>12. NoneAdded
      BY <2>1 DEF NoneAdded, Entries, Exists
    <3> QED
      BY <3>5, <3>7, <3>8, <3>9, <3>10, <3>11, <3>12 DEF Inv, Held, Keeps
  <2> QED
    BY <2>4, <2>5 DEF ConfirmMinionsAllocation
<1> QED
  BY <1>MachinesSettledStep, <1>RevertedStep, <1>RevertAllocationStep,
     <1>ChecksMachinesStep, <1>ConfirmMinionsAllocationStep

-----------------------------------------------------------------------------
(* Requests of the conductor, and those which the minion manager serves.   *)

\* Nothing is done with machines.
LEMMA RequestStep ==
  ASSUME Inv, UNCHANGED <<pool, machine, vms, job>>, Typed', InOrder', Stages',
         \A r \in Refreshes : flow'[r] = flow[r],
         \A e \in Executions : HeldBy(e)'
  PROVE  Keeps
<1>1. Sound' /\ RefreshStages' /\ NoneAdded
  BY DEF Inv, Sound, Calm, Fails, RefreshStages, RefreshStage, NoneAdded, Entries, Exists
<1>2. ASSUME NEW m \in Machines
      PROVE  MachineInv(m)'
  BY MachineKept DEF Inv
<1> QED
  BY <1>1, <1>2 DEF Inv, Held, Keeps

LEMMA AllocateMinionMachinesStep ==
  ASSUME Inv, NEW e \in Executions, AllocateMinionMachines(e)
  PROVE  Keeps
<1>1. /\ execution[e] = "none" /\ e \in Owners
      /\ \A x \in SameAction(e) : x # e =>
           execution[x] \in {"none", "ENDED"} /\ Handled(x)
      /\ execution' = [execution EXCEPT ![e] = "AWAITING"]
      /\ flow' = [flow EXCEPT ![e] = "requested"]
      /\ UNCHANGED <<pool, machine, vms, using, job, release, freeing>>
  BY ActionFacts DEF AllocateMinionMachines, Inv, Sound
<1>2. /\ flow[e] = "none" /\ release[e].at = "none" /\ freeing[e] = {}
      /\ \A m \in Machines : job[e][m].at = "none"
  BY <1>1 DEF Inv, Stages, Stage
<1>3. /\ execution' \in [Executions -> {"none", "AWAITING", "RUNNING", "ENDED"}]
      /\ execution'[e] = "AWAITING" /\ flow'[e] = "requested"
      /\ flow' \in [Owners -> FlowPlaces]
      /\ \A x \in Executions : x # e => execution'[x] = execution[x]
      /\ \A p \in Owners : p # e => flow'[p] = flow[p]
  BY <1>1 DEF Inv, Typed, FlowPlaces
<1>4. Typed'
  BY <1>1, <1>3 DEF Inv, Typed
<1>5. /\ \A x \in SameAction(e) : /\ x # e => ~Busy(x)
                                  /\ ~Releasing(x) /\ freeing[x] = {}
      /\ \A x \in Executions : x # e => (Busy(x)' <=> Busy(x))
      /\ \A x \in Executions : /\ SameAction(x)' = SameAction(x)
                               /\ Releasing(x)' <=> Releasing(x)
  BY SMT, <1>1, <1>2, <1>3, ActionFacts
     DEF Busy, Releasing, Handled, SameAction, ActionOf
<1>6. InOrder'
  <2>1. ASSUME NEW y \in Executions, NEW x \in SameAction(y)
        PROVE  Ordered(y, x)'
    <3>1. x \in Executions /\ y \in SameAction(x)
      BY DEF SameAction
    <3>2. CASE y = e \/ x = e
      <4>1. y \in SameAction(e) /\ x \in SameAction(e)
        BY <3>1, <3>2 DEF SameAction
      <4>2. release[y].at # "read"
        BY <1>5, <4>1 DEF Releasing
      <4> QED
        BY <1>1, <1>5, <3>1, <3>2, <4>1, <4>2 DEF Ordered
    <3>3. CASE y # e /\ x # e
      BY <1>1, <1>5, <3>1, <3>3 DEF Inv, InOrder, Ordered
    <3> QED
      BY <3>2, <3>3
  <2> QED
    BY <1>5, <2>1 DEF InOrder
<1>7. Stages'
  <2>1. \A x \in Executions : \A m \in Machines : InUse(x, m)' = InUse(x, m)
    BY <1>1 DEF InUse, ActionOf
  <2>2. \A x \in Executions : x # e => flow'[x] = flow[x]
    BY <1>3, ActionFacts
  <2> QED
    BY SMT, <1>1, <1>2, <1>3, <2>1, <2>2 DEF Inv, Stages, Stage
<1>8. \A r \in Refreshes : flow'[r] = flow[r]
  BY <1>3, RefreshFacts
<1>9. \A x \in Executions : HeldBy(x)'
  BY <1>1, HeldKept DEF Held
<1> QED
  BY <1>1, <1>4, <1>6, <1>7, <1>8, <1>9, RequestStep

LEMMA ReleaseMinionStep ==
  ASSUME Inv, NEW e \in Executions, NEW m \in using[e], ReleaseMinion(e, m)
  PROVE  Keeps
<1>1. /\ execution[e] = "RUNNING" /\ using \in [Executions -> SUBSET Machines]
      /\ freeing \in [Executions -> SUBSET Machines]
      /\ using' = [using EXCEPT ![e] = using[e] \ {m}]
      /\ freeing' = [freeing EXCEPT ![e] = freeing[e] \cup {m}]
      /\ UNCHANGED <<pool, machine, vms, execution, flow, job, release>>
  BY DEF ReleaseMinion, Inv, Typed
<1>2. /\ using' \in [Executions -> SUBSET Machines]
      /\ freeing' \in [Executions -> SUBSET Machines]
      /\ using'[e] = using[e] \ {m} /\ freeing'[e] = freeing[e] \cup {m}
      /\ \A x \in Executions : x # e => using'[x] = using[x] /\ freeing'[x] = freeing[x]
  BY <1>1
<1>3. Typed'
  BY <1>1, <1>2 DEF Inv, Typed
<1>4. Busy(e) /\ flow[e] = "over"
  BY <1>1 DEF Busy, Inv, Stages, Stage
<1>5. \A x \in Executions : /\ SameAction(x)' = SameAction(x) /\ (Busy(x)' <=> Busy(x))
                            /\ Releasing(x)' <=> Releasing(x)
  BY <1>1 DEF SameAction, ActionOf, Busy, Releasing
<1>6. InOrder'
  <2>1. ASSUME NEW y \in Executions, NEW x \in SameAction(y)
        PROVE  Ordered(y, x)'
    <3>1. x \in Executions /\ y \in SameAction(x)
      BY DEF SameAction
    <3>2. Ordered(y, x) /\ Ordered(x, y)
      BY <3>1 DEF Inv, InOrder
    <3> QED
      BY <1>1, <1>2, <1>4, <1>5, <3>1, <3>2 DEF Ordered, Releasing
  <2> QED
    BY <1>5, <2>1 DEF InOrder
<1>7. Stages'
  <2>1. \A x \in Executions : \A n \in Machines : InUse(x, n)' = InUse(x, n)
    BY <1>1 DEF InUse, ActionOf
  <2>2. ASSUME NEW x \in Executions
        PROVE  /\ Stage(x)
               /\ \A n \in Machines : flow[x] = "confirming" /\ job[x][n].at # "none" =>
                    InUse(x, n)'
    BY <2>1, StageInUse DEF Inv, Stages
  <2>3. Stage(e)'
    BY SMT, <1>1, <2>1, <2>2 DEF Stage
  <2>4. ASSUME NEW x \in Executions, x # e
        PROVE  Stage(x)'
    BY <1>1, <1>2, <2>2, <2>4, StageKept
  <2> QED
    BY <2>3, <2>4 DEF Stages
<1>8. ASSUME NEW x \in Executions
      PROVE  HeldBy(x)'
  <2>1. HeldBy(x)
    BY DEF Inv, Held
  <2>2. /\ using'[x] \cup freeing'[x] \subseteq using[x] \cup freeing[x]
        /\ using'[x] \cap freeing'[x] = {}
    BY <1>2, <2>1 DEF HeldBy
  <2>3. PICK C : C = {}
    OBVIOUS
  <2> QED
    BY SMT, <1>1, <2>2, <2>3, HeldChanged
<1> QED
  BY <1>1, <1>3, <1>6, <1>7, <1>8, RequestStep

LEMMA ReadAllocatedStep ==
  ASSUME Inv, NEW e \in Executions, ReadAllocated(e)
  PROVE  Keeps
<1>1. /\ release[e].at = "sent" /\ \A x \in SameAction(e) : freeing[x] = {}
      /\ UNCHANGED <<pool, machine, vms, execution, using, flow, job, freeing>>
  BY DEF ReadAllocated, Inv, Sound
<1>2. PICK reading :
        /\ release' = [release EXCEPT ![e] = reading]
        /\ reading.at \in {"read", "over"}
        /\ reading \in [at : {"none", "sent", "read", "over"},
                        listed : SUBSET Machines, fresh : SUBSET Machines]
        /\ reading.listed = {m \in Machines : machine[m].action = ActionOf(e)}
        /\ reading.fresh = {m \in Machines : machine[m].action = ActionOf(e)
                                             /\ machine[m].status = "UNINITIALIZED"}
  <2>1. PICK listed, fresh, at :
          /\ listed = {m \in Machines : machine[m].action = ActionOf(e)}
          /\ fresh = {m \in listed : machine[m].status = "UNINITIALIZED"}
          /\ at = IF listed = {} THEN "over" ELSE "read"
    OBVIOUS
  <2>2. release' = [release EXCEPT ![e] = [at |-> at, listed |-> listed, fresh |-> fresh]]
    BY <2>1 DEF ReadAllocated
  <2>3. fresh = {m \in Machines : machine[m].action = ActionOf(e)
                                  /\ machine[m].status = "UNINITIALIZED"}
    BY <2>1
  <2>4. PICK reading : reading = [at |-> at, listed |-> listed, fresh |-> fresh]
    OBVIOUS
  <2>5. /\ reading.at = at /\ reading.listed = listed /\ reading.fresh = fresh
        /\ at \in {"read", "over"}
    BY <2>1, <2>4
  <2>6. reading \in [at : {"none", "sent", "read", "over"},
                     listed : SUBSET Machines, fresh : SUBSET Machines]
    <3>1. listed \in SUBSET Machines /\ fresh \in SUBSET Machines
      BY <2>1
    <3> QED
      BY <2>4, <2>5, <3>1
  <2>7. release' = [release EXCEPT ![e] = reading]
    BY <2>2, <2>4
  <2>8. reading.listed = {m \in Machines : machine[m].action = ActionOf(e)}
    BY <2>1, <2>5
  <2>9. reading.fresh = {m \in Machines : machine[m].action = ActionOf(e)
                                          /\ machine[m].status = "UNINITIALIZED"}
    BY <2>3, <2>5
  <2> QED
    BY <2>5, <2>6, <2>7, <2>8, <2>9
<1>3. /\ release'[e] = reading
      /\ release' \in [Executions -> [at : {"none", "sent", "read", "over"},
                                      listed : SUBSET Machines,
                                      fresh : SUBSET Machines]]
      /\ \A x \in Executions : x # e => release'[x] = release[x]
  BY <1>2 DEF Inv, Typed
<1>4. Typed'
  BY <1>1, <1>3 DEF Inv, Typed
<1>5. \A x \in Executions : /\ SameAction(x)' = SameAction(x) /\ (Busy(x)' <=> Busy(x))
                            /\ Releasing(x)' => Releasing(x)
  BY <1>1, <1>3 DEF SameAction, ActionOf, Busy, Releasing
<1>6. InOrder'
  <2>1. ASSUME NEW y \in Executions, NEW x \in SameAction(y)
        PROVE  Ordered(y, x)'
    <3>1. x \in Executions /\ Ordered(y, x)
      BY DEF SameAction, Inv, InOrder
    <3> QED
      BY <1>1, <1>3, <1>5, <3>1 DEF Ordered
  <2> QED
    BY <1>5, <2>1 DEF InOrder
<1>7. Stages'
  <2>1. \A x \in Executions : \A n \in Machines : InUse(x, n)' = InUse(x, n)
    BY <1>1 DEF InUse, ActionOf
  <2>2. execution[e] # "RUNNING" /\ flow[e] = "over"
    BY <1>1 DEF Inv, Stages, Stage
  <2> QED
    BY SMT, <1>1, <1>3, <2>1, <2>2 DEF Inv, Stages, Stage
<1>8. ASSUME NEW x \in Executions
      PROVE  HeldBy(x)'
  <2>1. /\ HeldBy(x) /\ ActionOf(x)' = ActionOf(x)
        /\ using[x] \subseteq Machines /\ freeing[x] \subseteq Machines
    BY <1>1 DEF Inv, Held, ActionOf, Typed
  <2>2. \A n \in Machines : InUse(x, n)' = InUse(x, n)
    BY <1>1 DEF InUse, ActionOf
  <2> QED
    BY SMT, <1>1, <1>2, <1>3, <2>1, <2>2 DEF HeldBy
<1> QED
  BY <1>1, <1>4, <1>6, <1>7, <1>8, RequestStep

LEMMA ExecutionEndsStep ==
  ASSUME Inv, NEW e \in Executions, ExecutionEnds(e)
  PROVE  Keeps
<1>1. /\ execution[e] \in {"AWAITING", "RUNNING"}
      /\ execution' = [execution EXCEPT ![e] = "ENDED"]
      /\ using' = [using EXCEPT ![e] = {}]
      /\ UNCHANGED <<pool, machine, vms, flow, job, freeing>>
      /\ e \in SameAction(e)
      /\ execution \in [Executions -> {"none", "AWAITING", "RUNNING", "ENDED"}]
      /\ using \in [Executions -> SUBSET Machines]
      /\ release \in [Executions -> [at : {"none", "sent", "read", "over"},
                                     listed : SUBSET Machines,
                                     fresh : SUBSET Machines]]
  BY ActionFacts DEF ExecutionEnds, Inv, Typed
<1>2. /\ execution'[e] = "ENDED" /\ using'[e] = {}
      /\ execution' \in [Executions -> {"none", "AWAITING", "RUNNING", "ENDED"}]
      /\ using' \in [Executions -> SUBSET Machines]
      /\ \A x \in Executions : x # e => execution'[x] = execution[x] /\ using'[x] = using[x]
  BY <1>1
<1>3. \A x \in SameAction(e) : /\ ~Releasing(x)
                               /\ x # e => ~Busy(x) /\ freeing[x] = {}
  BY <1>1 DEF Busy, Inv, InOrder, Ordered
<1>4. \A x \in Executions : /\ SameAction(x)' = SameAction(x) /\ (Busy(x)' => Busy(x))
                            /\ \A y \in SameAction(x) : y \in Executions
  BY <1>1, <1>2 DEF SameAction, ActionOf, Busy
<1>5. \A x \in Executions : \A m \in Machines : InUse(x, m)' = InUse(x, m)
  BY <1>1 DEF InUse, ActionOf
<1>6. CASE UNCHANGED release /\ execution[e] = "AWAITING"
  <2>1. \A x \in Executions : Releasing(x)' <=> Releasing(x)
    BY <1>6 DEF Releasing
  <2>2. InOrder'
    <3>1. ASSUME NEW y \in Executions, NEW x \in SameAction(y)
          PROVE  Ordered(y, x)'
      BY <1>1, <1>4, <1>6, <2>1 DEF Inv, InOrder, Ordered
    <3> QED
      BY <1>4, <3>1 DEF InOrder
  <2>3. Typed'
    BY <1>1, <1>2, <1>6 DEF Inv, Typed
  <2>4. Stages'
    <3>1. ASSUME NEW x \in Executions
          PROVE  Stage(x)
      BY DEF Inv, Stages
    <3>2. ASSUME NEW x \in Executions, flow[x] = "confirming", NEW m \in Machines,
                 job[x][m].at # "none"
          PROVE  InUse(x, m)'
      BY <1>5, <3>1, <3>2, StageInUse
    <3>3. Stage(e)'
      BY <1>1, <1>2, <1>6, <3>1, <3>2 DEF Stage
    <3>4. ASSUME NEW x \in Executions, x # e
          PROVE  Stage(x)'
      BY <1>1, <1>2, <1>6, <3>1, <3>2, <3>4, StageKept
    <3> QED
      BY <3>3, <3>4 DEF Stages
  <2>5. ASSUME NEW x \in Executions
        PROVE  HeldBy(x)'
    <3>1. /\ using'[x] \subseteq using[x] /\ using[x] \cap freeing[x] = {}
          /\ using'[x] \cap freeing'[x] = {}
      BY <1>1, <1>2 DEF Inv, Held, HeldBy
    <3>2. PICK C : C = {}
      OBVIOUS
    <3> QED
      BY SMT, <1>1, <1>6, <3>1, <3>2, HeldChanged
  <2> QED
    BY <1>1, <2>2, <2>3, <2>4, <2>5, RequestStep
<1>7. CASE execution[e] = "RUNNING" /\ release' = [release EXCEPT ![ServedBy(e)] = Sent]
  <2>1. PICK s : s = ServedBy(e)
    OBVIOUS
  <2>2. flow[e] = "over" /\ release[e].at = "none"
    BY <1>7 DEF Inv, Stages, Stage
  <2>3. s \in SameAction(e) /\ flow[s] = "over" /\ release[s].at = "none"
    BY <1>1, <2>1, <2>2 DEF ServedBy
  <2>4. /\ s \in Executions /\ release' = [release EXCEPT ![s] = Sent]
        /\ e \in SameAction(s)
    BY <1>7, <2>1, <2>3 DEF SameAction
  <2>5. /\ release' \in [Executions -> [at : {"none", "sent", "read", "over"},
                                        listed : SUBSET Machines,
                                        fresh : SUBSET Machines]]
        /\ release'[s].at = "sent"
        /\ \A x \in Executions : x # s => release'[x] = release[x]
    BY <1>1, <2>4, SentFacts
  <2>6. Typed'
    BY <1>1, <1>2, <2>5 DEF Inv, Typed
  <2>7. /\ ~Busy(e)' /\ execution'[s] # "RUNNING"
        /\ \A x \in SameAction(s) : ~Busy(x)' /\ x \in SameAction(e)
        /\ \A x \in Executions : x # s => (Releasing(x)' <=> Releasing(x))
    <3>1. ~Busy(e)'
      BY <1>1, <1>2, <2>2 DEF Busy
    <3>2. \A x \in SameAction(s) : x \in SameAction(e)
      BY <2>3 DEF SameAction
    <3>3. \A x \in SameAction(s) : ~Busy(x)'
      BY <1>3, <1>4, <3>1, <3>2, <2>4
    <3>4. s \in SameAction(s)
      BY <2>4, ActionFacts
    <3>5. execution'[s] # "RUNNING"
      BY <3>3, <3>4 DEF Busy
    <3> QED
      BY <2>5, <3>1, <3>2, <3>3, <3>5 DEF Releasing
  <2>8. InOrder'
    <3>1. ASSUME NEW y \in Executions, NEW x \in SameAction(y), y # s, x # s
          PROVE  Ordered(y, x)'
      <4>1. Ordered(y, x) /\ x \in Executions
        BY <1>4 DEF Inv, InOrder
      <4> QED
        BY <1>1, <1>4, <2>5, <2>7, <3>1, <4>1 DEF Ordered
    <3>2. ASSUME NEW y \in Executions, NEW x \in SameAction(y), y = s \/ x = s
          PROVE  Ordered(y, x)'
      <4>1. /\ x \in SameAction(s) /\ y \in SameAction(s) /\ x \in Executions
            /\ x \in SameAction(e) /\ y \in SameAction(e)
        BY <2>3, <3>2 DEF SameAction
      <4>2. ~Busy(x)' /\ ~Busy(y)' /\ ~Releasing(x) /\ ~Releasing(y)
        BY <1>3, <2>7, <4>1
      <4>3. x # y => ~(Releasing(x)' /\ Releasing(y)')
        BY <2>7, <3>2, <4>1, <4>2
      <4>4. x # y => freeing'[x] = {} \/ freeing'[y] = {}
        BY <1>1, <1>3, <4>1
      <4>5. release'[y].at # "read"
        BY <2>5, <4>2 DEF Releasing
      <4> QED
        BY <4>2, <4>3, <4>4, <4>5 DEF Ordered
    <3> QED
      BY <1>4, <3>1, <3>2 DEF InOrder
  <2>9. Stages'
    <3>1. ASSUME NEW x \in Executions
          PROVE  Stage(x)
      BY DEF Inv, Stages
    <3>2. ASSUME NEW x \in Executions, flow[x] = "confirming", NEW m \in Machines,
                 job[x][m].at # "none"
          PROVE  InUse(x, m)'
      BY <1>5, <3>1, <3>2, StageInUse
    <3>3. ASSUME NEW x \in Executions, x = e \/ x = s
          PROVE  Stage(x)'
      <4>1. /\ flow[x] = "over" /\ flow'[x] = "over" /\ job'[x] = job[x]
            /\ execution'[x] \notin {"none", "RUNNING"} /\ using'[x] = {}
        BY SMT, <1>1, <1>2, <2>2, <2>3, <2>7, <3>1, <3>3 DEF Stage
      <4> QED
        BY <3>1, <4>1, StageOver
    <3>4. ASSUME NEW x \in Executions, x # e, x # s
          PROVE  Stage(x)'
      BY <1>1, <1>2, <2>5, <3>1, <3>2, <3>4, StageKept
    <3> QED
      BY <3>3, <3>4 DEF Stages
  <2>10. ASSUME NEW x \in Executions
         PROVE  HeldBy(x)'
    <3>1. /\ using'[x] \subseteq using[x] /\ using[x] \cap freeing[x] = {}
          /\ using'[x] \cap freeing'[x] = {}
      BY <1>1, <1>2 DEF Inv, Held, HeldBy
    <3>2. PICK C : C = {}
      OBVIOUS
    <3>3. release'[x] = release[x] \/ release'[x].at # "read"
      BY <2>5
    <3>4. /\ \A n \in Machines : n \notin C => machine'[n] = machine[n]
          /\ using'[x] \cup freeing'[x] \subseteq using[x] \cup freeing[x]
          /\ (using'[x] \cup freeing'[x]) \cap C = {}
          /\ \A n \in C : FALSE
      BY <1>1, <3>1, <3>2
    <3> QED
      BY <1>1, <3>1, <3>3, <3>4, HeldChanged
  <2> QED
    BY <1>1, <2>6, <2>8, <2>9, <2>10, RequestStep
<1> QED
  BY <1>6, <1>7 DEF ExecutionEnds

\* Machines are given back, or their entries removed, and everything is in order.
LEMMA Deallocations ==
  \A e \in Executions :
    /\ Inv /\ DeallocateMinionMachines(e) => Keeps
    /\ \A m \in freeing[e] : Inv /\ DeallocateMinionMachine(e, m) => Keeps
\* A machine which a confirmed flow has had is not taken by anything else.
<1>ConfirmingHas.
    ASSUME Inv, NEW e \in Executions, NEW m \in Machines, flow[e] = "confirming",
           job[e][m].at # "none"
    PROVE  Live(e, m)
  BY <1>ConfirmingHas DEF Inv, Stages, Stage, Live, Places
\* A machine no flow has is made available.
<1>MachineAvailable.
    ASSUME Inv, NEW m \in Machines, ~Gone(m), \A o \in Owners : ~Live(o, m), UNCHANGED pool,
           m \in vms' <=> m \in vms, \A o \in Owners : job'[o][m] = job[o][m],
           machine'[m] = [status |-> "AVAILABLE", power |-> machine[m].power,
                          action |-> "none", deployed |-> machine[m].deployed],
           Calm => machine[m].deployed /\ machine[m].power \in {"POWERED_ON", "POWERED_OFF"}
    PROVE  MachineInv(m)'
  <2> USE <1>MachineAvailable
  <2>1. MachineInv(m)
    BY DEF Inv
  <2>2. /\ machine'[m].status = "AVAILABLE" /\ machine'[m].power = machine[m].power
        /\ machine'[m].action = "none" /\ machine'[m].deployed = machine[m].deployed
        /\ ~Gone(m)' /\ Calm' = Calm
    BY SMT DEF Gone, Calm, Fails
  <2>3. \A o \in Owners : ~Live(o, m)'
    BY DEF Live
  <2>4. \A e \in Executions : ExecutionFits(e, m)'
    BY <2>1, ExecutionGone, ActionFacts DEF MachineInv
  <2>5. \A r \in Refreshes : RefreshFits(r, m)'
    BY <2>1, RefreshGone, RefreshFacts DEF MachineInv
  <2>6. Apart(m)'
    BY <2>3 DEF Apart
  <2>7. RowFits(m)'
    BY <2>1, <2>2, <2>3 DEF MachineInv, RowFits
  <2>8. Calm => RowCalm(m)'
    BY <2>2 DEF RowCalm
  <2> QED
    BY <2>2, <2>4, <2>5, <2>6, <2>7, <2>8 DEF MachineInv
\* The entry of a machine no flow has, which was not deployed, is removed.
<1>MachineRemoved.
    ASSUME Inv, NEW m \in Machines, \A o \in Owners : ~Live(o, m), UNCHANGED pool,
           m \notin vms', \A o \in Owners : job'[o][m] = job[o][m], machine'[m] = NoEntry
    PROVE  MachineInv(m)'
  <2> USE <1>MachineRemoved
  <2>1. MachineInv(m)
    BY DEF Inv
  <2>2. /\ machine'[m].status = "none" /\ machine'[m].action = "none" /\ Gone(m)'
    BY SMT DEF Gone, NoEntry
  <2>3. \A o \in Owners : ~Live(o, m)'
    BY DEF Live
  <2>4. \A e \in Executions : ExecutionFits(e, m)'
    BY <2>1, ExecutionGone, ActionFacts DEF MachineInv
  <2>5. \A r \in Refreshes : RefreshFits(r, m)'
    BY <2>1, RefreshGone, RefreshFacts DEF MachineInv
  <2>6. Apart(m)'
    BY <2>3 DEF Apart
  <2>7. RowFits(m)'
    BY <2>2 DEF RowFits
  <2>8. RowCalm(m)'
    BY <2>2 DEF RowCalm
  <2> QED
    BY <2>4, <2>5, <2>6, <2>7, <2>8 DEF MachineInv
\* Machines of the set C, which no flow has, are given back: requests are only answered.
<1>GivenBackStep.
    ASSUME Inv, UNCHANGED <<pool, vms, execution, using, flow, job>>, Typed',
           NEW C, C \subseteq Machines, \A m \in C : \A o \in Owners : ~Live(o, m),
           \A n \in Machines : n \notin C => machine'[n] = machine[n],
           \A n \in C : MachineInv(n)', \A n \in C : ~Gone(n),
           \A e \in Executions : /\ freeing'[e] \subseteq freeing[e]
                                 /\ \/ release'[e] = release[e]
                                    \/ release[e].at = "read" /\ release'[e].at = "over",
           \A e \in Executions : HeldBy(e)'
    PROVE  Keeps
  <2> USE <1>GivenBackStep
  <2>1. Sound' /\ RefreshStages'
    BY SMT DEF Inv, Sound, Calm, Fails, RefreshStages, RefreshStage
  <2>2. \A e \in Executions : /\ SameAction(e)' = SameAction(e) /\ (Busy(e)' <=> Busy(e))
                              /\ Releasing(e)' => Releasing(e)
                              /\ release'[e].at = "read" => release[e].at = "read"
    BY DEF SameAction, ActionOf, Busy, Releasing
  <2>3. InOrder'
    <3>1. ASSUME NEW y \in Executions, NEW x \in SameAction(y)
          PROVE  Ordered(y, x)'
      <4>1. x \in Executions /\ Ordered(y, x)
        BY DEF SameAction, Inv, InOrder
      <4>2. freeing'[x] \subseteq freeing[x] /\ freeing'[y] \subseteq freeing[y]
        BY <4>1
      <4> QED
        BY <2>2, <4>1, <4>2 DEF Ordered
    <3> QED
      BY <2>2, <3>1 DEF InOrder
  <2>4. Stages'
    <3>1. ASSUME NEW e \in Executions, flow[e] = "confirming", NEW m \in Machines,
                 job[e][m].at # "none"
          PROVE  InUse(e, m)'
      <4>1. Live(e, m) /\ e \in Owners
        BY <3>1, <1>ConfirmingHas, ActionFacts
      <4>2. machine'[m] = machine[m] /\ InUse(e, m)
        BY SMT, <3>1, <4>1 DEF Inv, Stages, Stage
      <4> QED
        BY <4>2 DEF InUse, ActionOf
    <3>2. ASSUME NEW e \in Executions
          PROVE  Stage(e)'
      <4>1. Stage(e)
        BY DEF Inv, Stages
      <4> QED
        BY <3>1, <4>1, StageKept
    <3> QED
      BY <3>2 DEF Stages
  <2>5. ASSUME NEW m \in Machines
        PROVE  MachineInv(m)'
    BY MachineKept DEF Inv
  <2>6. NoneAdded
    <3>1. ASSUME NEW m \in Machines
          PROVE  Exists(m)' => Exists(m)
      BY EntryFacts DEF Inv, Typed, Exists
    <3> QED
      BY <3>1 DEF NoneAdded, Entries
  <2> QED
    BY <2>1, <2>3, <2>4, <2>5, <2>6 DEF Inv, Held, Keeps
<1>DeallocateMinionMachineStep.
    ASSUME Inv, NEW e \in Executions, NEW m \in freeing[e], DeallocateMinionMachine(e, m)
    PROVE  Keeps
  <2> USE <1>DeallocateMinionMachineStep
  <2>1. /\ m \in Machines /\ InUse(e, m) /\ ~Gone(m)
        /\ machine \in [Machines -> Rows] /\ freeing \in [Executions -> SUBSET Machines]
    BY DEF Inv, Typed, Held, HeldBy, InUse, Gone
  <2>2. PICK row \in Rows :
          /\ row = ForAction("AVAILABLE", "none", machine[m])
          /\ row = [status |-> "AVAILABLE", power |-> machine[m].power,
                    action |-> "none", deployed |-> machine[m].deployed]
    BY <2>1, GivenEntryFacts DEF MachineStatuses
  <2>3. /\ machine' = [machine EXCEPT ![m] = row]
        /\ freeing' = [freeing EXCEPT ![e] = freeing[e] \ {m}]
        /\ UNCHANGED <<pool, vms, execution, using, flow, job, release>>
    BY <2>1, <2>2, EntryFacts DEF DeallocateMinionMachine, Exists
  <2>4. /\ machine' \in [Machines -> Rows] /\ machine'[m] = row /\ row.action = "none"
        /\ \A n \in Machines : n # m => machine'[n] = machine[n]
    BY SMT, <2>1, <2>2, <2>3
  <2>5. /\ freeing' \in [Executions -> SUBSET Machines] /\ freeing'[e] = freeing[e] \ {m}
        /\ \A x \in Executions : x # e => freeing'[x] = freeing[x]
    BY <2>1, <2>3
  <2>6. Typed'
    BY <2>3, <2>4, <2>5 DEF Inv, Typed
  <2>7. \A o \in Owners : ~Live(o, m)
    BY <2>1, NotHeld
  <2>8. MachineInv(m)'
    BY <2>1, <2>2, <2>3, <2>4, <2>7, <1>MachineAvailable DEF InUse
  <2>9. ASSUME NEW x \in Executions
        PROVE  HeldBy(x)'
    <3>1. ASSUME ActionOf(x) = ActionOf(e)
          PROVE  release[x].at # "read" /\ (x # e => freeing[x] = {} /\ using[x] = {})
      <4>1. x \in SameAction(e) /\ e \in SameAction(x)
        BY <3>1, ActionFacts
      <4>2. Ordered(e, x) /\ Ordered(x, e)
        BY <4>1 DEF Inv, InOrder
      <4>3. release[x].at # "read" /\ (x # e => freeing[x] = {} /\ ~Busy(x))
        BY <4>2 DEF Ordered
      <4>4. ~Busy(x) => using[x] = {}
        BY DEF Busy, Inv, Stages, Stage
      <4> QED
        BY <4>3, <4>4
    <3>2. HeldBy(x) /\ HeldBy(e)
      BY DEF Inv, Held
    <3>3. \A n \in using[x] \cup freeing[x] : InUse(x, n)
      BY <3>2 DEF HeldBy
    <3>4. m \notin using'[x] \cup freeing'[x]
      <4>1. CASE x = e
        BY <2>3, <2>5, <3>2, <4>1 DEF HeldBy
      <4>2. CASE x # e
        <5>1. m \in using[x] \cup freeing[x] => ActionOf(x) = ActionOf(e)
          BY <2>1, <3>3 DEF InUse
        <5> QED
          BY <2>3, <2>5, <3>1, <4>2, <5>1
      <4> QED
        BY <4>1, <4>2
    <3>5. PICK C : C = {m}
      OBVIOUS
    <3>6. /\ \A n \in Machines : n \notin C => machine'[n] = machine[n]
          /\ (using'[x] \cup freeing'[x]) \cap C = {}
      BY <2>4, <3>4, <3>5
    <3>7. freeing'[x] \subseteq freeing[x]
      BY <2>5
    <3>8. using'[x] \cap freeing'[x] = {}
      BY <2>3, <3>2, <3>7 DEF HeldBy
    <3>9. release'[x].at = "read" =>
            \A n \in C : machine[n].action # ActionOf(x) /\ machine'[n].action # ActionOf(x)
      BY <2>1, <2>3, <2>4, <3>1, <3>5, ActionFacts DEF InUse
    <3>10. using'[x] \cup freeing'[x] \subseteq using[x] \cup freeing[x]
      BY <2>3, <3>7
    <3> QED
      BY <2>3, <3>6, <3>8, <3>9, <3>10, HeldChanged
  <2>10. PICK C : C = {m}
    OBVIOUS
  <2>11. /\ C \subseteq Machines /\ \A n \in C : MachineInv(n)' /\ ~Gone(n)
         /\ \A n \in C : \A o \in Owners : ~Live(o, n)
         /\ \A n \in Machines : n \notin C => machine'[n] = machine[n]
    BY <2>1, <2>4, <2>7, <2>8, <2>10
  <2>12. \A x \in Executions : freeing'[x] \subseteq freeing[x] /\ release'[x] = release[x]
    BY <2>3, <2>5
  <2> QED
    BY <2>3, <2>6, <2>9, <2>11, <2>12, <1>GivenBackStep
<1>DeallocateMinionMachinesStep.
    ASSUME Inv, NEW e \in Executions, DeallocateMinionMachines(e)
    PROVE  Keeps
  <2> USE <1>DeallocateMinionMachinesStep
  <2>1. /\ release[e].at = "read" /\ Releasing(e)
        /\ UNCHANGED <<pool, vms, execution, using, flow, job, freeing>>
        /\ release' = [release EXCEPT ![e] = [NotAsked EXCEPT !.at = "over"]]
        /\ machine \in [Machines -> Rows]
    BY DEF DeallocateMinionMachines, Releasing, Inv, Typed
  <2>2. PICK listed, fresh : listed = release[e].listed /\ fresh = release[e].fresh
    OBVIOUS
  <2>3. /\ listed = {m \in Machines : machine[m].action = ActionOf(e)}
        /\ fresh = {m \in Machines : machine[m].action = ActionOf(e)
                                     /\ machine[m].status = "UNINITIALIZED"}
    BY <2>1, <2>2 DEF Inv, Held, HeldBy
  <2>4. \A m \in listed : /\ m \in Machines /\ ~Gone(m) /\ Exists(m)
                          /\ machine[m].action = ActionOf(e)
                          /\ \A o \in Owners : ~Live(o, m)
    <3>1. \A m \in listed : m \in Machines /\ machine[m].action = ActionOf(e)
      BY <2>3
    <3> QED
      BY <2>1, <3>1, NotHeld, EntryFacts, ActionFacts
  <2>5. listed \ Entries = {}
    BY <2>4 DEF Entries
  <2>6. machine' = [m \in Machines |->
                      IF m \in fresh THEN NoEntry
                      ELSE IF m \in listed THEN ForAction("AVAILABLE", "none", machine[m])
                      ELSE machine[m]]
    <3>1. PICK removed :
            /\ removed = fresh
            /\ machine' = [m \in Machines |->
                 IF m \in removed THEN NoEntry
                 ELSE IF m \in listed \ fresh /\ listed \ Entries = {}
                      THEN ForAction("AVAILABLE", "none", machine[m])
                      ELSE machine[m]]
      <4>1. fresh \cap (listed \ Entries) = {}
        BY <2>5
      <4> QED
        BY SMT, <2>2, <4>1 DEF DeallocateMinionMachines
    <3> QED
      BY <2>5, <3>1
  <2>7. \A m \in fresh : m \in listed /\ machine[m].status = "UNINITIALIZED"
    BY <2>3
  <2>8. ASSUME NEW m \in listed
        PROVE  /\ machine'[m] \in Rows /\ machine'[m].action = "none"
               /\ MachineInv(m)'
    <3>1. /\ m \in Machines /\ MachineInv(m) /\ ~Gone(m)
          /\ machine[m].action = ActionOf(e)
          /\ \A o \in Owners : ~Live(o, m) /\ job'[o][m] = job[o][m]
      BY <2>1, <2>4, <2>8 DEF Inv
    <3>2. CASE m \in fresh
      <4>1. machine'[m] = NoEntry /\ m \notin vms
        BY <2>6, <2>7, <3>1, <3>2 DEF MachineInv, RowFits
      <4> QED
        BY SMT, <2>1, <3>1, <4>1, <1>MachineRemoved DEF Rows, NoEntry
    <3>3. CASE m \notin fresh
      <4>1. machine[m].status # "UNINITIALIZED"
        BY <2>3, <3>1, <3>3
      <4>2. PICK row \in Rows :
              /\ row = ForAction("AVAILABLE", "none", machine[m])
              /\ row = [status |-> "AVAILABLE", power |-> machine[m].power,
                        action |-> "none", deployed |-> machine[m].deployed]
        BY <2>1, <3>1, GivenEntryFacts DEF MachineStatuses
      <4>3. machine'[m] = row
        BY <2>6, <2>8, <3>1, <3>3, <4>2
      <4>4. Calm => machine[m].deployed /\ machine[m].power \in {"POWERED_ON", "POWERED_OFF"}
        <5>1. \A x \in Executions : ~Live(x, m)
          BY <3>1, ActionFacts
        <5>2. \A x \in Executions : job[x][m].at # "powering"
          BY <5>1 DEF Live, Places, Working
        <5>3. machine[m].action # "none"
          BY <3>1, ActionFacts
        <5>4. machine[m].deployed \in BOOLEAN
          BY <2>1, <3>1, EntryFacts
        <5> QED
          BY <3>1, <4>1, <5>1, <5>2, <5>3, <5>4 DEF MachineInv, RowCalm
      <4>5. MachineInv(m)'
        BY <2>1, <3>1, <4>2, <4>3, <4>4, <1>MachineAvailable
      <4> QED
        BY SMT, <4>2, <4>3, <4>5
    <3> QED
      BY <3>2, <3>3
  <2>9. /\ \A m \in Machines : m \notin listed => machine'[m] = machine[m]
        /\ machine' \in [Machines -> Rows]
    <3>1. \A m \in Machines : m \notin listed => machine'[m] = machine[m]
      BY <2>6, <2>7
    <3>2. \A m \in Machines : machine'[m] \in Rows
      BY <2>1, <2>8, <3>1
    <3>3. machine' = [m \in Machines |-> machine'[m]]
      BY <2>6
    <3> QED
      BY <3>1, <3>2, <3>3
  <2>10. PICK over : over = [NotAsked EXCEPT !.at = "over"]
    OBVIOUS
  <2>11. /\ over = [at |-> "over", listed |-> {}, fresh |-> {}] /\ over.at = "over"
         /\ over \in [at : {"none", "sent", "read", "over"}, listed : SUBSET Machines,
                      fresh : SUBSET Machines]
    BY <2>10 DEF NotAsked
  <2>12. /\ release' \in [Executions -> [at : {"none", "sent", "read", "over"},
                                         listed : SUBSET Machines,
                                         fresh : SUBSET Machines]]
         /\ release'[e].at = "over"
         /\ \A x \in Executions : x # e => release'[x] = release[x]
    BY <2>1, <2>10, <2>11 DEF Inv, Typed
  <2>13. Typed'
    BY <2>1, <2>9, <2>12 DEF Inv, Typed
  <2>14. ASSUME NEW x \in Executions
         PROVE  HeldBy(x)'
    <3>1. ASSUME ActionOf(x) = ActionOf(e)
          PROVE  freeing[x] = {} /\ using[x] = {} /\ release'[x].at # "read"
      <4>1. x \in SameAction(e) /\ e \in SameAction(x)
        BY <3>1, ActionFacts
      <4>2. Ordered(e, x) /\ Ordered(x, e)
        BY <4>1 DEF Inv, InOrder
      <4>3. freeing[x] = {} /\ ~Busy(x) /\ (x # e => ~Releasing(x))
        BY <2>1, <4>2 DEF Ordered
      <4>4. ~Busy(x) => using[x] = {}
        BY DEF Busy, Inv, Stages, Stage
      <4> QED
        BY <2>12, <4>3, <4>4 DEF Releasing
    <3>2. HeldBy(x)
      BY DEF Inv, Held
    <3>3. \A n \in using[x] \cup freeing[x] : n \notin listed
      <4>1. \A n \in using[x] \cup freeing[x] : machine[n].action = ActionOf(x)
        BY <3>2 DEF HeldBy, InUse
      <4> QED
        BY SMT, <2>4, <3>1, <4>1
    <3>4. release'[x].at = "read" =>
            \A n \in listed : machine[n].action # ActionOf(x) /\ machine'[n].action # ActionOf(x)
      BY <2>4, <2>8, <3>1, ActionFacts
    <3>5. /\ using'[x] \cup freeing'[x] \subseteq using[x] \cup freeing[x]
          /\ using'[x] \cap freeing'[x] = {}
          /\ (using'[x] \cup freeing'[x]) \cap listed = {}
      BY <2>1, <3>2, <3>3 DEF HeldBy
    <3>6. release'[x] = release[x] \/ release'[x].at # "read"
      BY <2>12
    <3> QED
      BY <2>1, <2>9, <3>4, <3>5, <3>6, HeldChanged
  <2>15. listed \subseteq Machines
    BY <2>3
  <2> QED
    BY <2>1, <2>4, <2>8, <2>9, <2>12, <2>13, <2>14, <2>15, <1>GivenBackStep
<1> QED
  BY <1>DeallocateMinionMachineStep, <1>DeallocateMinionMachinesStep

\* Machines of the set C, which no flow has had, are given to the flow o.
LEMMA FlowStarts ==
  ASSUME Inv, NEW o \in Owners, flow[o] \in {"none", "requested"},
         o \in Executions => flow[o] = "requested",
         o \in Refreshes => pool.refreshed,
         UNCHANGED <<pool, vms, execution, using, release, freeing>>,
         machine' \in [Machines -> Rows], job' \in [Owners -> [Machines -> Jobs]],
         flow' = [flow EXCEPT ![o] = "machines"],
         \A p \in Owners : p # o => job'[p] = job[p],
         NEW C, C \subseteq Machines,
         \A n \in Machines : n \notin C => machine'[n] = machine[n] /\ job'[o][n] = NoJob,
         \A n \in C : MachineInv(n)',
         \A n \in C : machine[n].status # "IN_USE",
         \A n \in C : \A x \in Executions : release[x].at = "read" =>
           machine[n].action # ActionOf(x) /\ machine'[n].action # ActionOf(x)
  PROVE  Inv'
<1>1. /\ flow \in [Owners -> FlowPlaces] /\ job \in [Owners -> [Machines -> Jobs]]
      /\ \A p \in Executions : p \in Owners
      /\ \A p \in Refreshes : p \in Owners
  BY DEF Inv, Typed, Owners
<1>2. /\ flow' \in [Owners -> FlowPlaces] /\ flow'[o] = "machines"
      /\ \A p \in Owners : p # o => flow'[p] = flow[p]
  BY <1>1 DEF FlowPlaces
<1>3. Typed' /\ Sound'
  BY <1>2 DEF Inv, Typed, Sound, Calm, Fails
<1>4. \A m \in Machines : job[o][m].at = "none" /\ job[o][m] = NoJob
  <2>1. \A m \in Machines : job[o][m].at = "none"
    BY DEF Inv, Stages, Stage, RefreshStages, RefreshStage, Owners
  <2> QED
    BY <1>1, <2>1, JobFacts
<1>5. \A x \in Executions : /\ SameAction(x)' = SameAction(x) /\ (Busy(x)' <=> Busy(x))
                            /\ Releasing(x)' <=> Releasing(x)
  <2>1. ASSUME NEW x \in Executions
        PROVE  Busy(x)' <=> Busy(x)
    BY <1>1, <1>2 DEF Busy
  <2> QED
    BY <2>1 DEF SameAction, ActionOf, Releasing
<1>6. InOrder'
  <2>1. ASSUME NEW y \in Executions, NEW x \in SameAction(y)
        PROVE  Ordered(y, x)'
    <3>1. x \in Executions
      BY DEF SameAction
    <3> QED
      BY <1>5, <3>1 DEF Inv, InOrder, Ordered
  <2> QED
    BY <1>5, <2>1 DEF InOrder
<1>7. Stages'
  <2>1. ASSUME NEW x \in Executions, x # o, flow[x] = "confirming", NEW m \in Machines,
               job[x][m].at # "none"
        PROVE  InUse(x, m)'
    <3>1. InUse(x, m)
      BY SMT, <2>1 DEF Inv, Stages, Stage
    <3>2. machine'[m] = machine[m]
      BY <3>1 DEF InUse
    <3> QED
      BY <3>1, <3>2 DEF InUse, ActionOf
  <2>2. ASSUME NEW x \in Executions, x # o
        PROVE  flow'[x] = flow[x] /\ job'[x] = job[x]
    BY <1>1, <1>2, <2>2
  <2>3. ASSUME NEW x \in Executions, x # o
        PROVE  Stage(x)'
    <3>1. Stage(x) /\ flow'[x] = flow[x] /\ job'[x] = job[x]
      BY <2>2, <2>3 DEF Inv, Stages
    <3> QED
      BY <2>1, <2>3, <3>1, StageKept
  <2>4. ASSUME o \in Executions
        PROVE  Stage(o)'
    BY <1>2, <2>4 DEF Inv, Stages, Stage
  <2> QED
    BY <2>3, <2>4 DEF Stages
<1>8. RefreshStages'
  <2>1. ASSUME NEW x \in Refreshes, x # o
        PROVE  flow'[x] = flow[x] /\ job'[x] = job[x]
    BY SMT, <1>1, <1>2, <2>1
  <2>2. ASSUME NEW x \in Refreshes, x # o
        PROVE  RefreshStage(x)'
    BY SMT, <2>1, <2>2 DEF Inv, RefreshStages, RefreshStage
  <2>3. ASSUME o \in Refreshes
        PROVE  RefreshStage(o)'
    BY <1>2, <2>3 DEF RefreshStage
  <2> QED
    BY <2>2, <2>3 DEF RefreshStages
<1>9. ASSUME NEW x \in Executions
      PROVE  HeldBy(x)'
  <2>1. HeldBy(x)
    BY DEF Inv, Held
  <2>2. (using[x] \cup freeing[x]) \cap C = {}
    BY <2>1 DEF HeldBy, InUse
  <2>3. using[x] \cap freeing[x] = {}
    BY <2>1 DEF HeldBy
  <2>4. /\ using'[x] = using[x] /\ freeing'[x] = freeing[x] /\ release'[x] = release[x]
        /\ \A n \in Machines : n \notin C => machine'[n] = machine[n]
    OBVIOUS
  <2>5. /\ using'[x] \cup freeing'[x] \subseteq using[x] \cup freeing[x]
        /\ using'[x] \cap freeing'[x] = {} /\ (using'[x] \cup freeing'[x]) \cap C = {}
    BY <2>2, <2>3, <2>4
  <2>6. release'[x].at = "read" =>
          \A n \in C : machine[n].action # ActionOf(x) /\ machine'[n].action # ActionOf(x)
    BY <2>4
  <2> QED
    BY <2>4, <2>5, <2>6, HeldChanged
<1>10. ASSUME NEW m \in Machines, m \notin C
       PROVE  MachineInv(m)'
  <2>1. \A p \in Owners : job'[p][m] = job[p][m]
    BY <1>4, <1>10
  <2> QED
    BY <1>10, <2>1, MachineKept DEF Inv
<1> QED
  BY <1>3, <1>6, <1>7, <1>8, <1>9, <1>10 DEF Inv, Held

\* What a request is given, or that it is refused, keeps everything in order.
LEMMA Allocations ==
  \A e \in Executions : Inv /\ MakeAllocationSubflow(e) => Inv'
\* A selected machine is reserved for an action, and is to be powered on or checked.
<1>MachineReserved.
    ASSUME Inv, NEW e \in Executions, NEW m \in Machines, machine[m].status = "AVAILABLE",
           UNCHANGED <<pool, vms>>,
           machine'[m] = [status |-> "RESERVED", power |-> machine[m].power,
                          action |-> ActionOf(e), deployed |-> machine[m].deployed],
           \A o \in Owners : o # e => job'[o][m] = job[o][m], job'[e][m].kind = "heal",
           job'[e][m].at = IF machine[m].power = "POWERED_OFF" THEN "power" ELSE "check"
    PROVE  MachineInv(m)'
  <2> USE <1>MachineReserved
  <2>1. MachineInv(m) /\ \A o \in Owners : ~Live(o, m)
    BY DEF Inv, MachineInv, RowFits
  <2>2. /\ machine'[m].status = "RESERVED" /\ machine'[m].power = machine[m].power
        /\ machine'[m].action = ActionOf(e) /\ machine'[m].deployed = machine[m].deployed
        /\ ~Gone(m)' /\ Calm' = Calm /\ ActionOf(e)' = ActionOf(e) /\ ~Gone(m)
    BY SMT DEF Gone, Calm, Fails, ActionOf
  <2>3. \A o \in Owners : o # e => ~Live(o, m)'
    BY <2>1 DEF Live
  <2>4. ASSUME NEW x \in Executions
        PROVE  ExecutionFits(x, m)'
    <3>1. CASE x = e
      <4>1. Calm => machine[m].deployed
        BY <2>1 DEF MachineInv, RowCalm
      <4> QED
        BY <2>2, <3>1, <4>1 DEF ExecutionFits, OfAction, Redeploys
    <3>2. CASE x # e
      BY <2>1, <3>2, ExecutionGone, ActionFacts DEF MachineInv
    <3> QED
      BY <3>1, <3>2
  <2>5. \A r \in Refreshes : RefreshFits(r, m)'
    <3>1. \A r \in Refreshes : r \in Owners /\ r # e
      BY RefreshFacts, ActionFacts
    <3> QED
      BY <2>1, <3>1, RefreshGone DEF MachineInv
  <2>6. Apart(m)'
    BY <2>3 DEF Apart
  <2>7. RowFits(m)'
    <3>1. /\ \A o \in Owners : job[o][m].at # "forget"
          /\ \A o \in Owners : job'[o][m].at # "forget"
      BY <2>1 DEF Live, Places, Working
    <3> QED
      BY <2>1, <2>2, <3>1 DEF MachineInv, RowFits
  <2>8. Calm => RowCalm(m)'
    BY <2>1, <2>2 DEF MachineInv, RowCalm
  <2> QED
    BY <2>2, <2>4, <2>5, <2>6, <2>7, <2>8 DEF MachineInv
\* There is an entry for a machine which is to be created.
<1>MachineAdded.
    ASSUME Inv, NEW e \in Executions, NEW m \in Machines, Gone(m), m \notin vms,
           \A o \in Owners : ~Live(o, m), UNCHANGED <<pool, vms>>,
           machine'[m] = [status |-> "UNINITIALIZED", power |-> "UNINITIALIZED",
                          action |-> ActionOf(e), deployed |-> FALSE],
           \A o \in Owners : o # e => job'[o][m] = job[o][m],
           job'[e][m].kind = "new", job'[e][m].at = "create"
    PROVE  MachineInv(m)'
  <2> USE <1>MachineAdded
  <2>1. MachineInv(m)
    BY DEF Inv
  <2>2. /\ machine'[m].status = "UNINITIALIZED" /\ machine'[m].power = "UNINITIALIZED"
        /\ machine'[m].action = ActionOf(e) /\ machine'[m].deployed = FALSE
        /\ ~Gone(m)' /\ Calm' = Calm /\ ActionOf(e)' = ActionOf(e)
    BY SMT DEF Gone, Calm, Fails, ActionOf
  <2>3. \A o \in Owners : o # e => ~Live(o, m)'
    BY DEF Live
  <2>4. ASSUME NEW x \in Executions
        PROVE  ExecutionFits(x, m)'
    <3>1. CASE x = e
      BY <2>2, <3>1 DEF ExecutionFits, Undeployed, Redeploys
    <3>2. CASE x # e
      BY <2>1, <3>2, ExecutionGone, ActionFacts DEF MachineInv
    <3> QED
      BY <3>1, <3>2
  <2>5. \A r \in Refreshes : RefreshFits(r, m)'
    <3>1. \A r \in Refreshes : r \in Owners /\ r # e
      BY RefreshFacts, ActionFacts
    <3> QED
      BY <2>1, <3>1, RefreshGone DEF MachineInv
  <2>6. Apart(m)'
    BY <2>3 DEF Apart
  <2>7. RowFits(m)'
    BY <2>2 DEF RowFits
  <2>8. Calm => RowCalm(m)'
    BY <2>2 DEF RowCalm
  <2> QED
    BY <2>2, <2>4, <2>5, <2>6, <2>7, <2>8 DEF MachineInv
<1>MakeAllocationSubflowStep.
    ASSUME Inv, NEW e \in Executions, MakeAllocationSubflow(e)
    PROVE  Inv'
  <2> USE <1>MakeAllocationSubflowStep
  <2>1. /\ flow[e] = "requested" /\ UNCHANGED <<pool, vms, using, freeing>>
        /\ e \in Owners /\ e \notin Refreshes
        /\ flow \in [Owners -> FlowPlaces] /\ job \in [Owners -> [Machines -> Jobs]]
        /\ machine \in [Machines -> Rows]
        /\ \A m \in Machines : job[e][m].at = "none"
    BY ActionFacts DEF MakeAllocationSubflow, Inv, Typed, Stages, Stage
  <2>2. CASE Instances[ActionOf(e)] > Cardinality(Selectable) + ExtraSlots
    <3>1. ReportFailure(e) /\ flow' = [flow EXCEPT ![e] = "over"] /\ UNCHANGED <<machine, job>>
      BY <2>2 DEF MakeAllocationSubflow
    <3>2. /\ flow' \in [Owners -> FlowPlaces] /\ flow'[e] = "over"
          /\ \A p \in Owners : p # e => flow'[p] = flow[p]
      BY <2>1, <3>1 DEF FlowPlaces
    <3>3. ASSUME NEW m \in Machines
          PROVE  MachineInv(m)'
      BY <2>1, <3>1, MachineKept DEF Inv
    <3> QED
      BY <2>1, <3>1, <3>2, <3>3, GivesUp DEF Keeps
  <2>3. CASE ~(Instances[ActionOf(e)] > Cardinality(Selectable) + ExtraSlots)
    <3>1. PICK old \in SUBSET Selectable, new \in SUBSET Fresh :
            /\ Cardinality(old) + Cardinality(new) = Instances[ActionOf(e)]
            /\ new # {} => old = Selectable
            /\ machine' = [m \in Machines |->
                 IF m \in old THEN ForAction("RESERVED", ActionOf(e), machine[m])
                 ELSE IF m \in new THEN NewEntry("UNINITIALIZED", ActionOf(e))
                 ELSE machine[m]]
            /\ job' = [job EXCEPT ![e] = [m \in Machines |->
                 IF m \in new THEN [kind |-> "new", at |-> "create"]
                 ELSE IF m \notin old THEN NoJob
                 ELSE IF machine[m].power = "POWERED_OFF"
                      THEN [kind |-> "heal", at |-> "power"]
                      ELSE [kind |-> "heal", at |-> "check"]]]
            /\ flow' = [flow EXCEPT ![e] = "machines"]
            /\ UNCHANGED <<execution, release>>
      BY <2>3 DEF MakeAllocationSubflow
    <3>2. \A m \in old : /\ m \in Machines /\ machine[m].status = "AVAILABLE" /\ ~Gone(m)
                         /\ machine[m].action = "none" /\ \A o \in Owners : ~Live(o, m)
      <4>1. \A m \in old : m \in Machines /\ machine[m].status = "AVAILABLE"
        BY DEF Selectable
      <4> QED
        BY <4>1 DEF Inv, MachineInv, RowFits, Gone
    <3>3. \A m \in new : /\ m \in Machines /\ m \notin vms /\ m \notin Entries
                         /\ \A o \in Owners : job[o][m] = NoJob
      BY DEF Fresh
    <3>4. \A m \in new : /\ Gone(m) /\ machine[m].action = "none" /\ m \notin old
                         /\ \A o \in Owners : ~Live(o, m)
      <4>1. \A m \in new : Gone(m) /\ machine[m].action = "none"
        BY <2>1, <3>3, EntryFacts DEF Entries
      <4>2. \A m \in new : \A o \in Owners : ~Live(o, m)
        BY SMT, <3>3 DEF Live, NoJob, Places, Waiting, Working
      <4> QED
        BY <3>2, <4>1, <4>2
    <3>5. \A m \in old : /\ machine'[m] \in Rows
                         /\ machine'[m] = [status |-> "RESERVED", power |-> machine[m].power,
                                           action |-> ActionOf(e),
                                           deployed |-> machine[m].deployed]
      <4>1. ASSUME NEW m \in old
            PROVE  machine'[m] = ForAction("RESERVED", ActionOf(e), machine[m])
        BY <3>1, <3>2
      <4> QED
        BY SMT, <2>1, <3>2, <4>1, GivenEntryFacts, ActionFacts DEF MachineStatuses
    <3>6. \A m \in new : /\ machine'[m] \in Rows
                         /\ machine'[m] = [status |-> "UNINITIALIZED",
                                           power |-> "UNINITIALIZED",
                                           action |-> ActionOf(e), deployed |-> FALSE]
      <4>1. ASSUME NEW m \in new
            PROVE  machine'[m] = NewEntry("UNINITIALIZED", ActionOf(e))
        BY <3>1, <3>3, <3>4
      <4> QED
        BY <4>1, NewEntryFacts, ActionFacts
    <3>7. PICK C : C = old \cup new
      OBVIOUS
    <3>8. /\ \A m \in Machines : m \notin C => machine'[m] = machine[m]
          /\ machine' \in [Machines -> Rows]
      <4>1. \A m \in Machines : m \notin C => machine'[m] = machine[m]
        BY <3>1, <3>7
      <4>2. \A m \in Machines : machine'[m] \in Rows
        BY <2>1, <3>5, <3>6, <3>7, <4>1
      <4>3. machine' = [m \in Machines |-> machine'[m]]
        BY <3>1
      <4> QED
        BY <4>1, <4>2, <4>3
    <3>9. PICK jobs :
            /\ jobs = [m \in Machines |->
                 IF m \in new THEN [kind |-> "new", at |-> "create"]
                 ELSE IF m \notin old THEN NoJob
                 ELSE IF machine[m].power = "POWERED_OFF"
                      THEN [kind |-> "heal", at |-> "power"]
                      ELSE [kind |-> "heal", at |-> "check"]]
            /\ job' = [job EXCEPT ![e] = jobs]
      BY <3>1
    <3>10. jobs \in [Machines -> Jobs]
      BY <3>9 DEF Jobs, Waiting
    <3>11. /\ job' \in [Owners -> [Machines -> Jobs]] /\ job'[e] = jobs
           /\ \A p \in Owners : p # e => job'[p] = job[p]
      BY <2>1, <3>9, <3>10
    <3>12. \A m \in Machines : m \notin C => job'[e][m] = NoJob
      BY <3>7, <3>9, <3>11
    <3>13. ASSUME NEW m \in C
           PROVE  MachineInv(m)'
      <4>1. CASE m \in old
        <5>1. job'[e][m] = IF machine[m].power = "POWERED_OFF"
                           THEN [kind |-> "heal", at |-> "power"]
                           ELSE [kind |-> "heal", at |-> "check"]
          BY SMT, <3>2, <3>4, <3>9, <3>11, <4>1
        <5>2. /\ job'[e][m].kind = "heal"
              /\ job'[e][m].at = IF machine[m].power = "POWERED_OFF" THEN "power" ELSE "check"
          BY SMT, <5>1
        <5> QED
          BY <2>1, <3>2, <3>5, <3>11, <4>1, <5>2, <1>MachineReserved
      <4>2. CASE m \in new
        <5>1. job'[e][m].kind = "new" /\ job'[e][m].at = "create"
          BY SMT, <3>3, <3>9, <3>11, <4>2
        <5> QED
          BY <2>1, <3>3, <3>4, <3>6, <3>11, <4>2, <5>1, <1>MachineAdded
      <4> QED
        BY <3>7, <3>13, <4>1, <4>2
    <3>14. ASSUME NEW m \in C
           PROVE  /\ machine[m].status # "IN_USE"
                  /\ \A x \in Executions : release[x].at = "read" =>
                       machine[m].action # ActionOf(x) /\ machine'[m].action # ActionOf(x)
      <4>1. /\ machine[m].status # "IN_USE" /\ machine[m].action = "none"
            /\ machine'[m].action = ActionOf(e)
        <5>1. CASE m \in old
          <6>1. machine'[m].action = ActionOf(e)
            <7>1. machine'[m] = [status |-> "RESERVED", power |-> machine[m].power,
                                 action |-> ActionOf(e), deployed |-> machine[m].deployed]
              BY <3>5, <5>1
            <7> QED
              BY SMT, <7>1
          <6> QED
            BY <3>2, <5>1, <6>1
        <5>2. CASE m \in new
          <6>1. machine'[m].action = ActionOf(e)
            <7>1. machine'[m] = [status |-> "UNINITIALIZED", power |-> "UNINITIALIZED",
                                 action |-> ActionOf(e), deployed |-> FALSE]
              BY <3>6, <5>2
            <7> QED
              BY SMT, <7>1
          <6> QED
            BY <3>4, <5>2, <6>1 DEF Gone
        <5> QED
          BY <3>7, <5>1, <5>2
      <4>2. ASSUME NEW x \in Executions, release[x].at = "read"
            PROVE  ActionOf(e) # ActionOf(x)
        BY <2>1, <4>2, FlowAlone DEF Releasing
      <4> QED
        BY <4>1, <4>2, ActionFacts
    <3>15. C \subseteq Machines /\ new \subseteq Machines
      BY <3>2, <3>3, <3>7
    <3>16. /\ UNCHANGED <<pool, vms, execution, using, release, freeing>>
           /\ flow' = [flow EXCEPT ![e] = "machines"]
           /\ flow[e] \in {"none", "requested"} /\ (e \in Executions => flow[e] = "requested")
           /\ e \in Refreshes => pool.refreshed
      BY <2>1, <3>1
    <3>17. \A n \in Machines :
             n \notin C => machine'[n] = machine[n] /\ job'[e][n] = NoJob
      BY <3>8, <3>12
    <3>18. /\ \A n \in C : MachineInv(n)'
           /\ \A n \in C : machine[n].status # "IN_USE"
           /\ \A n \in C : \A x \in Executions : release[x].at = "read" =>
                machine[n].action # ActionOf(x) /\ machine'[n].action # ActionOf(x)
      BY <3>13, <3>14
    <3>19. /\ e \in Owners /\ machine' \in [Machines -> Rows]
           /\ job' \in [Owners -> [Machines -> Jobs]]
           /\ \A p \in Owners : p # e => job'[p] = job[p]
      BY <2>1, <3>8, <3>11
    <3> QED
      BY <3>15, <3>16, <3>17, <3>18, <3>19, FlowStarts
  <2> QED
    BY <2>2, <2>3
<1> QED
  BY <1>MakeAllocationSubflowStep

\* A refresh which starts keeps everything in order.
LEMMA RefreshStarts ==
  \A r \in Refreshes : Inv /\ Refresh(r) => Keeps
\* The status of an entry is set.
<1>StatusFacts.
    ASSUME machine \in [Machines -> Rows], NEW m \in Machines, ~Gone(m),
           NEW status \in MachineStatuses
    PROVE  LET row == [machine[m] EXCEPT !.status = status] IN
           /\ row \in Rows /\ row.status = status /\ row.power = machine[m].power
           /\ row.action = machine[m].action /\ row.deployed = machine[m].deployed
  <2> USE <1>StatusFacts
  <2>1. machine[m] \in [status : MachineStatuses, power : PowerStatuses,
                        action : Executions \cup {"none"}, deployed : BOOLEAN]
    BY SMT, EntryFacts DEF Rows, Gone, NoEntry
  <2> QED
    BY <2>1 DEF Rows
\* A refresh is to power off, delete or check a machine which is available.
<1>RefreshTakesAvailable.
    ASSUME Inv, NEW r \in Refreshes, NEW m \in Machines, machine[m].status = "AVAILABLE",
           Calm, UNCHANGED <<pool, vms>>,
           machine'[m].power = machine[m].power, machine'[m].action = machine[m].action,
           machine'[m].deployed = machine[m].deployed,
           \A o \in Owners : o # r => job'[o][m] = job[o][m],
           \/ /\ machine'[m].status = "POWERING_OFF" /\ pool.retention = "poweroff"
              /\ job'[r][m].kind = "retire" /\ job'[r][m].at = "off"
           \/ /\ machine'[m].status = "DEALLOCATING"
              /\ job'[r][m].kind = "retire" /\ job'[r][m].at = "dealloc"
           \/ /\ machine'[m].status = "HEALTHCHECKING" /\ machine[m].power = "POWERED_ON"
              /\ job'[r][m].kind = "heal" /\ job'[r][m].at = "check"
    PROVE  MachineInv(m)'
  <2> USE <1>RefreshTakesAvailable
  <2>1. /\ MachineInv(m) /\ machine[m].action = "none" /\ machine[m].deployed
        /\ \A o \in Owners : ~Live(o, m)
    BY DEF Inv, MachineInv, RowFits, RowCalm
  <2>2. ~Gone(m) /\ ~Gone(m)' /\ Calm' = Calm
    BY DEF Gone, Calm, Fails
  <2>3. \A o \in Owners : o # r => ~Live(o, m)'
    BY <2>1 DEF Live
  <2>4. ASSUME NEW x \in Executions
        PROVE  ExecutionFits(x, m)'
    <3>1. x \in Owners /\ x # r /\ ExecutionFits(x, m)
      BY <2>1, ActionFacts DEF MachineInv
    <3> QED
      BY <2>1, <3>1, ExecutionGone
  <2>5. ASSUME NEW s \in Refreshes
        PROVE  RefreshFits(s, m)'
    <3>1. CASE s = r
      BY <2>1, <3>1 DEF RefreshFits, Idling
    <3>2. CASE s # r
      BY <2>1, <3>2, RefreshGone, RefreshFacts DEF MachineInv
    <3> QED
      BY <3>1, <3>2
  <2>6. Apart(m)'
    BY <2>3 DEF Apart
  <2>7. RowFits(m)'
    <3>1. /\ \A o \in Owners : job[o][m].at # "forget"
          /\ \A o \in Owners : job'[o][m].at # "forget"
      BY <2>1 DEF Live, Places, Working
    <3> QED
      BY <2>1, <2>2, <3>1 DEF MachineInv, RowFits
  <2>8. RowCalm(m)'
    BY <2>1 DEF RowCalm
  <2> QED
    BY <2>2, <2>4, <2>5, <2>6, <2>7, <2>8 DEF MachineInv
\* What is known of a machine whose creation has failed.
<1>UncreatedFacts.
    ASSUME Inv, Calm, NEW m \in Machines, machine[m].status = "ERROR_DEPLOYING"
    PROVE  /\ m \notin vms /\ ~machine[m].deployed /\ machine[m].power = "UNINITIALIZED"
           /\ \E e \in Executions :
                /\ job[e][m].at = "uncreated" /\ machine[m].action = ActionOf(e)
                /\ Live(e, m) /\ \A o \in Owners : o # e => ~Live(o, m)
  <2> USE <1>UncreatedFacts
  <2>1. MachineInv(m)
    BY DEF Inv
  <2>2. PICK e \in Executions : job[e][m].at = "uncreated"
    BY <2>1 DEF MachineInv, RowCalm
  <2>3. /\ m \notin vms /\ ~machine[m].deployed /\ machine[m].action = ActionOf(e)
    BY <2>1, <2>2 DEF MachineInv, ExecutionFits, Gone, OfAction
  <2>4. Live(e, m)
    BY <2>2 DEF Live, Places
  <2>5. ASSUME NEW o \in Owners, o # e, Live(o, m)
        PROVE  FALSE
    <3>1. o \in Refreshes
      BY <2>4, <2>5, ExecutionAlone
    <3>2. RefreshFits(o, m) /\ job[o][m].at \in Places
      BY <2>1, <2>5, <3>1, RefreshFacts DEF MachineInv, Live
    <3>3. job[o][m].kind \in {"new", "heal", "retire"}
      BY <3>1, <3>2, JobFacts DEF Inv, Typed, Places, Waiting, Working
    <3>4. ~Ghost(m) /\ \A s \in {"HEALTHCHECKING", "DEALLOCATING", "POWERING_OFF"} :
                         ~Idling(m, s)
      BY DEF Ghost, Idling, Gone
    <3> QED
      BY <3>2, <3>3, <3>4 DEF RefreshFits, Places, Waiting, Working
  <2>6. machine[m].power = "UNINITIALIZED"
    BY <2>1 DEF MachineInv, RowFits
  <2> QED
    BY <2>2, <2>3, <2>4, <2>5, <2>6
\* A refresh is to delete, or even power off, a machine whose creation has failed, while
\* the flow which has failed is still to be reverted.
<1>RefreshTakesUncreated.
    ASSUME Inv, NEW r \in Refreshes, NEW m \in Machines,
           machine[m].status = "ERROR_DEPLOYING",
           Calm, pool.refreshed, UNCHANGED <<pool, vms>>,
           machine'[m].power = machine[m].power, machine'[m].action = machine[m].action,
           machine'[m].deployed = machine[m].deployed,
           \A o \in Owners : o # r => job'[o][m] = job[o][m], job'[r][m].kind = "retire",
           \/ /\ machine'[m].status = "POWERING_OFF" /\ pool.retention = "poweroff"
              /\ job'[r][m].at = "off"
           \/ machine'[m].status = "DEALLOCATING" /\ job'[r][m].at = "dealloc"
    PROVE  MachineInv(m)'
  <2> USE <1>RefreshTakesUncreated
  <2>1. MachineInv(m) /\ m \notin vms /\ ~machine[m].deployed
    BY <1>UncreatedFacts DEF Inv
  <2>2. PICK e \in Executions :
          /\ job[e][m].at = "uncreated" /\ machine[m].action = ActionOf(e)
          /\ \A o \in Owners : o # e => ~Live(o, m)
    BY <1>UncreatedFacts
  <2>3. /\ ~Gone(m) /\ ~Gone(m)' /\ Calm' = Calm /\ e \in Owners /\ e # r
        /\ ActionOf(e)' = ActionOf(e) /\ job'[e][m] = job[e][m]
    BY ActionFacts DEF Gone, Calm, Fails, ActionOf
  <2>4. \A o \in Owners : o # r /\ o # e => ~Live(o, m)'
    BY <2>2 DEF Live
  <2>5. ASSUME NEW x \in Executions
        PROVE  ExecutionFits(x, m)'
    <3>1. x \in Owners /\ x # r /\ ExecutionFits(x, m)
      BY <2>1, ActionFacts DEF MachineInv
    <3>2. CASE x = e
      BY <2>1, <2>2, <2>3, <3>1, <3>2 DEF ExecutionFits, OfAction, Redeploys
    <3>3. CASE x # e
      BY <2>2, <3>1, <3>3, ExecutionGone
    <3> QED
      BY <3>2, <3>3
  <2>6. ASSUME NEW s \in Refreshes
        PROVE  RefreshFits(s, m)'
    <3>1. CASE s = r
      <4>1. Ghost(m)'
        BY <2>1, <2>2, <2>3 DEF Ghost
      <4> QED
        BY <3>1, <4>1 DEF RefreshFits
    <3>2. CASE s # r
      <4>1. s \in Owners /\ s # e
        BY ActionFacts, RefreshFacts
      <4> QED
        BY <2>1, <2>2, <3>2, <4>1, RefreshGone DEF MachineInv
    <3> QED
      BY <3>1, <3>2
  <2>7. Apart(m)'
    BY <2>2, <2>3, <2>4 DEF Apart
  <2>8. RowFits(m)'
    BY <2>1, <2>3 DEF RowFits
  <2>9. RowCalm(m)'
    <3>1. Live(e, m)'
      BY <2>2, <2>3 DEF Live, Places
    <3> QED
      BY <2>1, <3>1 DEF RowCalm
  <2> QED
    BY <2>3, <2>5, <2>6, <2>7, <2>8, <2>9 DEF MachineInv
<1>RefreshStep.
    ASSUME Inv, NEW r \in Refreshes, Refresh(r)
    PROVE  Keeps
  <2> USE <1>RefreshStep
  <2>1. /\ pool.refreshed /\ flow[r] = "none" /\ Calm /\ r \in Owners /\ r \notin Executions
        /\ flow' = [flow EXCEPT ![r] = "machines"]
        /\ UNCHANGED <<pool, vms, execution, using, release, freeing>>
        /\ machine \in [Machines -> Rows] /\ job \in [Owners -> [Machines -> Jobs]]
    BY RefreshFacts DEF Refresh, Inv, Sound, Typed
  <2> DEFINE poweroff == pool.retention = "poweroff"
             status == IF poweroff THEN "POWERING_OFF" ELSE "DEALLOCATING"
             place == IF poweroff THEN "off" ELSE "dealloc"
             idle == {m \in Entries : machine[m].status \in Refreshable}
             off == {m \in Entries : poweroff /\
                       machine[m].power \in {"POWERED_OFF", "POWERING_OFF"}}
  <2>2. PICK expired \in SUBSET idle :
          /\ machine' = [m \in Machines |->
               IF m \in expired \ off THEN [machine[m] EXCEPT !.status = status]
               ELSE IF m \in {n \in idle \ expired : machine[n].power = "POWERED_ON"}
               THEN [machine[m] EXCEPT !.status = "HEALTHCHECKING"]
               ELSE machine[m]]
          /\ job' = [job EXCEPT ![r] = [m \in Machines |->
               IF m \in expired \ off THEN [kind |-> "retire", at |-> place]
               ELSE IF m \in {n \in idle \ expired : machine[n].power = "POWERED_ON"}
               THEN [kind |-> "heal", at |-> "check"]
               ELSE NoJob]]
    BY Zenon DEF Refresh
  <2> DEFINE retired == expired \ off
             checked == {n \in idle \ expired : machine[n].power = "POWERED_ON"}
             jobs == [m \in Machines |->
                        IF m \in retired THEN [kind |-> "retire", at |-> place]
                        ELSE IF m \in checked THEN [kind |-> "heal", at |-> "check"]
                        ELSE NoJob]
  <2>3. /\ retired \subseteq idle \ off /\ retired \cap checked = {}
        /\ checked \subseteq {m \in idle : machine[m].power = "POWERED_ON"}
        /\ \A m \in Machines :
             machine'[m] = IF m \in retired THEN [machine[m] EXCEPT !.status = status]
                           ELSE IF m \in checked
                           THEN [machine[m] EXCEPT !.status = "HEALTHCHECKING"]
                           ELSE machine[m]
        /\ machine' = [m \in Machines |-> machine'[m]]
        /\ job' = [job EXCEPT ![r] = jobs]
    <3>1. /\ retired \subseteq idle \ off /\ retired \cap checked = {}
          /\ checked \subseteq {m \in idle : machine[m].power = "POWERED_ON"}
      OBVIOUS
    <3>2. machine' = [m \in Machines |->
                        IF m \in retired THEN [machine[m] EXCEPT !.status = status]
                        ELSE IF m \in checked
                        THEN [machine[m] EXCEPT !.status = "HEALTHCHECKING"]
                        ELSE machine[m]]
      BY <2>2
    <3>3. job' = [job EXCEPT ![r] = jobs]
      BY <2>2
    <3> HIDE DEF retired, checked, status, jobs
    <3> QED
      BY <3>1, <3>2, <3>3
  <2>4. \A m \in idle :
          /\ m \in Machines /\ ~Gone(m) /\ Exists(m)
          /\ machine[m].status \in {"AVAILABLE", "ERROR_DEPLOYING", "POWER_ERROR"}
          /\ machine[m].status = "POWER_ERROR" =>
               machine[m].power = "POWERING_OFF" /\ m \in off
          /\ machine[m].status = "ERROR_DEPLOYING" => machine[m].power = "UNINITIALIZED"
    <3>1. \A m \in idle : m \in Machines /\ m \in Entries /\ Exists(m) /\ ~Gone(m)
                          /\ machine[m].status \in Refreshable
      BY <2>1, EntryFacts DEF Entries
    <3>2. \A m \in idle : RowFits(m) /\ RowCalm(m)
      BY <2>1, <3>1 DEF Inv, MachineInv
    <3> QED
      BY <3>1, <3>2 DEF RowFits, RowCalm, Refreshable, Errored
  <2> HIDE DEF idle, off, retired, checked
  <2>5. \A m \in retired : machine[m].status \in {"AVAILABLE", "ERROR_DEPLOYING"}
    BY <2>3, <2>4
  <2>6. \A m \in checked : /\ machine[m].status = "AVAILABLE"
                           /\ machine[m].power = "POWERED_ON"
    BY <2>3, <2>4
  <2>8. \/ status = "POWERING_OFF" /\ place = "off" /\ pool.retention = "poweroff"
        \/ status = "DEALLOCATING" /\ place = "dealloc"
    OBVIOUS
  <2> HIDE DEF status, place
  <2>9. \A m \in Machines :
          jobs[m] = IF m \in retired THEN [kind |-> "retire", at |-> place]
                    ELSE IF m \in checked THEN [kind |-> "heal", at |-> "check"]
                    ELSE NoJob
    OBVIOUS
  <2>10. jobs \in [Machines -> Jobs]
    BY <2>8 DEF Jobs, Waiting
  <2> HIDE DEF jobs
  <2>11. /\ job' \in [Owners -> [Machines -> Jobs]] /\ job'[r] = jobs
         /\ \A p \in Owners : p # r => job'[p] = job[p]
    BY <2>1, <2>3, <2>10
  <2>12. ASSUME NEW m \in retired
         PROVE  /\ machine'[m] \in Rows /\ machine'[m].status = status
                /\ machine'[m].power = machine[m].power
                /\ machine'[m].action = machine[m].action
                /\ machine'[m].deployed = machine[m].deployed
                /\ job'[r][m].kind = "retire" /\ job'[r][m].at = place
    <3>1. m \in Machines /\ ~Gone(m) /\ status \in MachineStatuses
      BY <2>3, <2>4, <2>8 DEF MachineStatuses
    <3>2. machine'[m] = [machine[m] EXCEPT !.status = status]
      BY <2>3, <3>1
    <3>3. job'[r][m].kind = "retire" /\ job'[r][m].at = place
      BY SMT, <2>9, <2>11, <3>1
    <3> QED
      BY SMT, <2>1, <3>1, <3>2, <3>3, <1>StatusFacts
  <2>13. ASSUME NEW m \in checked
         PROVE  /\ machine'[m] \in Rows /\ machine'[m].status = "HEALTHCHECKING"
                /\ machine'[m].power = machine[m].power
                /\ machine'[m].action = machine[m].action
                /\ machine'[m].deployed = machine[m].deployed
                /\ job'[r][m].kind = "heal" /\ job'[r][m].at = "check"
    <3>1. m \in Machines /\ ~Gone(m) /\ m \notin retired
      BY <2>3, <2>4
    <3>2. machine'[m] = [machine[m] EXCEPT !.status = "HEALTHCHECKING"]
      BY <2>3, <3>1
    <3>3. job'[r][m].kind = "heal" /\ job'[r][m].at = "check"
      BY SMT, <2>9, <2>11, <3>1
    <3>4. PICK checking \in MachineStatuses : checking = "HEALTHCHECKING"
      BY DEF MachineStatuses
    <3> QED
      BY SMT, <2>1, <3>1, <3>2, <3>3, <3>4, <1>StatusFacts
  <2>14. PICK C : C = retired \cup checked
    OBVIOUS
  <2>15. /\ \A m \in Machines :
              m \notin C => machine'[m] = machine[m] /\ job'[r][m] = NoJob
         /\ C \subseteq Machines /\ \A m \in C : Exists(m)
         /\ machine' \in [Machines -> Rows]
    <3>1. \A m \in Machines : m \notin C => machine'[m] = machine[m] /\ job'[r][m] = NoJob
      BY <2>3, <2>9, <2>11, <2>14
    <3>2. C \subseteq Machines /\ \A m \in C : Exists(m)
      BY <2>3, <2>4, <2>14
    <3>3. \A m \in Machines : machine'[m] \in Rows
      BY <2>1, <2>12, <2>13, <2>14, <3>1
    <3>4. machine' = [m \in Machines |-> machine'[m]]
      BY <2>3
    <3> QED
      BY <3>1, <3>2, <3>3, <3>4
  <2>16. ASSUME NEW m \in C
         PROVE  MachineInv(m)'
    <3>1. m \in Machines /\ \A o \in Owners : o # r => job'[o][m] = job[o][m]
      BY <2>11, <2>15
    <3>2. CASE m \in checked
      BY <2>1, <2>6, <2>13, <3>1, <3>2, <1>RefreshTakesAvailable
    <3>3. CASE m \in retired /\ machine[m].status = "AVAILABLE"
      BY <2>1, <2>8, <2>12, <3>1, <3>3, <1>RefreshTakesAvailable
    <3>4. CASE m \in retired /\ machine[m].status = "ERROR_DEPLOYING"
      BY <2>1, <2>8, <2>12, <3>1, <3>4, <1>RefreshTakesUncreated
    <3> QED
      BY <2>5, <2>14, <3>2, <3>3, <3>4
  <2>17. ASSUME NEW m \in C
         PROVE  /\ machine[m].status # "IN_USE"
                /\ \A x \in Executions : release[x].at = "read" =>
                     machine[m].action # ActionOf(x) /\ machine'[m].action # ActionOf(x)
    <3>1. /\ m \in Machines /\ machine'[m].action = machine[m].action
          /\ machine[m].status \in {"AVAILABLE", "ERROR_DEPLOYING"}
      BY <2>5, <2>6, <2>12, <2>13, <2>14, <2>15
    <3>2. ASSUME NEW x \in Executions, release[x].at = "read"
          PROVE  machine[m].action # ActionOf(x)
      <4>1. CASE machine[m].status = "AVAILABLE"
        BY <3>1, <4>1, ActionFacts DEF Inv, MachineInv, RowFits
      <4>2. CASE machine[m].status = "ERROR_DEPLOYING"
        <5>1. PICK e \in Executions : Live(e, m)
          BY <2>1, <3>1, <4>2, <1>UncreatedFacts
        <5> QED
          BY <3>1, <3>2, <5>1, NotHeld, ActionFacts
      <4> QED
        BY <3>1, <4>1, <4>2
    <3> QED
      BY <3>1, <3>2
  <2>18. NoneAdded
    <3>1. \A m \in Machines : Exists(m)' => Exists(m)
      BY <2>15 DEF Exists
    <3> QED
      BY <3>1 DEF NoneAdded, Entries
  <2>19. /\ \A n \in C : MachineInv(n)'
         /\ \A n \in C : machine[n].status # "IN_USE"
         /\ \A n \in C : \A x \in Executions : release[x].at = "read" =>
              machine[n].action # ActionOf(x) /\ machine'[n].action # ActionOf(x)
    BY <2>16, <2>17
  <2>20. /\ flow[r] \in {"none", "requested"} /\ r \in Owners
         /\ r \in Executions => flow[r] = "requested"
         /\ r \in Refreshes => pool.refreshed
         /\ flow' = [flow EXCEPT ![r] = "machines"]
         /\ UNCHANGED <<pool, vms, execution, using, release, freeing>>
    BY <2>1
  <2>21. /\ machine' \in [Machines -> Rows] /\ job' \in [Owners -> [Machines -> Jobs]]
         /\ \A p \in Owners : p # r => job'[p] = job[p]
         /\ C \subseteq Machines
         /\ \A n \in Machines : n \notin C => machine'[n] = machine[n] /\ job'[r][n] = NoJob
    BY <2>11, <2>15
  <2>22. Inv'
    BY <2>19, <2>20, <2>21, FlowStarts
  <2> QED
    BY <2>18, <2>22 DEF Keeps
<1> QED
  BY <1>RefreshStep

-----------------------------------------------------------------------------
(* The theorems.                                                           *)

LEMMA InitInv ==
  ASSUME Init, Sound
  PROVE  Inv
<1>1. vms \subseteq Machines /\ Cardinality(vms) = MinimumMinions
  BY MinionMachinesAssumption DEF Init
<1>2. PICK on \in SUBSET vms :
        machine = [m \in Machines |->
                     IF m \in on THEN Unused("POWERED_ON")
                     ELSE IF m \in vms THEN Unused("POWERED_OFF") ELSE NoEntry]
  BY DEF Init
<1>3. /\ pool \in Scenarios
      /\ execution = [e \in Executions |-> "none"]
      /\ using = [e \in Executions |-> {}]
      /\ flow = [o \in Owners |-> "none"]
      /\ job = [o \in Owners |-> [m \in Machines |-> NoJob]]
      /\ release = [e \in Executions |-> NotAsked]
      /\ freeing = [e \in Executions |-> {}]
  BY DEF Init
<1>4. Unused("POWERED_ON") \in Rows /\ Unused("POWERED_OFF") \in Rows /\ NoEntry \in Rows
  BY DEF Rows, Unused, MachineStatuses, PowerStatuses
<1>5. \A m \in Machines :
        \/ m \in vms /\ machine[m] \in {Unused("POWERED_ON"), Unused("POWERED_OFF")}
        \/ m \notin vms /\ machine[m] = NoEntry
  BY <1>2
<1>6. Typed
  <2>1. machine \in [Machines -> Rows]
    BY <1>2, <1>4
  <2>2. job \in [Owners -> [Machines -> Jobs]]
    BY <1>3 DEF Jobs
  <2>3. flow \in [Owners -> FlowPlaces]
    BY <1>3 DEF FlowPlaces
  <2>4. /\ release \in [Executions -> [at : {"none", "sent", "read", "over"},
                                       listed : SUBSET Machines,
                                       fresh : SUBSET Machines]]
        /\ execution \in [Executions -> {"none", "AWAITING", "RUNNING", "ENDED"}]
    BY <1>3 DEF NotAsked
  <2>5. using \in [Executions -> SUBSET Machines] /\ freeing \in [Executions -> SUBSET Machines]
    BY <1>3
  <2> QED
    BY <1>1, <1>3, <2>1, <2>2, <2>3, <2>4, <2>5 DEF Typed
<1>7. /\ \A e \in Executions : /\ execution[e] = "none" /\ flow[e] = "none"
                               /\ release[e].at = "none" /\ using[e] = {}
                               /\ freeing[e] = {}
      /\ \A r \in Refreshes : flow[r] = "none"
      /\ \A o \in Owners : \A m \in Machines :
           job[o][m].at = "none" /\ job[o][m].kind = "none"
  BY <1>3 DEF Owners, NotAsked, NoJob
<1>8. InOrder
  BY <1>7 DEF InOrder, Ordered, Busy, Releasing, SameAction
<1>9. Stages /\ RefreshStages
  BY <1>7 DEF Stages, Stage, RefreshStages, RefreshStage, Owners, Working
<1>10. Held
  BY <1>7 DEF Held, HeldBy
<1>11. \A o \in Owners : \A m \in Machines : ~Live(o, m)
  BY <1>7 DEF Live, Places, Waiting, Working
<1>12. ASSUME NEW m \in Machines
       PROVE  MachineInv(m)
  <2>1. /\ \A e \in Executions : job[e][m].at = "none" /\ job[e][m].kind = "none"
        /\ \A r \in Refreshes : job[r][m].at = "none" /\ job[r][m].kind = "none"
    BY <1>7 DEF Owners
  <2>2. \A e \in Executions : ExecutionFits(e, m)
    BY <2>1 DEF ExecutionFits, Redeploys
  <2>3. \A r \in Refreshes : RefreshFits(r, m)
    BY <2>1 DEF RefreshFits
  <2>4. Apart(m)
    BY <1>11 DEF Apart
  <2>5. \/ /\ m \in vms /\ machine[m].status = "AVAILABLE"
           /\ machine[m].power \in {"POWERED_ON", "POWERED_OFF"}
           /\ machine[m].action = "none" /\ machine[m].deployed
        \/ /\ m \notin vms /\ machine[m].status = "none" /\ machine[m].action = "none"
    BY SMT, <1>5 DEF Unused, NoEntry
  <2>6. RowFits(m)
    BY <1>7, <1>11, <2>5 DEF RowFits, Gone
  <2>7. RowCalm(m)
    BY <2>5 DEF RowCalm
  <2> QED
    BY <2>2, <2>3, <2>4, <2>6, <2>7 DEF MachineInv
<1> QED
  BY <1>6, <1>8, <1>9, <1>10, <1>12 DEF Inv

\* Every step preserves the invariant.
LEMMA NextInv ==
  ASSUME Inv, Next
  PROVE  Inv' /\ (NoneAdded \/ \E e \in Executions : MakeAllocationSubflow(e))
<1>1. ASSUME NEW e \in Executions,
             \/ AllocateMinionMachines(e) \/ ExecutionEnds(e)
             \/ \E m \in using[e] : ReleaseMinion(e, m)
             \/ Requests(e)
      PROVE  Keeps \/ (Inv' /\ MakeAllocationSubflow(e))
  <2>1. CASE AllocateMinionMachines(e)
    BY <2>1, AllocateMinionMachinesStep
  <2>2. CASE ExecutionEnds(e)
    BY <2>2, ExecutionEndsStep
  <2>3. CASE \E m \in using[e] : ReleaseMinion(e, m)
    BY <2>3, ReleaseMinionStep
  <2>4. CASE MakeAllocationSubflow(e)
    BY <2>4, Allocations
  <2>5. CASE \E m \in freeing[e] : DeallocateMinionMachine(e, m)
    BY <2>5, Deallocations
  <2>6. CASE ReadAllocated(e)
    BY <2>6, ReadAllocatedStep
  <2>7. CASE DeallocateMinionMachines(e)
    BY <2>7, Deallocations
  <2>8. CASE ChecksMachines(e)
    BY <2>8, FlowEnds
  <2>9. CASE ConfirmMinionsAllocation(e)
    BY <2>9, FlowEnds
  <2> QED
    BY <1>1, <2>1, <2>2, <2>3, <2>4, <2>5, <2>6, <2>7, <2>8, <2>9 DEF Requests
<1>2. ASSUME NEW r \in Refreshes, Refresh(r)
      PROVE  Keeps
  BY <1>2, RefreshStarts
<1>3. ASSUME NEW o \in Owners, Flow(o)
      PROVE  Keeps
  <2>1. ASSUME NEW m \in Machines, Task(o, m)
        PROVE  Keeps
    BY <2>1, ExecutionTasks, RefreshTasks DEF Owners
  <2>2. ASSUME NEW m \in Machines, RevertAllocation(o, m)
        PROVE  Keeps
    BY <2>2, FlowEnds
  <2>3. CASE MachinesSettled(o)
    BY <2>3, FlowEnds
  <2>4. CASE Reverted(o)
    BY <2>4, FlowEnds
  <2> QED
    BY <1>3, <2>1, <2>2, <2>3, <2>4 DEF Flow
<1> QED
  BY <1>1, <1>2, <1>3 DEF Next, Keeps

\* A step which leaves everything alone.
LEMMA StutterInv ==
  ASSUME Inv, UNCHANGED vars
  PROVE  Keeps
<1>1. /\ UNCHANGED <<pool, machine, vms, execution, using, flow, job, release, freeing>>
  BY DEF vars
<1>2. Typed'
  BY <1>1 DEF Inv, Typed
<1>3. InOrder'
  BY SMT, <1>1 DEF Inv, InOrder, Ordered, Busy, Releasing, SameAction, ActionOf
<1>4. Stages'
  <2>1. \A e \in Executions : \A m \in Machines : InUse(e, m)' = InUse(e, m)
    BY <1>1 DEF InUse, ActionOf
  <2> QED
    BY SMT, <1>1, <2>1 DEF Inv, Stages, Stage
<1>5. Held'
  BY <1>1, HeldKept
<1> QED
  BY <1>1, <1>2, <1>3, <1>4, <1>5, RequestStep DEF Held

\* The scenario stays the same.
LEMMA PoolKept ==
  ASSUME [Next]_vars
  PROVE  pool' = pool /\ (Sound' <=> Sound)
<1>1. ASSUME NEW o, NEW m, Task(o, m)
      PROVE  pool' = pool
  BY <1>1 DEF Task, Starts, Finishes, PowerOn, PoweredOn, Healthcheck, Healthchecked,
     Deallocate, MachineDeleted, Deallocated, Allocate, Allocated, PowerOff, PoweredOff
<1>2. ASSUME NEW o, Flow(o)
      PROVE  pool' = pool
  BY <1>1, <1>2 DEF Flow, RevertAllocation, MachinesSettled, Reverted
<1>3. ASSUME NEW e, Requests(e)
      PROVE  pool' = pool
  BY <1>3 DEF Requests, MakeAllocationSubflow, DeallocateMinionMachine, ReadAllocated,
     DeallocateMinionMachines, ChecksMachines, ConfirmMinionsAllocation
<1>4. ASSUME NEW e, \/ AllocateMinionMachines(e) \/ ExecutionEnds(e)
                    \/ \E m \in using[e] : ReleaseMinion(e, m)
      PROVE  pool' = pool
  BY <1>4 DEF AllocateMinionMachines, ExecutionEnds, ReleaseMinion
<1>5. ASSUME NEW r, Refresh(r)
      PROVE  pool' = pool
  BY <1>5 DEF Refresh
<1>6. pool' = pool
  BY <1>2, <1>3, <1>4, <1>5 DEF Next, vars
<1> QED
  BY <1>6 DEF Sound, Calm, Fails

LEMMA InvUsedIsHeld ==
  ASSUME Inv
  PROVE  UsedIsHeld
<1>1. SUFFICES ASSUME NEW e \in Executions, NEW m \in using[e]
               PROVE  /\ machine[m] = [status |-> "IN_USE", power |-> "POWERED_ON",
                                       action |-> ActionOf(e), deployed |-> TRUE]
                      /\ m \in vms
  BY DEF UsedIsHeld
<1>2. m \in Machines /\ machine[m] \in Rows /\ InUse(e, m) /\ RowFits(m)
  BY DEF Inv, Typed, Held, HeldBy, MachineInv
<1>3. machine[m] = [status |-> "IN_USE", power |-> "POWERED_ON",
                    action |-> ActionOf(e), deployed |-> TRUE]
  <2>1. machine[m] \in [status : MachineStatuses, power : PowerStatuses,
                        action : Executions \cup {"none"}, deployed : BOOLEAN]
    BY SMT, <1>2 DEF Rows, NoEntry, InUse
  <2> QED
    BY <1>2, <2>1 DEF InUse
<1>4. \A o \in Owners : job[o][m].at # "forget"
  <2>1. \A o \in Owners : ~Live(o, m)
    BY <1>2, NotHeld
  <2> QED
    BY <2>1 DEF Live, Places, Working
<1> QED
  BY <1>2, <1>3, <1>4 DEF RowFits, InUse, Gone

-----------------------------------------------------------------------------
(* The size of the pool.                                                   *)

INSTANCE FiniteSetTheorems

\* The pool has no more machines than its maximum, unless some have to be redeployed.
Bound == Calm => Cardinality(Entries) <= MaximumMinions

\* The number of entries, which is finite.
LEMMA EntriesFinite ==
  ASSUME NEW S, S \subseteq Machines
  PROVE  IsFiniteSet(S) /\ Cardinality(S) \in Nat
<1>1. IsFiniteSet(S)
  BY MinionMachinesAssumption, FS_Subset
<1> QED
  BY <1>1, FS_CardinalityType

LEMMA BoundKept ==
  ASSUME Bound, UNCHANGED pool, NoneAdded
  PROVE  Bound'
<1>1. SUFFICES ASSUME Calm
               PROVE  Cardinality(Entries') <= MaximumMinions
  BY DEF Bound, Calm, Fails
<1>2. Entries \subseteq Machines /\ Entries' \subseteq Entries
  BY <1>1 DEF NoneAdded, Entries
<1>3. IsFiniteSet(Entries) /\ Cardinality(Entries) \in Nat
  BY <1>2, EntriesFinite
<1>4. Cardinality(Entries') <= Cardinality(Entries) /\ Cardinality(Entries') \in Nat
  BY <1>2, <1>3, FS_Subset, EntriesFinite
<1>5. Cardinality(Entries) <= MaximumMinions
  BY <1>1 DEF Bound
<1> QED
  BY SMT, <1>3, <1>4, <1>5, MinionMachinesAssumption

\* The pool keeps to its maximum when machines are added for which it has room.
LEMMA BoundGrows ==
  ASSUME NEW new, new \subseteq Machines, Entries' = Entries \cup new,
         UNCHANGED pool, Cardinality(new) <= ExtraSlots
  PROVE  Bound'
<1>1. /\ IsFiniteSet(Entries) /\ Cardinality(Entries) \in Nat
      /\ IsFiniteSet(new) /\ Cardinality(new) \in Nat
  BY EntriesFinite DEF Entries
<1>2. /\ Cardinality(Entries \cup new) =
         Cardinality(Entries) + Cardinality(new) - Cardinality(Entries \cap new)
  BY <1>1, FS_Union
<1>3. Cardinality(Entries \cap new) \in Nat
  BY EntriesFinite
<1>4. Cardinality(Entries \cup new) <= MaximumMinions
  BY SMT, <1>1, <1>2, <1>3, MinionMachinesAssumption DEF ExtraSlots
<1> QED
  BY <1>4 DEF Bound

\* The machines which are created for an execution, for which there is room.
LEMMA BoundedSubflow ==
  ASSUME Inv, Bound, NEW e \in Executions, MakeAllocationSubflow(e)
  PROVE  Bound'
<1>1. /\ UNCHANGED pool /\ machine \in [Machines -> Rows]
      /\ ActionOf(e) \in Executions
  BY ActionFacts DEF MakeAllocationSubflow, Inv, Typed
<1>2. CASE Instances[ActionOf(e)] > Cardinality(Selectable) + ExtraSlots
  <2>1. machine' = machine
    BY <1>2 DEF MakeAllocationSubflow
  <2>2. NoneAdded
    BY <2>1 DEF NoneAdded, Entries, Exists
  <2> QED
    BY <1>1, <2>2, BoundKept
<1>3. CASE ~(Instances[ActionOf(e)] > Cardinality(Selectable) + ExtraSlots)
  <2>1. PICK old \in SUBSET Selectable, new \in SUBSET Fresh :
          /\ Cardinality(old) + Cardinality(new) = Instances[ActionOf(e)]
          /\ new # {} => old = Selectable
          /\ machine' = [m \in Machines |->
               IF m \in old THEN ForAction("RESERVED", ActionOf(e), machine[m])
               ELSE IF m \in new THEN NewEntry("UNINITIALIZED", ActionOf(e))
               ELSE machine[m]]
    BY <1>3 DEF MakeAllocationSubflow
  <2>2. \A m \in Machines : m \notin old /\ m \notin new => machine'[m] = machine[m]
    BY <2>1
  <2>3. new \subseteq Machines /\ old \subseteq Machines
    BY DEF Fresh, Selectable
  <2>4. \A m \in old : Exists(m)
    <3>1. \A m \in old : m \in Machines /\ machine[m].status = "AVAILABLE"
      BY DEF Selectable
    <3> QED
      BY <1>1, <3>1, EntryFacts DEF Gone
  <2>5. ASSUME NEW m \in new, m \notin old
        PROVE  Exists(m)'
    <3>1. machine'[m] = NewEntry("UNINITIALIZED", ActionOf(e))
      BY <2>1, <2>3, <2>5
    <3>2. machine'[m].status = "UNINITIALIZED" /\ NoEntry.status = "none"
      BY SMT, <1>1, <3>1, NewEntryFacts, ActionFacts DEF NoEntry
    <3> QED
      BY <3>2 DEF Exists
  <2>6. ASSUME NEW m \in old
        PROVE  Exists(m)'
    <3>1. machine'[m] = ForAction("RESERVED", ActionOf(e), machine[m])
      BY <2>1, <2>3
    <3>2. machine[m] \in Rows /\ ~Gone(m)
      BY SMT, <1>1, <2>3, <2>4, EntryFacts
    <3>3. machine'[m].status = "RESERVED" /\ NoEntry.status = "none"
      <4>1. m \in Machines /\ "RESERVED" \in MachineStatuses
        BY <2>3 DEF MachineStatuses
      <4>2. machine'[m] = [status |-> "RESERVED", power |-> machine[m].power,
                           action |-> ActionOf(e), deployed |-> machine[m].deployed]
        BY <1>1, <3>1, <3>2, <4>1, GivenEntryFacts
      <4> QED
        BY SMT, <4>2 DEF NoEntry
    <3> QED
      BY <3>3 DEF Exists
  <2>7. \A m \in Machines : Exists(m)' <=> Exists(m) \/ m \in new
    <3>1. \A m \in Machines : m \notin old /\ m \notin new => (Exists(m)' <=> Exists(m))
      BY <2>2 DEF Exists
    <3> QED
      BY <2>4, <2>5, <2>6, <3>1
  <2>8. Entries' = Entries \cup new
    BY <2>3, <2>7 DEF Entries
  <2>9. CASE new = {}
    <3>1. NoneAdded
      BY <2>8, <2>9 DEF NoneAdded
    <3> QED
      BY <1>1, <3>1, BoundKept
  <2>10. CASE new # {}
    <3>1. /\ Cardinality(Selectable) + Cardinality(new) = Instances[ActionOf(e)]
          /\ Instances[ActionOf(e)] \in Nat
      BY <1>1, <2>1, <2>10, MinionMachinesAssumption
    <3>2. /\ Cardinality(Selectable) \in Nat /\ Cardinality(new) \in Nat
          /\ Cardinality(Entries) \in Nat
      BY <2>3, EntriesFinite DEF Selectable, Entries
    <3>3. Cardinality(new) <= ExtraSlots
      BY SMT, <1>3, <3>1, <3>2, MinionMachinesAssumption DEF ExtraSlots
    <3> QED
      BY <1>1, <2>3, <2>8, <3>3, BoundGrows
  <2> QED
    BY <2>9, <2>10
<1> QED
  BY <1>2, <1>3

\* The pool starts with its minimum of machines.
LEMMA InitBound ==
  ASSUME Init
  PROVE  Bound
<1>1. vms \subseteq Machines /\ Cardinality(vms) = MinimumMinions
  BY MinionMachinesAssumption DEF Init
<1>2. \A m \in Machines : Exists(m) <=> m \in vms
  <2>1. \A m \in Machines :
          \/ m \in vms /\ machine[m] \in {Unused("POWERED_ON"), Unused("POWERED_OFF")}
          \/ m \notin vms /\ machine[m] = NoEntry
    BY DEF Init
  <2> QED
    BY SMT, <2>1 DEF Exists, Unused, NoEntry
<1>3. Entries = vms
  BY <1>1, <1>2 DEF Entries
<1> QED
  BY <1>1, <1>3, MinionMachinesAssumption DEF Bound

LEMMA Invariant ==
  Spec => [](Sound => Inv /\ Bound)
<1>1. Init => (Sound => Inv /\ Bound)
  BY InitInv, InitBound
<1>2. ASSUME Sound => Inv /\ Bound, [Next]_vars, Sound'
      PROVE  (Inv /\ Bound)'
  <2>1. pool' = pool /\ Inv /\ Bound
    BY <1>2, PoolKept
  <2>2. Inv' /\ (NoneAdded \/ \E e \in Executions : MakeAllocationSubflow(e))
    BY <1>2, <2>1, NextInv, StutterInv DEF Keeps
  <2>3. Bound'
    BY <2>1, <2>2, BoundKept, BoundedSubflow
  <2> QED
    BY <2>2, <2>3
<1>3. (Sound => Inv /\ Bound) /\ [Next]_vars => (Sound => Inv /\ Bound)'
  BY <1>2
<1> QED
  BY <1>1, <1>3, PTL DEF Spec

LEMMA InvAccountedFor ==
  ASSUME Inv, Bound
  PROVE  MachinesAccountedFor
<1>1. TypeOK
  <2>1. ASSUME NEW m \in Machines
        PROVE  \/ machine[m] = NoEntry
               \/ /\ machine[m].status \in MachineStatuses
                  /\ machine[m].power \in PowerStatuses
                  /\ machine[m].action \in Executions \cup {"none"}
                  /\ machine[m].deployed \in BOOLEAN
    BY DEF Inv, Typed, Rows
  <2> QED
    BY <2>1 DEF Inv, Typed, TypeOK
<1>2. PoolBound
  BY DEF PoolBound, Bound, Calm
<1>3. NoLeak
  <2>1. ASSUME NEW m \in vms, ~Fails("undeletable")
        PROVE  m \in Entries
    <3>1. m \in Machines /\ RowFits(m) /\ machine \in [Machines -> Rows]
      BY DEF Inv, Typed, MachineInv
    <3>2. ~Gone(m)
      BY <2>1, <3>1 DEF RowFits
    <3> QED
      BY <3>1, <3>2, EntryFacts DEF Entries
  <2> QED
    BY <2>1 DEF NoLeak
<1> QED
  BY <1>1, <1>2, <1>3 DEF MachinesAccountedFor

\* However many machines, executions and refreshes a pool has: the machines which tasks of
\* an execution use (those ConfirmMinionAllocationForAction has handed to it) stay IN_USE,
\* allocated to its action, powered on and on the platform, while other actions select,
\* give back and refresh machines; as long as requests are not overtaken, and a pool which
\* is refreshed has no machine which has to be redeployed.
THEOREM UsedMachinesAreHeld ==
  Spec => [](Sound => UsedIsHeld)
<1>1. (Sound => Inv /\ Bound) => (Sound => UsedIsHeld)
  BY InvUsedIsHeld
<1> QED
  BY <1>1, Invariant, PTL

\* Under the same conditions, what flows create, redeploy, delete and revert is on record
\* (AllocateMinionMachineTask, DeallocateMinionMachineTask): no machine is on the platform
\* without an entry unless it cannot be deleted, and the pool has no more machines than its
\* maximum unless some have to be redeployed.
THEOREM MachinesAreAccountedFor ==
  Spec => [](Sound => MachinesAccountedFor)
<1>1. (Sound => Inv /\ Bound) => (Sound => MachinesAccountedFor)
  BY InvAccountedFor
<1> QED
  BY <1>1, Invariant, PTL

=============================================================================

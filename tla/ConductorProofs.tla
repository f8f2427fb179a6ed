-------------------------- MODULE ConductorProofs ---------------------------
(***************************************************************************)
(* What the conductor has others do, and what it is told: the schedules of *)
(* transfers with their jobs in the cron service, and the progress of      *)
(* tasks with the rows it keeps of them.  For any number of schedules,     *)
(* steps and messages, whatever requests fail half way, are handled in     *)
(* another order or given up, and whatever restarts there are.             *)
(***************************************************************************)
EXTENDS TransferCron, TaskProgress, FiniteSetTheorems, TLAPS

\* Most steps below are first-order consequences of a few facts: Zenon is tried first, and
\* the steps which need records, functions or arithmetic name SMT.
USE Zenon

-----------------------------------------------------------------------------
(***************************************************************************)
(* The schedules of transfers                                              *)
(*                                                                         *)
(* That the job of a schedule is what is stored of it is only so between   *)
(* the operations on it: the invariant says what the job is at each place  *)
(* of an operation, of a schedule which is not torn.  That a job is        *)
(* started once in a minute rests on the time of the next check.           *)
(***************************************************************************)

\* What a schedule is stored with.
Accepted == {v \in ScheduleValues : v # NoValue}

OperationPlaces == {"register", "commit", "lookup", "del", "trust"}

CronTyped ==
  /\ now \in Nat /\ now <= MaxNow
  /\ db \in [Schedules -> {NoSchedule, Deleted} \cup [value : Accepted, deleted : {FALSE}]]
  /\ trusts \subseteq Schedules /\ threads \subseteq Schedules
  /\ torn \subseteq Schedules /\ untrusted \subseteq Schedules
  /\ op \in [Schedules -> {Idle} \cup [do : {"create", "update", "delete"},
                                       at : OperationPlaces, value : Accepted]]
  /\ cron_up \in BOOLEAN
  /\ jobs \in [Schedules -> Accepted \cup {NoJob}]
  /\ next_check \in Nat
  /\ spawned \in [Schedules -> [minute : Int, times : Nat]]

\* A check begins when it is due, and no job was started in the minute it begins in.
Timely ==
  /\ copied # NothingCopied =>
       cron_up /\ copied.at \in Nat /\ copied.at <= now /\ next_check <= copied.at
  /\ \A s \in Schedules : /\ spawned[s].times <= 1
                          /\ 2 * spawned[s].minute <= now
                          /\ 2 * spawned[s].minute + 2 <= next_check

\* The operation on a schedule fits what is stored of it.
OperationFits(s) ==
  /\ op[s].at = "register" => op[s].do \in {"create", "update"}
  /\ op[s].at \in {"lookup", "del", "trust"} => op[s].do = "delete"
  /\ op[s].do = "create" => db[s] = NoSchedule /\ s \in trusts
  /\ op[s].do \in {"update", "delete"} => Stored(s)

\* The job of a schedule is what is stored of it.
InStep(s) ==
  /\ Stored(s) /\ Accepts(db[s].value) => jobs[s] = db[s].value
  /\ ~Stored(s) => jobs[s] = NoJob

\* What the cron service has of a schedule which is not torn.
JobFits(s) ==
  /\ op[s].at \in {"none", "register", "lookup", "del"} => InStep(s)
  /\ (op[s].at = "commit" /\ op[s].do # "delete" /\ Accepts(op[s].value)) =>
       jobs[s] = op[s].value
  /\ op[s].at = "trust" \/ (op[s].at = "commit" /\ op[s].do = "delete") => jobs[s] = NoJob

ScheduleInv(s) ==
  /\ OperationFits(s)
  /\ (Stored(s) /\ s \notin untrusted /\ ~(op[s].at = "commit" /\ op[s].do = "delete")) =>
       s \in trusts
  /\ s \notin torn /\ cron_up => JobFits(s)

CronInv ==
  /\ CronTyped
  /\ Timely
  /\ ~cron_up => \A s \in Schedules : jobs[s] = NoJob
  /\ \A s \in Schedules : ScheduleInv(s)

-----------------------------------------------------------------------------
(* What the operators of the model come to.                                *)

\* A value with a date which has not passed is not the one which stands for none.
LEMMA AcceptedFacts ==
  ASSUME now \in Nat
  PROVE  /\ \A v \in ScheduleValues : /\ v.expires \in Int
                                      /\ Accepts(v) => v \in Accepted
         /\ \A v \in Accepted : v \in ScheduleValues /\ v # NoValue /\ v # NoJob
BY SMT, CronAssumption DEF Accepts, Accepted, NoValue, NoJob, Never

\* What is stored of a schedule.
LEMMA StoredFacts ==
  ASSUME CronTyped, NEW s \in Schedules
  PROVE  /\ Stored(s) => db[s].value \in Accepted
         /\ Stored(s) <=> db[s] \in [value : Accepted, deleted : {FALSE}]
<1>1. /\ NoSchedule \notin [value : Accepted, deleted : {FALSE}]
      /\ Deleted \notin [value : Accepted, deleted : {FALSE}]
  BY DEF NoSchedule, Deleted, Accepted
<1>2. db[s] \in {NoSchedule, Deleted} \cup [value : Accepted, deleted : {FALSE}]
  BY DEF CronTyped
<1>3. \A row \in [value : Accepted, deleted : {FALSE}] : row.value \in Accepted
  OBVIOUS
<1> QED
  BY <1>1, <1>2, <1>3 DEF Stored

\* What an operation on a schedule may be at.
LEMMA OperationFacts ==
  ASSUME CronTyped, NEW s \in Schedules
  PROVE  /\ op[s].at \in OperationPlaces \cup {"none"}
         /\ op[s].do \in {"none", "create", "update", "delete"}
         /\ op[s].at = "none" <=> op[s] = Idle
         /\ op[s].do = "none" <=> op[s] = Idle
         /\ op[s] # Idle => op[s].value \in Accepted
BY SMT DEF CronTyped, Idle, OperationPlaces

\* An operation begins, goes on or ends: those on other schedules are left alone.
LEMMA BeginFacts ==
  ASSUME CronTyped, NEW s \in Schedules, NEW do \in {"create", "update", "delete"},
         NEW at \in OperationPlaces, NEW v \in Accepted, Begin(s, do, at, v)
  PROVE  /\ op' \in [Schedules -> {Idle} \cup [do : {"create", "update", "delete"},
                                               at : OperationPlaces, value : Accepted]]
         /\ op'[s].at = at /\ op'[s].do = do /\ op'[s].value = v
         /\ \A t \in Schedules : t # s => op'[t] = op[t]
BY DEF CronTyped, Begin

LEMMA GotoFacts ==
  ASSUME CronTyped, NEW s \in Schedules, op[s] # Idle, NEW at \in OperationPlaces, Goto(s, at)
  PROVE  /\ op' \in [Schedules -> {Idle} \cup [do : {"create", "update", "delete"},
                                               at : OperationPlaces, value : Accepted]]
         /\ op'[s].at = at /\ op'[s].do = op[s].do /\ op'[s].value = op[s].value
         /\ \A t \in Schedules : t # s => op'[t] = op[t]
<1>1. op'[s] = [op[s] EXCEPT !.at = at] /\ \A t \in Schedules : t # s => op'[t] = op[t]
  BY DEF CronTyped, Goto
<1>2. op[s] \in [do : {"create", "update", "delete"}, at : OperationPlaces, value : Accepted]
  BY DEF CronTyped
<1>3. /\ op'[s] \in [do : {"create", "update", "delete"}, at : OperationPlaces, value : Accepted]
      /\ op'[s].at = at /\ op'[s].do = op[s].do /\ op'[s].value = op[s].value
  BY <1>1, <1>2
<1>4. op' = [t \in Schedules |-> op'[t]]
  BY DEF CronTyped, Goto
<1> QED
  BY SMT, <1>1, <1>3, <1>4 DEF CronTyped

LEMMA EndFacts ==
  ASSUME CronTyped, NEW s \in Schedules, End(s)
  PROVE  /\ op' \in [Schedules -> {Idle} \cup [do : {"create", "update", "delete"},
                                               at : OperationPlaces, value : Accepted]]
         /\ op'[s] = Idle /\ op'[s].at = "none" /\ op'[s].do = "none"
         /\ \A t \in Schedules : t # s => op'[t] = op[t]
BY DEF CronTyped, End, Idle

\* Time only takes acceptance away.
LEMMA StillAccepted ==
  ASSUME now \in Nat, now' \in Nat, now <= now', NEW v \in ScheduleValues, Accepts(v)'
  PROVE  Accepts(v)
BY SMT, CronAssumption DEF Accepts, Never

\* What is the case with a schedule stays so in a step which leaves it alone, but for its
\* job when that has expired.
LEMMA ScheduleKept ==
  ASSUME CronTyped, now' \in Nat, now <= now', NEW t \in Schedules, ScheduleInv(t),
         op'[t] = op[t], db'[t] = db[t], t \in trusts => t \in trusts',
         t \in torn => t \in torn', t \in untrusted => t \in untrusted',
         cron_up' = cron_up,
         jobs'[t] = jobs[t] \/ (jobs'[t] = NoJob /\ ~Accepts(jobs[t]))
  PROVE  ScheduleInv(t)'
<1>1. Stored(t)' = Stored(t)
  BY DEF Stored
<1>2. OperationFits(t)'
  BY <1>1 DEF ScheduleInv, OperationFits
<1>3. ASSUME JobFits(t)
      PROVE  JobFits(t)'
  <2>1. ASSUME NEW v \in Accepted, Accepts(v) => jobs[t] = v, Accepts(v)'
        PROVE  jobs'[t] = v
    BY <2>1, StillAccepted, AcceptedFacts DEF CronTyped
  <2>2. InStep(t) => InStep(t)'
    BY <1>1, <2>1, StoredFacts DEF InStep
  <2>3. op[t] # Idle /\ (Accepts(op[t].value) => jobs[t] = op[t].value) =>
          (Accepts(op[t].value)' => jobs'[t] = op[t].value)
    BY <2>1, OperationFacts
  <2>4. jobs[t] = NoJob => jobs'[t] = NoJob
    OBVIOUS
  <2> QED
    BY <1>3, <2>2, <2>3, <2>4, OperationFacts DEF JobFits
<1> QED
  BY <1>1, <1>2, <1>3 DEF ScheduleInv

-----------------------------------------------------------------------------
(* Every step preserves the invariant.                                     *)

\* A step of the conductor on a schedule: the cron service is left alone, but for the job
\* of the schedule.
LEMMA OperationStep ==
  ASSUME CronInv, NEW s \in Schedules,
         UNCHANGED <<now, cron_up, next_check, copied, threads, spawned>>,
         op' \in [Schedules -> {Idle} \cup [do : {"create", "update", "delete"},
                                           at : OperationPlaces, value : Accepted]],
         db' \in [Schedules -> {NoSchedule, Deleted} \cup
                                 [value : Accepted, deleted : {FALSE}]],
         jobs' \in [Schedules -> Accepted \cup {NoJob}],
         trusts' \in SUBSET Schedules, torn' \in SUBSET Schedules,
         untrusted' \in SUBSET Schedules, ~cron_up => jobs' = jobs,
         \A t \in Schedules : t # s => /\ op'[t] = op[t] /\ db'[t] = db[t]
                                       /\ jobs'[t] = jobs[t]
                                       /\ t \in trusts => t \in trusts'
                                       /\ t \in torn => t \in torn'
                                       /\ t \in untrusted => t \in untrusted',
         ScheduleInv(s)'
  PROVE  CronInv'
<1>1. CronTyped'
  BY DEF CronInv, CronTyped
<1>2. Timely'
  BY DEF CronInv, Timely, NothingCopied
<1>3. ASSUME NEW t \in Schedules, t # s
      PROVE  ScheduleInv(t)'
  <2>0. CronTyped /\ ScheduleInv(t) /\ now \in Nat /\ now' = now
    BY DEF CronInv, CronTyped
  <2>1. now' \in Nat /\ now <= now'
    BY SMT, <2>0
  <2>2. /\ op'[t] = op[t] /\ db'[t] = db[t] /\ jobs'[t] = jobs[t]
        /\ t \in trusts => t \in trusts'
        /\ t \in torn => t \in torn'
        /\ t \in untrusted => t \in untrusted'
        /\ cron_up' = cron_up
    BY <1>3
  <2> QED
    BY <2>0, <2>1, <2>2, ScheduleKept
<1> QED
  BY <1>1, <1>2, <1>3 DEF CronInv

LEMMA CreateStep ==
  ASSUME CronInv, NEW s \in Schedules, NEW value \in ScheduleValues,
         create_transfer_schedule(s, value)
  PROVE  CronInv'
<1>1. /\ op[s] = Idle /\ db[s] = NoSchedule /\ Accepts(value) /\ CronTyped
      /\ trusts' = trusts \cup {s} /\ Begin(s, "create", "register", value)
      /\ UNCHANGED <<now, db, memory, execution, torn, untrusted, cron_faults,
                     restarts>>
  BY DEF create_transfer_schedule, CronInv
<1>2. value \in Accepted
  BY <1>1, AcceptedFacts DEF CronTyped
<1>3. /\ op' \in [Schedules -> {Idle} \cup [do : {"create", "update", "delete"},
                                            at : OperationPlaces, value : Accepted]]
      /\ op'[s].at = "register" /\ op'[s].do = "create"
      /\ \A t \in Schedules : t # s => op'[t] = op[t]
  BY <1>1, <1>2, BeginFacts DEF OperationPlaces
<1>4. ~Stored(s) /\ ~Stored(s)'
  BY <1>1 DEF Stored
<1>5. ScheduleInv(s)'
  <2>1. op[s].at = "none" /\ ScheduleInv(s)
    BY SMT, <1>1 DEF Idle, CronInv
  <2>2. s \notin torn /\ cron_up => jobs[s] = NoJob
    BY <1>4, <2>1 DEF ScheduleInv, JobFits, InStep
  <2>3. OperationFits(s)'
    BY <1>1, <1>3 DEF OperationFits
  <2>4. s \notin torn /\ cron_up => JobFits(s)'
    BY <1>1, <1>3, <1>4, <2>2 DEF JobFits, InStep, memory
  <2> QED
    BY <1>1, <1>3, <1>4, <2>3, <2>4 DEF ScheduleInv, memory
<1> QED
  BY <1>1, <1>3, <1>5, OperationStep DEF memory, CronTyped

LEMMA ScheduleUpdateStep ==
  ASSUME CronInv, NEW s \in Schedules, NEW value \in ScheduleValues,
         update_transfer_schedule(s, value)
  PROVE  CronInv'
<1>1. /\ op[s] = Idle /\ Stored(s) /\ Accepts(value) /\ CronTyped
      /\ Begin(s, "update", "register", value)
      /\ UNCHANGED <<now, db, trusts, memory, execution, torn, untrusted, cron_faults,
                     restarts>>
  BY DEF update_transfer_schedule, CronInv
<1>2. value \in Accepted
  BY <1>1, AcceptedFacts DEF CronTyped
<1>3. /\ op' \in [Schedules -> {Idle} \cup [do : {"create", "update", "delete"},
                                            at : OperationPlaces, value : Accepted]]
      /\ op'[s].at = "register" /\ op'[s].do = "update"
      /\ \A t \in Schedules : t # s => op'[t] = op[t]
  BY <1>1, <1>2, BeginFacts DEF OperationPlaces
<1>4. Stored(s)' /\ (InStep(s)' <=> InStep(s))
  BY <1>1 DEF Stored, InStep, Accepts, memory
<1>5. ScheduleInv(s)'
  <2>1. op[s].at = "none" /\ ScheduleInv(s)
    BY SMT, <1>1 DEF Idle, CronInv
  <2>2. OperationFits(s)'
    BY <1>3, <1>4 DEF OperationFits
  <2>3. s \notin torn /\ cron_up => JobFits(s)'
    BY <1>3, <1>4, <2>1 DEF JobFits, ScheduleInv
  <2> QED
    BY <1>1, <1>3, <1>4, <2>1, <2>2, <2>3 DEF ScheduleInv, memory
<1> QED
  BY <1>1, <1>3, <1>5, OperationStep DEF memory, CronTyped

LEMMA DeleteStep ==
  ASSUME CronInv, NEW s \in Schedules, delete_transfer_schedule(s)
  PROVE  CronInv'
<1>1. /\ op[s] = Idle /\ Stored(s) /\ CronTyped
      /\ Begin(s, "delete", "lookup", db[s].value)
      /\ UNCHANGED <<now, db, trusts, memory, execution, torn, untrusted, cron_faults,
                     restarts>>
  BY DEF delete_transfer_schedule, CronInv
<1>2. db[s].value \in Accepted
  BY <1>1, StoredFacts
<1>3. /\ op' \in [Schedules -> {Idle} \cup [do : {"create", "update", "delete"},
                                            at : OperationPlaces, value : Accepted]]
      /\ op'[s].at = "lookup" /\ op'[s].do = "delete"
      /\ \A t \in Schedules : t # s => op'[t] = op[t]
  BY SMT, <1>1, <1>2, BeginFacts DEF OperationPlaces
<1>4. Stored(s)' /\ (InStep(s)' <=> InStep(s))
  BY <1>1 DEF Stored, InStep, Accepts, memory
<1>5. ScheduleInv(s)'
  <2>1. op[s].at = "none" /\ ScheduleInv(s)
    BY SMT, <1>1 DEF Idle, CronInv
  <2>2. OperationFits(s)'
    BY <1>3, <1>4 DEF OperationFits
  <2>3. s \notin torn /\ cron_up => JobFits(s)'
    BY <1>3, <1>4, <2>1 DEF JobFits, ScheduleInv
  <2> QED
    BY <1>1, <1>3, <1>4, <2>1, <2>2, <2>3 DEF ScheduleInv, memory
<1> QED
  BY <1>1, <1>3, <1>5, OperationStep DEF memory, CronTyped

LEMMA RegisterStep ==
  ASSUME CronInv, NEW s \in Schedules, register(s)
  PROVE  CronInv'
<1>1. /\ op[s].at = "register" /\ cron_up /\ Goto(s, "commit") /\ CronTyped
      /\ jobs' = _register_schedule(jobs, s, op[s].value, now) /\ torn' = torn \ {s}
      /\ UNCHANGED <<now, db, trusts, cron_up, next_check, copied, threads, execution,
                     spawned, untrusted>>
  BY DEF register, CronInv
<1>2. op[s] # Idle /\ op[s].value \in Accepted
  BY <1>1, OperationFacts DEF Idle
<1>3. /\ op' \in [Schedules -> {Idle} \cup [do : {"create", "update", "delete"},
                                            at : OperationPlaces, value : Accepted]]
      /\ op'[s].at = "commit" /\ op'[s].do = op[s].do /\ op'[s].value = op[s].value
      /\ \A t \in Schedules : t # s => op'[t] = op[t]
  BY <1>1, <1>2, GotoFacts DEF OperationPlaces
<1>4. /\ jobs' \in [Schedules -> Accepted \cup {NoJob}]
      /\ \A t \in Schedules : t # s => jobs'[t] = jobs[t]
      /\ Accepts(op[s].value) => jobs'[s] = op[s].value
  <2>1. op[s].value.expires \in Int /\ now \in Nat
    BY <1>1, <1>2, AcceptedFacts DEF CronTyped
  <2>2. Accepts(op[s].value) =>
          ~(op[s].value.expires # Never /\ op[s].value.expires <= now)
    BY SMT, <2>1 DEF Accepts
  <2>3. jobs' \in {jobs, [jobs EXCEPT ![s] = op[s].value]}
        /\ (Accepts(op[s].value) => jobs' = [jobs EXCEPT ![s] = op[s].value])
    BY <1>1, <2>2 DEF _register_schedule
  <2> QED
    BY <1>1, <1>2, <2>3 DEF CronTyped
<1>5. ScheduleInv(s)'
  <2>1. ScheduleInv(s) /\ (Stored(s)' <=> Stored(s))
    BY <1>1 DEF CronInv, Stored
  <2>2. OperationFits(s)' /\ op[s].do # "delete"
    BY <1>1, <1>3, <2>1 DEF OperationFits, ScheduleInv
  <2>3. (Accepts(op[s].value))' => jobs'[s] = op'[s].value
    BY <1>1, <1>3, <1>4 DEF Accepts
  <2>4. JobFits(s)'
    BY <1>3, <2>2, <2>3 DEF JobFits
  <2> QED
    BY <1>1, <1>3, <2>1, <2>2, <2>4 DEF ScheduleInv
<1> QED
  BY <1>1, <1>3, <1>4, <1>5, OperationStep DEF CronTyped

LEMMA LookUpStep ==
  ASSUME CronInv, NEW s \in Schedules, LookUp(s)
  PROVE  CronInv'
<1>1. /\ op[s].at = "lookup" /\ cron_up /\ CronTyped
      /\ Goto(s, IF jobs[s] = NoJob THEN "trust" ELSE "del")
      /\ torn' = IF jobs[s] = NoJob THEN torn \ {s} ELSE torn
      /\ UNCHANGED <<now, db, trusts, memory, execution, untrusted>>
  BY DEF LookUp, CronInv
<1>2. op[s] # Idle
  BY SMT, <1>1 DEF Idle
<1>3. PICK at \in {"trust", "del"} : /\ Goto(s, at)
                                     /\ at = "trust" => jobs[s] = NoJob
                                     /\ at = "del" => torn' = torn
  BY <1>1
<1>4. /\ op' \in [Schedules -> {Idle} \cup [do : {"create", "update", "delete"},
                                            at : OperationPlaces, value : Accepted]]
      /\ op'[s].at = at /\ op'[s].do = op[s].do
      /\ \A t \in Schedules : t # s => op'[t] = op[t]
  <2>1. at \in OperationPlaces
    BY DEF OperationPlaces
  <2> QED
    BY <1>1, <1>2, <1>3, <2>1, GotoFacts
<1>5. ScheduleInv(s)'
  <2>1. ScheduleInv(s) /\ (Stored(s)' <=> Stored(s)) /\ (InStep(s)' <=> InStep(s))
    BY <1>1 DEF CronInv, Stored, InStep, Accepts, memory
  <2>2. OperationFits(s)'
    BY <1>1, <1>3, <1>4, <2>1 DEF OperationFits, ScheduleInv
  <2>3. s \notin torn' => JobFits(s)'
    <3>1. CASE at = "trust"
      BY <1>1, <1>3, <1>4, <3>1 DEF JobFits, memory
    <3>2. CASE at = "del"
      <4>1. s \notin torn' => InStep(s)
        BY <1>1, <1>3, <2>1, <3>2 DEF JobFits, ScheduleInv
      <4> QED
        BY <1>4, <2>1, <3>2, <4>1 DEF JobFits
    <3> QED
      BY <3>1, <3>2
  <2> QED
    BY <1>1, <1>4, <2>1, <2>2, <2>3 DEF ScheduleInv, memory
<1> QED
  BY <1>1, <1>4, <1>5, OperationStep DEF memory, CronTyped

\* A job which is not there has expired: the schedule is left without one.
LEMMA UnregisterStep ==
  ASSUME CronInv, NEW s \in Schedules, unregister(s)
  PROVE  CronInv'
<1>1. /\ op[s].at = "del" /\ cron_up /\ CronTyped
      /\ jobs' = [jobs EXCEPT ![s] = NoJob]
      /\ IF jobs[s] = NoJob THEN End(s) /\ UNCHANGED torn
         ELSE Goto(s, "trust") /\ torn' = torn \ {s}
      /\ UNCHANGED <<now, db, trusts, cron_up, next_check, copied, threads, execution,
                     spawned, untrusted>>
  BY DEF unregister, CronInv
<1>2. op[s] # Idle
  BY SMT, <1>1 DEF Idle
<1>3. /\ op' \in [Schedules -> {Idle} \cup [do : {"create", "update", "delete"},
                                            at : OperationPlaces, value : Accepted]]
      /\ \/ jobs[s] = NoJob /\ op'[s].at = "none" /\ op'[s].do = "none" /\ torn' = torn
         \/ op'[s].at = "trust" /\ op'[s].do = op[s].do
      /\ \A t \in Schedules : t # s => op'[t] = op[t]
  BY <1>1, <1>2, GotoFacts, EndFacts DEF OperationPlaces
<1>4. /\ jobs' \in [Schedules -> Accepted \cup {NoJob}] /\ jobs'[s] = NoJob
      /\ \A t \in Schedules : t # s => jobs'[t] = jobs[t]
  BY <1>1 DEF CronTyped
<1>5. ScheduleInv(s)'
  <2>1. ScheduleInv(s) /\ (Stored(s)' <=> Stored(s))
    BY <1>1 DEF CronInv, Stored
  <2>2. OperationFits(s)' /\ Stored(s)
    BY <1>1, <1>3, <2>1 DEF OperationFits, ScheduleInv
  <2>3. s \notin torn /\ jobs[s] = NoJob => InStep(s)'
    <3>1. s \notin torn => InStep(s)
      BY <1>1, <2>1 DEF ScheduleInv, JobFits
    <3> QED
      BY <1>1, <1>4, <2>1, <2>2, <3>1 DEF InStep, Accepts
  <2>4. s \notin torn' => JobFits(s)'
    BY <1>3, <1>4, <2>3 DEF JobFits
  <2> QED
    BY <1>1, <1>3, <2>1, <2>2, <2>4 DEF ScheduleInv
<1> QED
  BY <1>1, <1>3, <1>4, <1>5, OperationStep DEF CronTyped

LEMMA DeleteTrustStep ==
  ASSUME CronInv, NEW s \in Schedules, DeleteTrust(s)
  PROVE  CronInv'
<1>1. /\ op[s].at = "trust" /\ trusts' \in {trusts, trusts \ {s}} /\ Goto(s, "commit")
      /\ CronTyped
      /\ UNCHANGED <<now, db, memory, execution, torn, untrusted, cron_faults,
                     restarts>>
  BY DEF DeleteTrust, CronInv
<1>2. op[s] # Idle
  BY SMT, <1>1 DEF Idle
<1>3. /\ op' \in [Schedules -> {Idle} \cup [do : {"create", "update", "delete"},
                                            at : OperationPlaces, value : Accepted]]
      /\ op'[s].at = "commit" /\ op'[s].do = op[s].do
      /\ \A t \in Schedules : t # s => op'[t] = op[t]
  BY <1>1, <1>2, GotoFacts DEF OperationPlaces
<1>4. ScheduleInv(s)'
  <2>1. ScheduleInv(s) /\ (Stored(s)' <=> Stored(s))
    BY <1>1 DEF CronInv, Stored
  <2>2. OperationFits(s)' /\ op'[s].do = "delete"
    BY <1>1, <1>3, <2>1 DEF OperationFits, ScheduleInv
  <2>3. s \notin torn /\ cron_up => JobFits(s)'
    BY <1>1, <1>3, <2>1, <2>2 DEF JobFits, ScheduleInv, memory
  <2> QED
    BY <1>1, <1>3, <2>1, <2>2, <2>3 DEF ScheduleInv, memory
<1> QED
  BY <1>1, <1>3, <1>4, OperationStep DEF memory, CronTyped

LEMMA CommitStep ==
  ASSUME CronInv, NEW s \in Schedules, Commit(s)
  PROVE  CronInv'
<1>1. /\ op[s].at = "commit" /\ End(s) /\ CronTyped /\ ScheduleInv(s)
      /\ db' = [db EXCEPT ![s] = IF op[s].do = "delete" THEN Deleted
                                 ELSE [value |-> op[s].value, deleted |-> FALSE]]
      /\ UNCHANGED <<now, trusts, memory, execution, torn, untrusted, cron_faults,
                     restarts>>
  BY DEF Commit, CronInv
<1>2. op[s] # Idle /\ op[s].value \in Accepted /\ op[s].do \in {"create", "update", "delete"}
  BY <1>1, OperationFacts DEF Idle
<1>3. /\ op' \in [Schedules -> {Idle} \cup [do : {"create", "update", "delete"},
                                            at : OperationPlaces, value : Accepted]]
      /\ op'[s].at = "none" /\ op'[s].do = "none"
      /\ \A t \in Schedules : t # s => op'[t] = op[t]
  BY <1>1, EndFacts
<1>4. /\ db' \in [Schedules -> {NoSchedule, Deleted} \cup
                                [value : Accepted, deleted : {FALSE}]]
      /\ \A t \in Schedules : t # s => db'[t] = db[t]
      /\ op[s].do = "delete" => db'[s] = Deleted
      /\ op[s].do # "delete" => db'[s] = [value |-> op[s].value, deleted |-> FALSE]
  <2>1. PICK row : row = IF op[s].do = "delete" THEN Deleted
                         ELSE [value |-> op[s].value, deleted |-> FALSE]
    OBVIOUS
  <2>2. row \in {Deleted} \cup [value : Accepted, deleted : {FALSE}]
    BY <1>2, <2>1
  <2>3. db' = [db EXCEPT ![s] = row]
    BY <1>1, <2>1
  <2>4. db \in [Schedules -> {NoSchedule, Deleted} \cup
                              [value : Accepted, deleted : {FALSE}]]
    BY <1>1 DEF CronTyped
  <2> QED
    BY <2>1, <2>2, <2>3, <2>4
<1>5. /\ op[s].do = "delete" => ~Stored(s)'
      /\ op[s].do # "delete" => Stored(s)' /\ db'[s].value = op[s].value
  <2>1. op[s].value # NoValue
    BY <1>2 DEF Accepted
  <2> QED
    BY SMT, <1>4, <2>1 DEF Stored, NoSchedule, Deleted
<1>6. ScheduleInv(s)'
  <2>1. op[s].do # "delete" /\ s \notin untrusted => s \in trusts
    BY <1>1, <1>2 DEF ScheduleInv, OperationFits
  <2>2. s \notin torn /\ cron_up =>
          /\ op[s].do = "delete" => jobs[s] = NoJob
          /\ op[s].do # "delete" /\ Accepts(op[s].value) => jobs[s] = op[s].value
    BY <1>1 DEF ScheduleInv, JobFits
  <2>3. OperationFits(s)'
    BY <1>3 DEF OperationFits
  <2>4. s \notin torn /\ cron_up => InStep(s)'
    BY <1>1, <1>5, <2>2 DEF InStep, Accepts, memory
  <2>5. s \notin torn /\ cron_up => JobFits(s)'
    BY <1>3, <2>4 DEF JobFits
  <2> QED
    BY <1>1, <1>3, <1>5, <2>1, <2>3, <2>5 DEF ScheduleInv, memory
<1> QED
  BY <1>1, <1>3, <1>4, <1>6, OperationStep DEF memory, CronTyped

\* A schedule of which an operation is rolled back is torn, and if that was its deletion
\* it may have lost its trust.
LEMMA FailedStep ==
  ASSUME CronInv, NEW s \in Schedules, Fails(s)
  PROVE  CronInv'
<1>1. /\ torn' = torn \cup {s} /\ End(s) /\ CronTyped /\ op[s].at \in {"trust", "commit"}
      /\ untrusted' = IF op[s].do = "delete" /\ s \notin trusts THEN untrusted \cup {s}
                      ELSE untrusted
      /\ UNCHANGED <<now, db, trusts, memory, execution>>
  BY DEF Fails, CronInv
<1>2. /\ op' \in [Schedules -> {Idle} \cup [do : {"create", "update", "delete"},
                                            at : OperationPlaces, value : Accepted]]
      /\ op'[s].at = "none" /\ op'[s].do = "none"
      /\ \A t \in Schedules : t # s => op'[t] = op[t]
  BY <1>1, EndFacts
<1>3. ScheduleInv(s)'
  <2>1. ScheduleInv(s) /\ (Stored(s)' <=> Stored(s))
    BY <1>1 DEF CronInv, Stored
  <2>2. Stored(s) /\ s \notin untrusted' => s \in trusts
    BY <1>1, <2>1 DEF ScheduleInv
  <2> QED
    BY <1>1, <1>2, <2>1, <2>2 DEF ScheduleInv, OperationFits
<1> QED
  BY <1>1, <1>2, <1>3, OperationStep DEF memory, CronTyped

\* An operation which is not answered has changed nothing.
LEMMA TimesOutStep ==
  ASSUME CronInv, NEW s \in Schedules, TimesOut(s)
  PROVE  CronInv'
<1>1. /\ ~cron_up /\ End(s) /\ CronTyped /\ op[s].at \in {"register", "lookup", "del"}
      /\ UNCHANGED <<now, db, trusts, memory, execution, torn, untrusted>>
  BY DEF TimesOut, CronInv
<1>2. /\ op' \in [Schedules -> {Idle} \cup [do : {"create", "update", "delete"},
                                            at : OperationPlaces, value : Accepted]]
      /\ op'[s].at = "none" /\ op'[s].do = "none"
      /\ \A t \in Schedules : t # s => op'[t] = op[t]
  BY <1>1, EndFacts
<1>3. ScheduleInv(s)'
  <2>1. ScheduleInv(s) /\ (Stored(s)' <=> Stored(s)) /\ ~cron_up'
    BY <1>1 DEF CronInv, Stored, memory
  <2> QED
    BY <1>1, <1>2, <2>1 DEF ScheduleInv, OperationFits
<1> QED
  BY <1>1, <1>2, <1>3, OperationStep DEF memory, CronTyped

LEMMA TriggerStep ==
  ASSUME CronInv, NEW s \in Schedules, _trigger_transfer(s)
  PROVE  CronInv'
<1>1. /\ threads' \subseteq Schedules /\ CronTyped
      /\ UNCHANGED <<now, db, trusts, op, cron_up, jobs, next_check, copied, spawned,
                     torn, untrusted>>
  BY DEF _trigger_transfer, CronInv, CronTyped
<1>2. CronTyped'
  BY <1>1 DEF CronTyped
<1>3. Timely'
  BY <1>1 DEF CronInv, Timely, NothingCopied
<1>4. ASSUME NEW t \in Schedules
      PROVE  ScheduleInv(t)'
  <2>1. now \in Nat /\ now' = now /\ ScheduleInv(t)
    BY <1>1 DEF CronInv, CronTyped
  <2>2. now' \in Nat /\ now <= now'
    BY SMT, <2>1
  <2> QED
    BY <1>1, <2>1, <2>2, ScheduleKept
<1> QED
  BY <1>1, <1>2, <1>3, <1>4 DEF CronInv

LEMMA EndsStep ==
  ASSUME CronInv, TransferEnds
  PROVE  CronInv'
<1>1. UNCHANGED <<now, db, trusts, op, memory, torn, untrusted>>
  BY DEF TransferEnds
<1>2. ASSUME NEW t \in Schedules
      PROVE  ScheduleInv(t)'
  <2>1. now \in Nat /\ now' = now /\ ScheduleInv(t) /\ CronTyped
    BY <1>1 DEF CronInv, CronTyped
  <2>2. now' \in Nat /\ now <= now'
    BY SMT, <2>1
  <2> QED
    BY <1>1, <2>1, <2>2, ScheduleKept DEF memory
<1>3. CronTyped' /\ Timely'
  BY <1>1 DEF CronInv, CronTyped, Timely, NothingCopied, memory
<1> QED
  BY <1>1, <1>2, <1>3 DEF CronInv, memory

LEMMA TickStep ==
  ASSUME CronInv, Tick
  PROVE  CronInv'
<1>1. /\ now < MaxNow /\ now' = now + 1 /\ CronTyped
      /\ UNCHANGED <<db, trusts, op, memory, execution, torn, untrusted>>
  BY DEF Tick, CronInv
<1>2. now \in Nat /\ now' \in Nat /\ now <= now' /\ now' <= MaxNow
  BY SMT, <1>1, CronAssumption DEF CronTyped
<1>3. ASSUME NEW t \in Schedules
      PROVE  ScheduleInv(t)'
  <2>1. ScheduleInv(t)
    BY DEF CronInv
  <2> QED
    BY <1>1, <1>2, <2>1, ScheduleKept DEF memory
<1>4. CronTyped'
  BY <1>1, <1>2 DEF CronTyped, memory
<1>5. Timely'
  <2>1. ASSUME NEW s \in Schedules
        PROVE  2 * spawned'[s].minute <= now'
    BY SMT, <1>1, <1>2 DEF CronInv, Timely, CronTyped, memory
  <2>2. copied' # NothingCopied' => copied'.at <= now'
    BY SMT, <1>1, <1>2 DEF CronInv, Timely, NothingCopied, memory
  <2> QED
    BY <1>1, <2>1, <2>2 DEF CronInv, Timely, NothingCopied, memory
<1> QED
  BY <1>1, <1>3, <1>4, <1>5 DEF CronInv, memory

\* The service which comes up has read the jobs of what is stored, and its first check is
\* a minute away from those of the one before.
LEMMA InitCronStep ==
  ASSUME CronInv, _init_cron
  PROVE  CronInv'
<1>1. /\ ~cron_up /\ cron_up' = TRUE /\ next_check' = now + 2 /\ CronTyped
      /\ jobs' = [s \in Schedules |->
                    IF Stored(s) THEN _register_schedule(jobs, s, db[s].value, now)[s]
                    ELSE NoJob]
      /\ torn' = {s \in Schedules : op[s].at \in {"trust", "commit"}}
      /\ UNCHANGED <<now, db, trusts, op, copied, threads, execution, spawned, untrusted>>
  BY DEF _init_cron, CronInv
<1>2. now \in Nat /\ \A s \in Schedules : jobs[s] = NoJob
  BY <1>1 DEF CronInv, CronTyped
<1>3. ASSUME NEW s \in Schedules
      PROVE  /\ jobs'[s] \in Accepted \cup {NoJob}
             /\ ~Stored(s) => jobs'[s] = NoJob
             /\ Stored(s) /\ Accepts(db[s].value) => jobs'[s] = db[s].value
  <2>1. CASE ~Stored(s)
    BY <1>1, <2>1
  <2>2. CASE Stored(s)
    <3>1. /\ db[s].value \in Accepted /\ db[s].value.expires \in Int
          /\ jobs'[s] = _register_schedule(jobs, s, db[s].value, now)[s]
      BY <1>1, <1>2, <2>2, StoredFacts, AcceptedFacts
    <3>2. Accepts(db[s].value) =>
            ~(db[s].value.expires # Never /\ db[s].value.expires <= now)
      BY SMT, <1>2, <3>1 DEF Accepts
    <3>3. jobs'[s] \in {jobs[s], db[s].value}
          /\ (Accepts(db[s].value) => jobs'[s] = db[s].value)
      BY <1>1, <3>1, <3>2 DEF _register_schedule, CronTyped
    <3> QED
      BY <1>2, <2>2, <3>1, <3>3
  <2> QED
    BY <2>1, <2>2
<1>4. CronTyped'
  <2>1. next_check' \in Nat
    BY SMT, <1>1, <1>2
  <2>2. jobs' \in [Schedules -> Accepted \cup {NoJob}]
    BY <1>1, <1>3
  <2> QED
    BY <1>1, <2>1, <2>2 DEF CronTyped
<1>5. Timely'
  <2>1. copied' = NothingCopied'
    BY <1>1 DEF CronInv, Timely, NothingCopied
  <2>2. ASSUME NEW s \in Schedules
        PROVE  /\ spawned'[s].times <= 1 /\ 2 * spawned'[s].minute <= now'
               /\ 2 * spawned'[s].minute + 2 <= next_check'
    <3>1. /\ spawned[s].minute \in Int /\ spawned[s].times <= 1
          /\ 2 * spawned[s].minute <= now
      BY <1>1 DEF CronInv, Timely, CronTyped
    <3> QED
      BY SMT, <1>1, <1>2, <3>1
  <2> QED
    BY <2>1, <2>2 DEF Timely
<1>6. ASSUME NEW s \in Schedules
      PROVE  ScheduleInv(s)'
  <2>1. ScheduleInv(s) /\ (Stored(s)' <=> Stored(s))
    BY <1>1 DEF CronInv, Stored
  <2>2. InStep(s)'
    BY <1>1, <1>3, <2>1 DEF InStep, Accepts
  <2>3. s \notin torn' => op[s].at \notin {"commit", "trust"}
    BY <1>1
  <2>4. OperationFits(s)'
    BY <1>1, <2>1 DEF ScheduleInv, OperationFits
  <2>5. s \notin torn' => JobFits(s)'
    BY <1>1, <2>2, <2>3 DEF JobFits
  <2> QED
    BY <1>1, <2>1, <2>4, <2>5 DEF ScheduleInv
<1> QED
  BY <1>1, <1>4, <1>5, <1>6 DEF CronInv

LEMMA StopStep ==
  ASSUME CronInv, Stop
  PROVE  CronInv'
<1>1. /\ cron_up' = FALSE /\ jobs' = [s \in Schedules |-> NoJob]
      /\ copied' = NothingCopied /\ threads' = {} /\ CronTyped
      /\ UNCHANGED <<now, db, trusts, op, next_check, execution, spawned, torn, untrusted>>
  BY DEF Stop, CronInv
<1>2. CronTyped'
  BY <1>1 DEF CronTyped
<1>3. Timely'
  BY <1>1 DEF CronInv, Timely, NothingCopied
<1>4. ASSUME NEW s \in Schedules
      PROVE  ScheduleInv(s)'
  <2>1. ScheduleInv(s) /\ (Stored(s)' <=> Stored(s))
    BY <1>1 DEF CronInv, Stored
  <2>2. OperationFits(s)'
    BY <1>1, <2>1 DEF ScheduleInv, OperationFits
  <2> QED
    BY <1>1, <2>1, <2>2 DEF ScheduleInv
<1> QED
  BY <1>1, <1>2, <1>3, <1>4 DEF CronInv

LEMMA CopyJobsStep ==
  ASSUME CronInv, CopyJobs
  PROVE  CronInv'
<1>1. /\ cron_up /\ now >= next_check /\ copied' = [jobs |-> jobs, at |-> now]
      /\ CronTyped
      /\ UNCHANGED <<now, db, trusts, op, cron_up, jobs, next_check, threads,
                     execution, spawned, torn, untrusted>>
  BY DEF CopyJobs, CronInv
<1>2. CronTyped'
  BY <1>1 DEF CronTyped
<1>3. now \in Nat /\ next_check \in Nat
  BY <1>1 DEF CronTyped
<1>4. Timely'
  BY SMT, <1>1, <1>3 DEF CronInv, Timely
<1>5. ASSUME NEW t \in Schedules
      PROVE  ScheduleInv(t)'
  <2>1. now' \in Nat /\ now <= now' /\ ScheduleInv(t)
    BY SMT, <1>1, <1>3 DEF CronInv
  <2> QED
    BY <1>1, <2>1, ScheduleKept
<1> QED
  BY <1>1, <1>2, <1>4, <1>5 DEF CronInv

\* The minute of a check is later than those of the checks before it.
LEMMA CheckJobsStep ==
  ASSUME CronInv, _check_jobs
  PROVE  CronInv'
<1>1. PICK due, m :
        /\ due \subseteq Schedules /\ m = Minute(copied.at)
        /\ threads' = threads \cup due
        /\ spawned' = [s \in Schedules |->
                         IF s \notin due THEN spawned[s]
                         ELSE [minute |-> m,
                               times |-> IF spawned[s].minute = m
                                           THEN spawned[s].times + 1 ELSE 1]]
  BY DEF _check_jobs
<1>2. /\ copied # NothingCopied /\ copied' = NothingCopied /\ next_check' = now + 2
      /\ CronTyped
      /\ UNCHANGED <<now, db, trusts, op, cron_up, jobs, execution, torn, untrusted>>
  BY DEF _check_jobs, CronInv
<1>3. /\ now \in Nat /\ next_check \in Nat /\ copied.at \in Nat /\ copied.at <= now
      /\ next_check <= copied.at
  BY <1>2 DEF CronInv, Timely, CronTyped
<1>4. m \in Nat /\ 2 * m <= copied.at /\ copied.at < 2 * m + 2
  BY SMT, <1>1, <1>3 DEF Minute
<1>5. ASSUME NEW s \in Schedules
      PROVE  /\ spawned'[s] \in [minute : Int, times : Nat]
             /\ spawned'[s].times <= 1 /\ 2 * spawned'[s].minute <= now'
             /\ 2 * spawned'[s].minute + 2 <= next_check'
  <2>1. /\ spawned[s] \in [minute : Int, times : Nat] /\ spawned[s].times <= 1
        /\ 2 * spawned[s].minute <= now /\ 2 * spawned[s].minute + 2 <= next_check
    BY <1>2 DEF CronInv, Timely, CronTyped
  <2>2. spawned[s].minute # m
    BY SMT, <1>3, <1>4, <2>1
  <2>3. CASE s \in due
    <3>1. spawned'[s] = [minute |-> m, times |-> 1]
      BY <1>1, <2>2, <2>3
    <3> QED
      BY SMT, <1>2, <1>3, <1>4, <3>1
  <2>4. CASE s \notin due
    <3>1. spawned'[s] = spawned[s]
      BY <1>1, <2>4
    <3> QED
      BY SMT, <1>2, <1>3, <2>1, <3>1
  <2> QED
    BY <2>3, <2>4
<1>6. CronTyped'
  <2>1. next_check' \in Nat /\ threads' \subseteq Schedules
    BY SMT, <1>1, <1>2, <1>3 DEF CronTyped
  <2>2. spawned' \in [Schedules -> [minute : Int, times : Nat]]
    BY <1>1, <1>5
  <2> QED
    BY <1>2, <2>1, <2>2 DEF CronTyped
<1>7. Timely'
  BY <1>2, <1>5 DEF Timely, NothingCopied
<1>8. ASSUME NEW t \in Schedules
      PROVE  ScheduleInv(t)'
  <2>1. now' \in Nat /\ now <= now' /\ ScheduleInv(t)
    BY SMT, <1>2, <1>3 DEF CronInv
  <2> QED
    BY <1>2, <2>1, ScheduleKept
<1> QED
  BY <1>2, <1>6, <1>7, <1>8 DEF CronInv

LEMMA JanitorStep ==
  ASSUME CronInv, _janitor
  PROVE  CronInv'
<1>1. /\ cron_up /\ CronTyped
      /\ jobs' = [s \in Schedules |->
                    IF jobs[s] # NoJob /\ is_expired(jobs[s]) THEN NoJob ELSE jobs[s]]
      /\ UNCHANGED <<now, db, trusts, op, cron_up, next_check, copied, threads,
                     execution, spawned, torn, untrusted>>
  BY DEF _janitor, CronInv
<1>2. now \in Nat /\ \A s \in Schedules : jobs[s] \in Accepted \cup {NoJob}
  BY <1>1 DEF CronTyped
<1>3. ASSUME NEW s \in Schedules
      PROVE  jobs'[s] = jobs[s] \/ (jobs'[s] = NoJob /\ ~Accepts(jobs[s]))
  <2>1. CASE jobs[s] # NoJob /\ is_expired(jobs[s])
    <3>1. jobs[s].expires \in Int /\ jobs[s].expires # Never /\ jobs[s].expires < now
      BY <1>2, <2>1, AcceptedFacts DEF is_expired
    <3>2. ~Accepts(jobs[s])
      BY SMT, <1>2, <3>1 DEF Accepts
    <3> QED
      BY <1>1, <2>1, <3>2
  <2>2. CASE ~(jobs[s] # NoJob /\ is_expired(jobs[s]))
    BY <1>1, <2>2
  <2> QED
    BY <2>1, <2>2
<1>4. CronTyped'
  <2>1. jobs' \in [Schedules -> Accepted \cup {NoJob}]
    BY <1>1, <1>2
  <2> QED
    BY <1>1, <2>1 DEF CronTyped
<1>5. Timely'
  BY <1>1 DEF CronInv, Timely, NothingCopied
<1>6. ASSUME NEW t \in Schedules
      PROVE  ScheduleInv(t)'
  <2>1. now' \in Nat /\ now <= now' /\ ScheduleInv(t)
    BY SMT, <1>1, <1>2 DEF CronInv
  <2> QED
    BY <1>1, <1>3, <2>1, ScheduleKept
<1> QED
  BY <1>1, <1>4, <1>5, <1>6 DEF CronInv

LEMMA InitCronInv == CronInit => CronInv
<1> SUFFICES ASSUME CronInit PROVE CronInv
  OBVIOUS
<1>1. CronTyped
  BY SMT, CronAssumption DEF CronInit, CronTyped, NoJob, Never
<1>2. Timely
  BY SMT DEF CronInit, Timely, Never
<1>3. ASSUME NEW s \in Schedules
      PROVE  ScheduleInv(s)
  <2>1. op[s].at = "none" /\ op[s].do = "none" /\ ~Stored(s) /\ jobs[s] = NoJob
    BY DEF CronInit, Idle, Stored
  <2> QED
    BY <2>1 DEF ScheduleInv, OperationFits, JobFits, InStep
<1> QED
  BY <1>1, <1>2, <1>3 DEF CronInv, CronInit

LEMMA NextCronInv == CronInv /\ [CronNext]_cronVars => CronInv'
<1> SUFFICES ASSUME CronInv, [CronNext]_cronVars PROVE CronInv'
  OBVIOUS
<1>1. CASE ScheduleNext
  <2>1. PICK s \in Schedules :
          \/ \E value \in ScheduleValues : create_transfer_schedule(s, value)
                                           \/ update_transfer_schedule(s, value)
          \/ delete_transfer_schedule(s)
          \/ register(s) \/ LookUp(s) \/ unregister(s) \/ DeleteTrust(s) \/ Commit(s)
          \/ Fails(s) \/ TimesOut(s) \/ _trigger_transfer(s)
    BY <1>1 DEF ScheduleNext
  <2> QED
    BY <2>1, CreateStep, ScheduleUpdateStep, DeleteStep, RegisterStep, LookUpStep, UnregisterStep,
       DeleteTrustStep, CommitStep, FailedStep, TimesOutStep, TriggerStep
<1>2. CASE UNCHANGED cronVars
  <2>1. ASSUME NEW t \in Schedules
        PROVE  ScheduleInv(t)'
    <3>1. now \in Nat /\ now' = now /\ ScheduleInv(t) /\ CronTyped
      BY <1>2 DEF CronInv, CronTyped, cronVars
    <3>2. now' \in Nat /\ now <= now'
      BY SMT, <3>1
    <3> QED
      BY <1>2, <3>1, <3>2, ScheduleKept DEF cronVars
  <2>2. CronTyped' /\ Timely'
    BY <1>2 DEF CronInv, CronTyped, Timely, NothingCopied, cronVars
  <2> QED
    BY <1>2, <2>1, <2>2 DEF CronInv, cronVars
<1> QED
  BY <1>1, <1>2, InitCronStep, StopStep, CopyJobsStep, CheckJobsStep, JanitorStep, EndsStep,
     TickStep DEF CronNext

\* What the invariant says of the service.
LEMMA SchedulesFollowed ==
  ASSUME CronInv
  PROVE  CronTypeOK /\ OncePerMinute /\ JobsInStep /\ ScheduleHasTrust
<1>1. CronTyped /\ \A s \in Schedules : ScheduleInv(s)
  BY DEF CronInv
<1>2. CronTypeOK
  <2>1. now \in 0..MaxNow
    BY SMT, <1>1, CronAssumption DEF CronTyped
  <2>2. ASSUME NEW s \in Schedules
        PROVE  /\ db[s].value \in ScheduleValues \/ ~Stored(s)
               /\ jobs[s] \in ScheduleValues \/ jobs[s] = NoJob
    <3>1. jobs[s] \in Accepted \cup {NoJob}
      BY <1>1 DEF CronTyped
    <3> QED
      BY <1>1, <3>1, StoredFacts DEF Accepted
  <2> QED
    BY <1>1, <2>1, <2>2 DEF CronTypeOK, CronTyped
<1>3. OncePerMinute
  BY DEF CronInv, Timely, OncePerMinute
<1>4. ASSUME NEW s \in Schedules, op[s] = Idle
      PROVE  op[s].at = "none" /\ op[s].do = "none"
  BY SMT, <1>4 DEF Idle
<1>5. JobsInStep
  BY <1>1, <1>4 DEF JobsInStep, ScheduleInv, JobFits, InStep
<1>6. ScheduleHasTrust
  BY <1>1, <1>4 DEF ScheduleHasTrust, ScheduleInv
<1> QED
  BY <1>2, <1>3, <1>5, <1>6

-----------------------------------------------------------------------------
(***************************************************************************)
(* The progress of tasks                                                   *)
(*                                                                         *)
(* Every percentage step of a task has a row of its own, whatever order    *)
(* the conductor handles requests in.  The invariant has to know that the  *)
(* index which a handler has read is larger than those of all rows until   *)
(* it has added its own, which is what the lock on the task is for, and    *)
(* that a step is asked for once: its request, its handler and its row     *)
(* exclude each other.  For the same reason a row which was read to be     *)
(* updated is still the same when it is.                                   *)
(***************************************************************************)

Things == Steps \cup Messages

Adds(x) == {request \in sent : request.op = "add" /\ request.of = x}
Handles(x) == {h \in handling : h.of = x}
Rows(x) == {r \in rows : r.of = x}

RowsType ==
  /\ rows \subseteq [index : Nat, of : Things, step : Values \cup {0}]
  /\ handling \subseteq [of : Things, call : BOOLEAN, index : Nat]
  /\ sent \subseteq [op : {"add", "update"}, of : Things, id : Int,
                     step : Values \cup {0}, call : BOOLEAN]
  /\ perc_steps = [s \in Steps |-> [id |-> perc_steps[s].id,
                                    last_perc |-> perc_steps[s].last_perc]]
  /\ \A s \in Steps : perc_steps[s].id \in Int

\* Indices are unique, and the next one is read by one handler at a time.
IndicesInOrder ==
  /\ \A h, g \in handling : h = g
  /\ \A r, q \in rows : r.index = q.index => r = q
  /\ rows = {} \/ \E top \in rows : \A r \in rows : r.index <= top.index
  /\ \A h \in handling, r \in rows : r.index < h.index

\* A step is asked for once.
AskedOnce ==
  \A s \in Steps :
    /\ \A x, y \in Adds(s) : x = y
    /\ \A r, q \in Rows(s) : r = q
    /\ Adds(s) # {} => Handles(s) = {} /\ Rows(s) = {}
    /\ Handles(s) # {} => Rows(s) = {}
    /\ (process \notin {s, "failed", "over"} /\ perc_steps[s] = NoStep) =>
         Adds(s) = {} /\ Handles(s) = {} /\ Rows(s) = {}

\* A step which has an identifier has a row with it.
Identified ==
  \A s \in Steps : perc_steps[s] # NoStep =>
    /\ perc_steps[s].id \in Nat
    /\ \E r \in Rows(s) : r.index = perc_steps[s].id

RowsInv == RowsType /\ IndicesInOrder /\ AskedOnce /\ Identified

\* The lock has one holder, and the row which it has read is the one of its request.
RowIsCurrent ==
  /\ updating # {} => handling = {}
  /\ \A u, v \in updating : u = v
  /\ \A u \in updating : /\ u.request \in sent /\ u.request.op = "update"
                         /\ u.row \in rows /\ u.row.index = u.request.id

\* The steps, the messages and the states of the process have different names.
Distinct ==
  /\ Steps \cap Messages = {}
  /\ Things \cap {"runs", "failed", "over"} = {}

-----------------------------------------------------------------------------
\* The row of a step is the one with its identifier.
LEMMA InvImpliesRows ==
  ASSUME RowsInv
  PROVE  StepsHaveTheirRows
<1> SUFFICES ASSUME NEW s \in Steps, perc_steps[s] # NoStep
             PROVE  {r \in rows : r.index = perc_steps[s].id} = {r \in rows : r.of = s}
  BY DEF StepsHaveTheirRows
<1>1. PICK row \in Rows(s) : row.index = perc_steps[s].id
  BY DEF RowsInv, Identified
<1>2. \A q \in rows : q.of = s => q = row
  BY <1>1 DEF RowsInv, AskedOnce, Rows
<1>3. \A q \in rows : q.index = row.index => q = row
  BY <1>1 DEF RowsInv, IndicesInOrder, Rows
<1> QED
  BY <1>1, <1>2, <1>3 DEF Rows

\* The index which a handler reads is larger than every other.
LEMMA NextIndexIsNew ==
  ASSUME RowsInv
  PROVE  NextIndex \in Nat /\ \A r \in rows : r.index < NextIndex
<1>1. CASE rows = {}
  BY <1>1 DEF NextIndex
<1>2. CASE rows # {}
  <2>1. PICK top \in rows : \A r \in rows : r.index <= top.index
    BY <1>2 DEF RowsInv, IndicesInOrder
  <2>2. \A r \in rows : r.index \in Nat
    BY DEF RowsInv, RowsType
  <2> DEFINE last == CHOOSE i \in {row.index : row \in rows} :
                       \A row \in rows : row.index <= i
  <2>3. last \in {row.index : row \in rows} /\ \A row \in rows : row.index <= last
    BY <2>1
  <2>4. NextIndex = 1 + last
    BY <1>2 DEF NextIndex
  <2> HIDE DEF last
  <2> QED
    BY SMT, <2>2, <2>3, <2>4
<1> QED
  BY <1>1, <1>2

-----------------------------------------------------------------------------
(* The process.                                                            *)

\* A step is asked for when nothing of it is there.
LEMMA AddStep ==
  ASSUME Distinct, RowsInv, NEW s \in Steps, add_percentage_step(s)
  PROVE  RowsInv'
<1>1. /\ process = "runs" /\ process' = s /\ perc_steps[s] = NoStep
      /\ sent' = sent \cup {AddRequest(s, TRUE)}
      /\ UNCHANGED <<rows, handling, perc_steps>>
  BY DEF add_percentage_step, conductor
<1>2. AddRequest(s, TRUE) \in [op : {"add", "update"}, of : Things, id : Int,
                               step : Values \cup {0}, call : BOOLEAN]
  BY SMT DEF AddRequest, Things
<1>3. RowsType' /\ IndicesInOrder' /\ Identified'
  BY <1>1, <1>2 DEF RowsInv, RowsType, IndicesInOrder, Identified, Rows
<1>4. process \notin {s, "failed", "over"}
  BY <1>1 DEF Distinct, Things
<1>5. Adds(s) = {} /\ Handles(s) = {} /\ Rows(s) = {}
  BY <1>1, <1>4 DEF RowsInv, AskedOnce
<1>6. Adds(s)' = {AddRequest(s, TRUE)} /\ \A x \in Steps : x # s => Adds(x)' = Adds(x)
  BY SMT, <1>1, <1>5 DEF Adds, AddRequest
<1>7. \A x \in Steps : Handles(x)' = Handles(x) /\ Rows(x)' = Rows(x)
  BY <1>1 DEF Handles, Rows
<1>8. \A x \in Steps : x # s => process \notin {x, "failed", "over"}
  BY <1>1 DEF Distinct, Things
<1>9. AskedOnce'
  <2> SUFFICES ASSUME NEW x \in Steps
               PROVE  (/\ \A y, z \in Adds(x) : y = z
                       /\ \A r, q \in Rows(x) : r = q
                       /\ Adds(x) # {} => Handles(x) = {} /\ Rows(x) = {}
                       /\ Handles(x) # {} => Rows(x) = {}
                       /\ (process \notin {x, "failed", "over"} /\ perc_steps[x] = NoStep)
                            => Adds(x) = {} /\ Handles(x) = {} /\ Rows(x) = {})'
    BY DEF AskedOnce
  <2>1. CASE x = s
    BY <1>1, <1>5, <1>6, <1>7, <2>1
  <2>2. CASE x # s
    <3>1. Adds(x)' = Adds(x) /\ Handles(x)' = Handles(x) /\ Rows(x)' = Rows(x)
      BY <1>6, <1>7, <2>2
    <3> QED
      BY <1>1, <1>8, <2>2, <3>1 DEF RowsInv, AskedOnce
  <2> QED
    BY <2>1, <2>2
<1> QED
  BY <1>3, <1>9 DEF RowsInv

\* The conductor has answered, and the step has the index of its row.
LEMMA AddReturnsStep ==
  ASSUME Distinct, RowsInv, NEW s \in Steps, AddReturns(s)
  PROVE  RowsInv'
<1>1. /\ process = s /\ process' = "runs"
      /\ UNCHANGED <<rows, handling, sent>>
  BY DEF AddReturns, conductor
<1>2. PICK row \in rows :
        /\ row.of = s
        /\ perc_steps' = [perc_steps EXCEPT ![s] = [id |-> row.index, last_perc |-> 0]]
  BY DEF AddReturns
<1>3. row.index \in Nat
  BY DEF RowsInv, RowsType
<1>4. /\ perc_steps'[s] = [id |-> row.index, last_perc |-> 0]
      /\ \A x \in Steps : x # s => perc_steps'[x] = perc_steps[x]
      /\ perc_steps' = [x \in Steps |-> perc_steps'[x]]
  BY <1>2 DEF RowsInv, RowsType
<1>5. RowsType'
  <2>1. \A x \in Steps : /\ perc_steps'[x] = [id |-> perc_steps'[x].id,
                                               last_perc |-> perc_steps'[x].last_perc]
                         /\ perc_steps'[x].id \in Int
    BY SMT, <1>3, <1>4 DEF RowsInv, RowsType
  <2> QED
    BY <1>1, <1>4, <2>1 DEF RowsInv, RowsType
<1>6. \A x \in Steps : /\ Adds(x)' = Adds(x) /\ Handles(x)' = Handles(x)
                       /\ Rows(x)' = Rows(x)
  BY <1>1 DEF Adds, Handles, Rows
<1>7. perc_steps'[s] # NoStep
  BY SMT, <1>3, <1>4 DEF NoStep
<1>8. \A x \in Steps : x # s => process \notin {x, "failed", "over"}
  BY <1>1 DEF Distinct, Things
<1>9. AskedOnce'
  BY SMT, <1>4, <1>6, <1>7, <1>8 DEF RowsInv, AskedOnce, NoStep
<1>10. Identified'
  BY <1>1, <1>2, <1>3, <1>4, <1>6 DEF RowsInv, Identified, Rows, NoStep
<1> QED
  BY <1>1, <1>5, <1>9, <1>10 DEF RowsInv, IndicesInOrder

\* A message is asked for, which is no step.
LEMMA MessageStep ==
  ASSUME Distinct, RowsInv, NEW m \in Messages, progress_update(m)
  PROVE  RowsInv'
<1>1. /\ sent' = sent \cup {AddRequest(m, FALSE)}
      /\ UNCHANGED <<rows, handling, perc_steps, process>>
  BY DEF progress_update, conductor
<1>2. AddRequest(m, FALSE) \in [op : {"add", "update"}, of : Things, id : Int,
                                step : Values \cup {0}, call : BOOLEAN]
  BY SMT DEF AddRequest, Things
<1>3. RowsType' /\ IndicesInOrder' /\ Identified'
  BY <1>1, <1>2 DEF RowsInv, RowsType, IndicesInOrder, Identified, Rows
<1>4. \A x \in Steps : x # m
  BY DEF Distinct
<1>5. \A x \in Steps : /\ Adds(x)' = Adds(x) /\ Handles(x)' = Handles(x)
                       /\ Rows(x)' = Rows(x)
  BY SMT, <1>1, <1>4 DEF Adds, Handles, Rows, AddRequest
<1> QED
  BY <1>1, <1>3, <1>5 DEF RowsInv, AskedOnce

\* What the last value which was told of a step changes: not its identifier.
LEMMA LastPercStep ==
  ASSUME RowsInv, NEW s \in Steps, perc_steps[s] # NoStep, NEW perc,
         perc_steps' = [perc_steps EXCEPT ![s].last_perc = perc]
  PROVE  /\ perc_steps' = [x \in Steps |-> [id |-> perc_steps'[x].id,
                                            last_perc |-> perc_steps'[x].last_perc]]
         /\ \A x \in Steps : /\ perc_steps'[x].id = perc_steps[x].id
                             /\ perc_steps'[x] = NoStep <=> perc_steps[x] = NoStep
                             /\ x # s => perc_steps'[x] = perc_steps[x]
         /\ perc_steps'[s].last_perc = perc
<1>1. perc_steps[s].id \in Nat
  BY DEF RowsInv, Identified
<1>2. \A x \in Steps : perc_steps[x] = [id |-> perc_steps[x].id,
                                         last_perc |-> perc_steps[x].last_perc]
  BY DEF RowsInv, RowsType
<1>3. DOMAIN perc_steps = Steps
  BY DEF RowsInv, RowsType
<1>4. perc_steps'[s] = [id |-> perc_steps[s].id, last_perc |-> perc]
  BY SMT, <1>2, <1>3
<1>5. \A x \in Steps : x # s => perc_steps'[x] = perc_steps[x]
  BY <1>3
<1>6. perc_steps' = [x \in Steps |-> perc_steps'[x]]
  BY <1>3
<1>7. perc_steps'[s] # NoStep
  BY SMT, <1>1, <1>4 DEF NoStep
<1> QED
  BY <1>2, <1>4, <1>5, <1>6, <1>7

\* A value is told, and may be waited for.
LEMMA SetStep ==
  ASSUME Distinct, RowsInv, NEW s \in Steps, NEW value \in Values,
         set_percentage_step(s, value)
  PROVE  RowsInv'
<1>1. /\ process = "runs" /\ perc_steps[s] # NoStep
      /\ UNCHANGED <<rows, handling>>
      /\ process' \in {"runs", s}
  BY DEF set_percentage_step, conductor
<1>2. /\ perc_steps' = [x \in Steps |-> [id |-> perc_steps'[x].id,
                                         last_perc |-> perc_steps'[x].last_perc]]
      /\ \A x \in Steps : /\ perc_steps'[x].id = perc_steps[x].id
                          /\ perc_steps'[x] = NoStep <=> perc_steps[x] = NoStep
  <2>1. CASE UNCHANGED perc_steps
    BY <2>1 DEF RowsInv, RowsType
  <2>2. CASE perc_steps' = [perc_steps EXCEPT ![s].last_perc = Perc(s, value)]
    BY <1>1, <2>2, LastPercStep
  <2> QED
    BY <2>1, <2>2 DEF set_percentage_step
<1>3. \/ sent' = sent
      \/ sent' = sent \cup {UpdateRequest(s, value, IsFinal(s, value))}
  BY DEF set_percentage_step
<1>4. UpdateRequest(s, value, IsFinal(s, value)) \in
        [op : {"add", "update"}, of : Things, id : Int, step : Values \cup {0},
         call : BOOLEAN]
  <2>1. perc_steps[s].id \in Int /\ s \in Things /\ value \in Values \cup {0}
    BY DEF RowsInv, RowsType, Things
  <2>2. IsFinal(s, value) \in BOOLEAN
    BY DEF IsFinal
  <2> QED
    BY <2>1, <2>2 DEF UpdateRequest
<1>5. RowsType'
  BY <1>1, <1>2, <1>3, <1>4 DEF RowsInv, RowsType
<1>6. \A x \in Steps : /\ Adds(x)' = Adds(x) /\ Handles(x)' = Handles(x)
                       /\ Rows(x)' = Rows(x)
  BY SMT, <1>1, <1>3 DEF Adds, Handles, Rows, UpdateRequest
<1>7. \A x \in Steps : process \notin {x, "failed", "over"}
  BY <1>1 DEF Distinct, Things
<1>8. AskedOnce'
  BY SMT, <1>2, <1>6, <1>7 DEF RowsInv, AskedOnce, NoStep
<1>9. Identified'
  BY <1>2, <1>6 DEF RowsInv, Identified, NoStep
<1> QED
  BY <1>1, <1>5, <1>8, <1>9 DEF RowsInv, IndicesInOrder

\* The last value has been waited for.
LEMMA UpdateReturnsStep ==
  ASSUME Distinct, RowsInv, NEW s \in Steps, UpdateReturns(s)
  PROVE  RowsInv'
<1>1. /\ process = s /\ process' = "runs" /\ perc_steps[s] # NoStep
      /\ UNCHANGED <<rows, handling, sent>>
      /\ perc_steps' = [perc_steps EXCEPT ![s].last_perc = Perc(s, told[s])]
  BY DEF UpdateReturns, conductor
<1>2. /\ perc_steps' = [x \in Steps |-> [id |-> perc_steps'[x].id,
                                         last_perc |-> perc_steps'[x].last_perc]]
      /\ \A x \in Steps : /\ perc_steps'[x].id = perc_steps[x].id
                          /\ perc_steps'[x] = NoStep <=> perc_steps[x] = NoStep
  BY <1>1, LastPercStep
<1>3. RowsType'
  BY <1>1, <1>2 DEF RowsInv, RowsType
<1>4. \A x \in Steps : /\ Adds(x)' = Adds(x) /\ Handles(x)' = Handles(x)
                       /\ Rows(x)' = Rows(x)
  BY <1>1 DEF Adds, Handles, Rows
<1>5. \A x \in Steps : x # s => process \notin {x, "failed", "over"}
  BY <1>1 DEF Distinct, Things
<1>6. AskedOnce'
  BY SMT, <1>1, <1>2, <1>4, <1>5 DEF RowsInv, AskedOnce, NoStep
<1>7. Identified'
  BY <1>2, <1>4 DEF RowsInv, Identified, NoStep
<1> QED
  BY <1>1, <1>3, <1>6, <1>7 DEF RowsInv, IndicesInOrder

\* The process fails or ends, or its task is not active any more.
LEMMA EndSteps ==
  ASSUME Distinct, RowsInv, CallTimesOut \/ FailsToCancel \/ TaskEnds
  PROVE  RowsInv'
<1>1. /\ UNCHANGED <<rows, handling, sent, perc_steps>>
      /\ process' \in {process, "failed", "over"}
  BY DEF CallTimesOut, FailsToCancel, TaskEnds, conductor
<1>2. \A x \in Steps : /\ Adds(x)' = Adds(x) /\ Handles(x)' = Handles(x)
                       /\ Rows(x)' = Rows(x)
  BY <1>1 DEF Adds, Handles, Rows
<1> QED
  BY SMT, <1>1, <1>2 DEF RowsInv, RowsType, IndicesInOrder, AskedOnce, Identified, NoStep

-----------------------------------------------------------------------------
(* The conductor.                                                          *)

\* The handler of a request has the lock, and has read the next index.
LEMMA HandlerStep ==
  ASSUME Distinct, RowsInv, NEW request \in sent, add_task_progress_update(request)
  PROVE  RowsInv'
<1> DEFINE new == [of |-> request.of, call |-> request.call, index |-> NextIndex]
<1>1. /\ request.op = "add" /\ handling = {} /\ handling' = {new}
      /\ sent' = sent \ {request}
      /\ UNCHANGED <<rows, perc_steps, process>>
  BY DEF add_task_progress_update, Unlocked
<1>2. request.of \in Things /\ request.call \in BOOLEAN
  BY DEF RowsInv, RowsType
<1>3. NextIndex \in Nat /\ \A r \in rows : r.index < NextIndex
  BY NextIndexIsNew
<1>4. RowsType'
  BY SMT, <1>1, <1>2, <1>3 DEF RowsInv, RowsType
<1>5. IndicesInOrder'
  <2>1. \A h \in handling' : h = new
    BY <1>1
  <2>2. \A h \in handling' : h.index = NextIndex
    BY SMT, <2>1
  <2>3. \A h \in handling', r \in rows' : r.index < h.index
    BY <1>1, <1>3, <2>2
  <2>4. \A h, g \in handling' : h = g
    BY <2>1
  <2> QED
    BY <1>1, <2>3, <2>4 DEF RowsInv, IndicesInOrder
<1>6. \A x \in Steps : /\ Rows(x)' = Rows(x)
                       /\ Adds(x)' = Adds(x) \ {request}
                       /\ Handles(x)' = IF x = request.of THEN {new} ELSE {}
  BY SMT, <1>1 DEF Rows, Adds, Handles
<1>7. \A x \in Steps : x = request.of => request \in Adds(x)
  BY <1>1 DEF Adds
<1>8. AskedOnce'
  <2> SUFFICES ASSUME NEW x \in Steps
               PROVE  (/\ \A y, z \in Adds(x) : y = z
                       /\ \A r, q \in Rows(x) : r = q
                       /\ Adds(x) # {} => Handles(x) = {} /\ Rows(x) = {}
                       /\ Handles(x) # {} => Rows(x) = {}
                       /\ (process \notin {x, "failed", "over"} /\ perc_steps[x] = NoStep)
                            => Adds(x) = {} /\ Handles(x) = {} /\ Rows(x) = {})'
    BY DEF AskedOnce
  <2>1. CASE x = request.of
    <3>1. request \in Adds(x) /\ \A y \in Adds(x) : y = request
      BY <1>7, <2>1 DEF RowsInv, AskedOnce
    <3>2. Rows(x) = {} /\ Adds(x)' = {} /\ Rows(x)' = {}
      BY <1>6, <3>1 DEF RowsInv, AskedOnce
    <3>3. ~(process \notin {x, "failed", "over"} /\ perc_steps[x] = NoStep)
      BY <3>1 DEF RowsInv, AskedOnce
    <3> QED
      BY <1>1, <3>2, <3>3
  <2>2. CASE x # request.of
    <3>1. Handles(x)' = {} /\ Rows(x)' = Rows(x) /\ Adds(x)' \subseteq Adds(x)
      BY <1>6, <2>2
    <3> QED
      BY SMT, <1>1, <3>1 DEF RowsInv, AskedOnce
  <2> QED
    BY <2>1, <2>2
<1>9. Identified'
  BY <1>1, <1>6 DEF RowsInv, Identified
<1> QED
  BY <1>4, <1>5, <1>8, <1>9 DEF RowsInv

\* The row is added with the index which was read, which is still the next.
LEMMA InsertStep ==
  ASSUME Distinct, RowsInv, NEW h \in handling, InsertRow(h)
  PROVE  RowsInv'
<1> DEFINE new == [index |-> h.index, of |-> h.of, step |-> 0]
<1>1. /\ rows' = rows \cup {new} /\ handling' = handling \ {h}
      /\ UNCHANGED <<sent, perc_steps, process>>
  BY DEF InsertRow
<1>2. h.index \in Nat /\ h.of \in Things
  BY DEF RowsInv, RowsType
<1>3. handling' = {}
  BY <1>1 DEF RowsInv, IndicesInOrder
<1>4. \A r \in rows : r.index < h.index /\ r.index \in Nat
  BY DEF RowsInv, RowsType, IndicesInOrder
<1>5. RowsType'
  BY SMT, <1>1, <1>2 DEF RowsInv, RowsType
<1>6. IndicesInOrder'
  <2>1. \A r, q \in rows' : r.index = q.index => r = q
    <3>1. \A r, q \in rows : r.index = q.index => r = q
      BY DEF RowsInv, IndicesInOrder
    <3>2. new.index = h.index /\ \A r \in rows : r.index # h.index
      BY SMT, <1>2, <1>4
    <3> QED
      BY <1>1, <3>1, <3>2
  <2>2. new \in rows' /\ \A r \in rows' : r.index <= new.index
    BY SMT, <1>1, <1>2, <1>4
  <2> QED
    BY <1>3, <2>1, <2>2 DEF IndicesInOrder
<1>7. \A x \in Steps : /\ Adds(x)' = Adds(x) /\ Handles(x)' = {}
                       /\ Rows(x)' = IF x = h.of THEN Rows(x) \cup {new} ELSE Rows(x)
  BY SMT, <1>1, <1>3 DEF Adds, Handles, Rows
<1>8. \A x \in Steps : x = h.of => h \in Handles(x)
  BY DEF Handles
<1>9. AskedOnce'
  <2> SUFFICES ASSUME NEW x \in Steps
               PROVE  (/\ \A y, z \in Adds(x) : y = z
                       /\ \A r, q \in Rows(x) : r = q
                       /\ Adds(x) # {} => Handles(x) = {} /\ Rows(x) = {}
                       /\ Handles(x) # {} => Rows(x) = {}
                       /\ (process \notin {x, "failed", "over"} /\ perc_steps[x] = NoStep)
                            => Adds(x) = {} /\ Handles(x) = {} /\ Rows(x) = {})'
    BY DEF AskedOnce
  <2>1. CASE x = h.of
    <3>1. Adds(x) = {} /\ Rows(x) = {}
      BY <1>8, <2>1 DEF RowsInv, AskedOnce
    <3>2. ~(process \notin {x, "failed", "over"} /\ perc_steps[x] = NoStep)
      BY <1>8, <2>1 DEF RowsInv, AskedOnce
    <3>3. Adds(x)' = {} /\ Handles(x)' = {} /\ Rows(x)' = {new}
      BY <1>7, <2>1, <3>1
    <3> QED
      BY <1>1, <3>2, <3>3
  <2>2. CASE x # h.of
    <3>1. Handles(x)' = {} /\ Rows(x)' = Rows(x) /\ Adds(x)' = Adds(x)
      BY <1>7, <2>2
    <3> QED
      BY <1>1, <3>1 DEF RowsInv, AskedOnce
  <2> QED
    BY <2>1, <2>2
<1>10. Identified'
  BY <1>1, <1>7 DEF RowsInv, Identified
<1> QED
  BY <1>5, <1>6, <1>9, <1>10 DEF RowsInv

\* A request is refused, and its process fails.
LEMMA RefuseStep ==
  ASSUME Distinct, RowsInv, NEW request \in sent, RefuseAdd(request)
  PROVE  RowsInv'
<1>1. /\ sent' = sent \ {request} /\ process' \in {process, "failed"}
      /\ UNCHANGED <<rows, handling, perc_steps>>
  BY DEF RefuseAdd, conductor
<1>2. \A x \in Steps : /\ Adds(x)' \subseteq Adds(x) /\ Handles(x)' = Handles(x)
                       /\ Rows(x)' = Rows(x)
  BY <1>1 DEF Adds, Handles, Rows
<1> QED
  BY SMT, <1>1, <1>2 DEF RowsInv, RowsType, IndicesInOrder, AskedOnce, Identified

\* What the update of a row comes to where the row is as it was read.
RowUpdated(request) ==
  /\ request.op = "update" /\ handling = {}
  /\ \E row \in rows :
       /\ row.index = request.id
       /\ rows' = IF IsBehind(request, row) THEN rows
                  ELSE (rows \ {row}) \cup {[row EXCEPT !.step = request.step]}
  /\ sent' = sent \ {request}
  /\ answers' = IF request.call THEN answers \cup {request.of} ELSE answers
  /\ UNCHANGED <<handling, process, total_steps, perc_steps, told, timeouts>>

LEMMA UpdateRowFacts ==
  ASSUME RowsInv, RowIsCurrent, NEW u \in updating, UpdateRow(u)
  PROVE  u.request \in sent /\ RowUpdated(u.request)
<1>1. /\ u.request \in sent /\ u.request.op = "update" /\ handling = {}
      /\ u.row \in rows /\ u.row.index = u.request.id
  BY DEF RowIsCurrent
<1>2. {row \in rows : row.index # u.row.index} = rows \ {u.row}
  BY <1>1 DEF RowsInv, IndicesInOrder
<1> QED
  BY <1>1, <1>2 DEF UpdateRow, RowUpdated

\* A row is updated, or is ahead of the request.
LEMMA UpdateStep ==
  ASSUME Distinct, RowsInv, NEW request \in sent, RowUpdated(request)
  PROVE  RowsInv'
<1>1. /\ request.op = "update" /\ handling = {} /\ sent' = sent \ {request}
      /\ UNCHANGED <<handling, perc_steps, process>>
  BY DEF RowUpdated
<1>2. PICK row \in rows :
        rows' = IF IsBehind(request, row) THEN rows
                ELSE (rows \ {row}) \cup {[row EXCEPT !.step = request.step]}
  BY DEF RowUpdated
<1>3. \A x \in Steps : Adds(x)' = Adds(x) /\ Handles(x)' = {} /\ Handles(x) = {}
  BY <1>1 DEF Adds, Handles
<1>4. CASE rows' = rows
  BY SMT, <1>1, <1>3, <1>4 DEF RowsInv, RowsType, IndicesInOrder, AskedOnce, Identified,
     Rows, NoStep
<1>5. CASE rows' = (rows \ {row}) \cup {[row EXCEPT !.step = request.step]}
  <2> DEFINE new == [row EXCEPT !.step = request.step]
  <2>1. /\ row \in [index : Nat, of : Things, step : Values \cup {0}]
        /\ request.step \in Values \cup {0}
    BY DEF RowsInv, RowsType
  <2>2. /\ new \in [index : Nat, of : Things, step : Values \cup {0}]
        /\ new.index = row.index /\ new.of = row.of
    BY <2>1
  <2> HIDE DEF new
  <2>3. rows' = (rows \ {row}) \cup {new}
    BY <1>5 DEF new
  <2>4. RowsType'
    BY <1>1, <2>2, <2>3 DEF RowsInv, RowsType
  <2>5. IndicesInOrder'
    <3>1. \A r, q \in rows' : r.index = q.index => r = q
      BY <2>2, <2>3 DEF RowsInv, IndicesInOrder
    <3>2. \E top \in rows' : \A r \in rows' : r.index <= top.index
      <4>1. PICK top \in rows : \A r \in rows : r.index <= top.index
        BY DEF RowsInv, IndicesInOrder
      <4>2. CASE top = row
        BY <2>2, <2>3, <4>1, <4>2
      <4>3. CASE top # row
        BY <2>2, <2>3, <4>1, <4>3
      <4> QED
        BY <4>2, <4>3
    <3> QED
      BY <1>1, <3>1, <3>2 DEF IndicesInOrder
  <2>6. \A x \in Steps : Rows(x)' = IF x = row.of THEN (Rows(x) \ {row}) \cup {new}
                                    ELSE Rows(x)
    BY <2>2, <2>3 DEF Rows
  <2>7. \A x \in Steps : x = row.of => row \in Rows(x)
    BY DEF Rows
  <2>8. AskedOnce'
    <3> SUFFICES ASSUME NEW x \in Steps
                 PROVE  (/\ \A y, z \in Adds(x) : y = z
                         /\ \A r, q \in Rows(x) : r = q
                         /\ Adds(x) # {} => Handles(x) = {} /\ Rows(x) = {}
                         /\ Handles(x) # {} => Rows(x) = {}
                         /\ (process \notin {x, "failed", "over"}
                               /\ perc_steps[x] = NoStep)
                              => Adds(x) = {} /\ Handles(x) = {} /\ Rows(x) = {})'
      BY DEF AskedOnce
    <3>1. CASE x = row.of
      <4>1. Rows(x)' = {new}
        BY SMT, <2>6, <2>7, <3>1 DEF RowsInv, AskedOnce
      <4>2. Adds(x) = {}
        BY <2>7, <3>1 DEF RowsInv, AskedOnce
      <4>3. ~(process \notin {x, "failed", "over"} /\ perc_steps[x] = NoStep)
        BY <2>7, <3>1 DEF RowsInv, AskedOnce
      <4> QED
        BY <1>1, <1>3, <4>1, <4>2, <4>3
    <3>2. CASE x # row.of
      <4>1. Rows(x)' = Rows(x)
        BY <2>6, <3>2
      <4> QED
        BY <1>1, <1>3, <4>1 DEF RowsInv, AskedOnce
    <3> QED
      BY <3>1, <3>2
  <2>9. Identified'
    <3> SUFFICES ASSUME NEW x \in Steps, perc_steps[x] # NoStep
                 PROVE  /\ perc_steps[x].id \in Nat
                        /\ \E r \in Rows(x)' : r.index = perc_steps[x].id
      BY <1>1 DEF Identified, NoStep
    <3>1. PICK r \in Rows(x) : r.index = perc_steps[x].id
      BY DEF RowsInv, Identified
    <3>2. CASE r = row
      BY <2>2, <2>6, <3>1, <3>2 DEF RowsInv, Identified, Rows
    <3>3. CASE r # row
      BY <2>6, <3>1, <3>3 DEF RowsInv, Identified
    <3> QED
      BY <3>2, <3>3
  <2> QED
    BY <2>4, <2>5, <2>8, <2>9 DEF RowsInv
<1> QED
  BY <1>2, <1>4, <1>5

-----------------------------------------------------------------------------
\* The invariant of the rows of a task holds in the beginning, and every step keeps it.
LEMMA InitRowsInv == ProgressInit => RowsInv
BY SMT DEF ProgressInit, RowsInv, RowsType, IndicesInOrder, AskedOnce, Identified, Adds,
   Handles, Rows, NoStep

LEMMA InitRowIsCurrent == ProgressInit => RowIsCurrent
BY DEF ProgressInit, RowIsCurrent

\* Nobody else changes the rows while the lock is held, and the request of an update is
\* there until it is handled to the end.
LEMMA NextRowIsCurrent ==
  ASSUME RowIsCurrent, [ProgressNext]_progressVars
  PROVE  RowIsCurrent'
<1>1. CASE UNCHANGED <<rows, handling, updating>> /\ sent \subseteq sent'
  BY <1>1 DEF RowIsCurrent
<1>2. CASE UNCHANGED progressVars
  BY <1>1, <1>2 DEF progressVars
<1>3. CASE \E s \in Steps : \/ add_percentage_step(s) \/ AddReturns(s) \/ UpdateReturns(s)
                           \/ \E value \in Values : set_percentage_step(s, value)
  BY <1>1, <1>3 DEF add_percentage_step, AddReturns, UpdateReturns, set_percentage_step,
     conductor
<1>4. CASE \/ \E m \in Messages : progress_update(m)
           \/ CallTimesOut \/ FailsToCancel \/ TaskEnds
  BY <1>1, <1>4 DEF progress_update, CallTimesOut, FailsToCancel, TaskEnds, conductor
<1>5. CASE \E request \in sent : add_task_progress_update(request) \/ RefuseAdd(request)
  <2>1. updating' = {}
    BY <1>5 DEF add_task_progress_update, RefuseAdd, Unlocked, conductor
  <2> QED
    BY <2>1 DEF RowIsCurrent
<1>6. ASSUME NEW request \in sent, update_task_progress_update(request)
      PROVE  RowIsCurrent'
  <2>1. PICK row \in rows : /\ row.index = request.id
                            /\ updating' = {[request |-> request, row |-> row]}
    BY <1>6 DEF update_task_progress_update
  <2>2. /\ request.op = "update" /\ handling = {}
        /\ UNCHANGED <<rows, handling, sent>>
    BY <1>6 DEF update_task_progress_update, Unlocked
  <2>3. \A u \in updating' : u.request = request /\ u.row = row
    BY SMT, <2>1
  <2> QED
    BY <2>1, <2>2, <2>3 DEF RowIsCurrent
<1>7. CASE \E h \in handling : InsertRow(h)
  <2>1. updating' = {}
    BY <1>7 DEF InsertRow, RowIsCurrent
  <2> QED
    BY <2>1 DEF RowIsCurrent
<1>8. CASE \E u \in updating : UpdateRow(u)
  <2>1. updating' = {}
    BY <1>8 DEF UpdateRow, RowIsCurrent
  <2> QED
    BY <2>1 DEF RowIsCurrent
<1> QED
  BY <1>2, <1>3, <1>4, <1>5, <1>6, <1>7, <1>8 DEF ProgressNext

LEMMA NextRowsInv ==
  ASSUME Distinct, RowsInv, RowIsCurrent, [ProgressNext]_progressVars
  PROVE  RowsInv'
<1>1. CASE UNCHANGED <<perc_steps, sent, handling, rows, process>>
  <2>1. \A s \in Steps : UNCHANGED <<Adds(s), Handles(s), Rows(s)>>
    BY <1>1 DEF Adds, Handles, Rows
  <2>2. RowsType'
    BY <1>1 DEF RowsInv, RowsType
  <2>3. IndicesInOrder'
    BY <1>1 DEF RowsInv, IndicesInOrder
  <2>4. AskedOnce'
    BY <1>1, <2>1 DEF RowsInv, AskedOnce, NoStep
  <2>5. Identified'
    BY <1>1, <2>1 DEF RowsInv, Identified, NoStep
  <2> QED
    BY <2>2, <2>3, <2>4, <2>5 DEF RowsInv
<1>2. CASE UNCHANGED progressVars
  BY <1>1, <1>2 DEF progressVars
<1>3. CASE \E request \in sent : update_task_progress_update(request)
  BY <1>1, <1>3 DEF update_task_progress_update
<1>4. CASE \E u \in updating : UpdateRow(u)
  BY <1>4, UpdateRowFacts, UpdateStep
<1> QED
  BY <1>2, <1>3, <1>4, AddStep, AddReturnsStep, UpdateReturnsStep, SetStep, MessageStep,
     EndSteps, HandlerStep, RefuseStep, InsertStep DEF ProgressNext

\* The invariant of the rows of a task, where its steps and messages have names of
\* their own.
THEOREM ProgressInvariant == Distinct /\ ProgressSpec => []RowsInv
<1>1. CASE Distinct
  <2>1. RowsInv /\ RowIsCurrent /\ [ProgressNext]_progressVars => RowsInv' /\ RowIsCurrent'
    BY <1>1, NextRowsInv, NextRowIsCurrent
  <2> QED
    BY <2>1, InitRowsInv, InitRowIsCurrent, PTL DEF ProgressSpec
<1> QED
  BY <1>1

\* The identifier which a percentage step has is that of its own row, whatever other
\* updates were being added at the time (add_task_progress_update, under the lock on
\* the task).
THEOREM EveryStepHasItsRow == Distinct /\ ProgressSpec => []StepsHaveTheirRows
<1>1. RowsInv => StepsHaveTheirRows
  BY InvImpliesRows
<1> QED
  BY <1>1, ProgressInvariant, PTL

-----------------------------------------------------------------------------
(***************************************************************************)
(* What is shown of a step                                                 *)
(*                                                                         *)
(* The values which the conductor is told of a step only rise, so the last *)
(* one is in its row or still to be handled, whatever the order; and the   *)
(* process goes on from the last value of all only when that is in the     *)
(* row.                                                                    *)
(***************************************************************************)

Updates(s) == {u \in sent : u.op = "update" /\ u.of = s}

\* A step without an identifier was told nothing of.
Untold(s) ==
  told[s] = 0 /\ Updates(s) = {} /\ \A r \in Rows(s) : r.step = 0

ToldStep(s) ==
  /\ told[s] <= total_steps[s]
  /\ \A u \in Updates(s) : /\ u.id = perc_steps[s].id /\ u.step <= told[s]
                           /\ u.call => u.step = total_steps[s]
  /\ \A r \in Rows(s) : /\ r.step <= told[s]
                        /\ r.step = told[s] \/ \E u \in Updates(s) : u.step = told[s]
  /\ process = s => told[s] = total_steps[s]
  /\ process = s /\ s \in answers => \A r \in Rows(s) : r.step = told[s]
  /\ perc_steps[s].last_perc = 100 => \A r \in Rows(s) : r.step = total_steps[s]
  /\ (process \notin {s, "failed", "over"} \/ (process # s /\ timeouts = 0)) =>
       perc_steps[s].last_perc = Perc(s, told[s])

\* A call is answered to the process which waits for it, if it still does; it waits for
\* one at a time.
StillWaits ==
  /\ process \in Steps \cup {"runs", "failed", "over"}
  /\ \A u \in sent : u.call => process \in {u.of, "failed", "over"}
  /\ \A h \in handling : h.call => process \in {h.of, "failed", "over"}
  /\ \A x \in answers : x \in Steps /\ process \in {x, "failed", "over"}
  /\ process \in Steps =>
       /\ \A u, v \in sent : u.call /\ v.call => u = v
       /\ (\E u \in sent : u.call) => process \notin answers /\ \A h \in handling : ~h.call
       /\ (\E h \in handling : h.call) => process \notin answers

ToldInv ==
  /\ total_steps \in [Steps -> Nat] /\ told \in [Steps -> Nat] /\ timeouts \in Nat
  /\ \A s \in Steps : perc_steps[s].last_perc \in Nat
  /\ \A u \in sent : u.op = "update" \/ u.call => u.of \in Steps
  /\ \A h \in handling : h.call => h.of \in Steps
  /\ StillWaits
  /\ \A s \in Steps : IF perc_steps[s] = NoStep THEN Untold(s) ELSE ToldStep(s)

\* Messages are asked for once as well, so there are no more rows than steps and
\* messages, and their indices are the numbers below that.
AddedOnce(m) ==
  /\ \A x, y \in Adds(m) : x = y
  /\ \A r, q \in Rows(m) : r = q
  /\ Adds(m) # {} => Handles(m) = {} /\ Rows(m) = {}
  /\ Handles(m) # {} => Rows(m) = {}

CountInv ==
  /\ \A m \in Messages : AddedOnce(m)
  /\ IsFiniteSet(rows)
  /\ \A r \in rows : r.index < Cardinality(rows)
  /\ rows # {} => \E r \in rows : r.index = Cardinality(rows) - 1
  /\ \A h \in handling : h.index = Cardinality(rows)

-----------------------------------------------------------------------------
\* Per cents of a step, as set_percentage_step computes them: larger values are not
\* fewer, and only the last value makes a hundred.
LEMMA PercFacts ==
  ASSUME ToldInv, NEW s \in Steps
  PROVE  /\ Perc(s, 0) = 0
         /\ \A v \in Nat : Perc(s, v) \in Nat
         /\ \A v, w \in Nat : v <= w => Perc(s, v) <= Perc(s, w)
         /\ \A v \in Nat : v <= total_steps[s] =>
              Perc(s, v) <= 100 /\ (Perc(s, v) = 100 => v = total_steps[s])
<1>1. total_steps[s] \in Nat
  BY DEF ToldInv
<1>2. CASE total_steps[s] = 0
  BY SMT, <1>1, <1>2 DEF Perc
<1>3. ASSUME NEW n \in Nat \ {0}
      PROVE  /\ (0 * 100) \div n = 0
             /\ \A v \in Nat : (v * 100) \div n \in Nat
             /\ \A v, w \in Nat : v <= w => (v * 100) \div n <= (w * 100) \div n
             /\ \A v \in Nat : v <= n =>
                  (v * 100) \div n <= 100 /\ ((v * 100) \div n = 100 => v = n)
  <2>1. (0 * 100) \div n = 0
    BY SMT
  <2>2. \A v \in Nat : (v * 100) \div n \in Nat
    BY SMT
  <2>3. \A v, w \in Nat : v <= w => (v * 100) \div n <= (w * 100) \div n
    BY SMT
  <2>4. ASSUME NEW v \in Nat, v <= n
        PROVE  (v * 100) \div n <= 100 /\ ((v * 100) \div n = 100 => v = n)
    BY SMT, <2>4
  <2> QED
    BY <2>1, <2>2, <2>3, <2>4
<1>4. CASE total_steps[s] > 0
  <2>1. total_steps[s] \in Nat \ {0}
    BY SMT, <1>1, <1>4
  <2>2. \A v : Perc(s, v) = (v * 100) \div total_steps[s]
    BY <1>4 DEF Perc
  <2> QED
    BY SMT, <1>3, <2>1, <2>2
<1> QED
  BY SMT, <1>1, <1>2, <1>4

\* What is known of a step stays so while the process goes its way elsewhere.
LEMMA ToldKept ==
  ASSUME NEW s \in Steps, IF perc_steps[s] = NoStep THEN Untold(s) ELSE ToldStep(s),
         perc_steps'[s] = perc_steps[s], told'[s] = told[s], UNCHANGED total_steps,
         Rows(s)' = Rows(s), Updates(s)' = Updates(s),
         process' = s => process = s,
         process' = s /\ s \in answers' => s \in answers,
         process' \notin {s, "failed", "over"} => process \notin {s, "failed", "over"},
         (process' # s /\ timeouts' = 0) => (process # s /\ timeouts = 0)
  PROVE  (IF perc_steps[s] = NoStep THEN Untold(s) ELSE ToldStep(s))'
<1>1. CASE perc_steps[s] = NoStep
  BY <1>1 DEF Untold, NoStep
<1>2. CASE perc_steps[s] # NoStep
  <2>1. Perc(s, told[s])' = Perc(s, told[s])
    BY DEF Perc
  <2>2. ToldStep(s)
    BY <1>2
  <2>3. ToldStep(s)'
    BY <2>1, <2>2 DEF ToldStep
  <2>4. perc_steps'[s] # NoStep'
    BY <1>2 DEF NoStep
  <2> QED
    BY <2>3, <2>4
<1> QED
  BY <1>1, <1>2

\* A process which runs waits for nothing.
LEMMA RunsWaitsForNothing ==
  ASSUME Distinct, ToldInv, process = "runs"
  PROVE  answers = {} /\ (\A u \in sent : ~u.call) /\ \A h \in handling : ~h.call
<1>1. \A x \in Steps : process \notin {x, "failed", "over"}
  BY DEF Distinct, Things
<1> QED
  BY <1>1 DEF ToldInv, StillWaits

\* The process waits for the row of a step.
LEMMA AddTold ==
  ASSUME Distinct, ToldInv, NEW s \in Steps, add_percentage_step(s)
  PROVE  ToldInv'
<1>1. /\ process = "runs" /\ process' = s
      /\ sent' = sent \cup {AddRequest(s, TRUE)} /\ perc_steps[s] = NoStep
      /\ UNCHANGED <<rows, handling, answers, total_steps, perc_steps, told, timeouts>>
  BY DEF add_percentage_step, conductor
<1>2. \A x \in Steps : Updates(x)' = Updates(x) /\ Rows(x)' = Rows(x)
  BY SMT, <1>1 DEF Updates, Rows, AddRequest
<1>3. \A x \in Steps : process \notin {x, "failed", "over"}
  BY <1>1 DEF Distinct, Things
<1>4. AddRequest(s, TRUE).op = "add" /\ AddRequest(s, TRUE).of = s
  BY DEF AddRequest
<1>5. StillWaits'
  BY <1>1, <1>4, RunsWaitsForNothing DEF ToldInv, StillWaits
<1>6. ASSUME NEW x \in Steps
      PROVE  (IF perc_steps[x] = NoStep THEN Untold(x) ELSE ToldStep(x))'
  <2>1. IF perc_steps[x] = NoStep THEN Untold(x) ELSE ToldStep(x)
    BY DEF ToldInv
  <2>2. CASE x = s
    BY <1>1, <1>2, <2>1, <2>2 DEF Untold, NoStep
  <2>3. CASE x # s
    BY <1>1, <1>2, <1>3, <2>1, <2>3, ToldKept
  <2> QED
    BY <2>2, <2>3
<1> QED
  BY <1>1, <1>4, <1>5, <1>6 DEF ToldInv

\* The row is there, and the process goes on.
LEMMA AddReturnsTold ==
  ASSUME Distinct, RowsInv, ToldInv, NEW s \in Steps, AddReturns(s)
  PROVE  ToldInv'
<1>1. /\ process = s /\ process' = "runs" /\ perc_steps[s] = NoStep
      /\ answers' = answers \ {s}
      /\ UNCHANGED <<rows, handling, sent, total_steps, told, timeouts>>
  BY DEF AddReturns, conductor
<1>2. PICK row \in rows :
        /\ row.of = s
        /\ perc_steps' = [perc_steps EXCEPT ![s] = [id |-> row.index, last_perc |-> 0]]
  BY DEF AddReturns
<1>3. /\ perc_steps'[s] = [id |-> row.index, last_perc |-> 0]
      /\ \A x \in Steps : x # s => perc_steps'[x] = perc_steps[x]
  BY <1>2 DEF RowsInv, RowsType
<1>4. row.index \in Nat /\ row \in Rows(s)
  BY <1>2 DEF RowsInv, RowsType, Rows
<1>5. \A x \in Steps : Updates(x)' = Updates(x) /\ Rows(x)' = Rows(x)
  BY <1>1 DEF Updates, Rows
<1>6. \A x \in Steps : x # s => process \notin {x, "failed", "over"}
  BY <1>1 DEF Distinct, Things
<1>7. Untold(s) /\ total_steps[s] \in Nat
  BY <1>1 DEF ToldInv
<1>8. ToldStep(s)'
  <2>1. Perc(s, told[s])' = 0
    <3>1. Perc(s, 0) = 0
      BY PercFacts
    <3> QED
      BY <1>1, <1>7, <3>1 DEF Perc, Untold
  <2> QED
    BY SMT, <1>1, <1>3, <1>5, <1>7, <2>1 DEF ToldStep, Untold, Distinct, Things
<1>9. perc_steps'[s] # NoStep
  BY SMT, <1>3, <1>4 DEF NoStep
<1>10. StillWaits'
  <2>1. /\ Adds(s) = {} /\ Handles(s) = {} /\ Updates(s) = {}
    BY <1>4, <1>7 DEF RowsInv, AskedOnce, Untold
  <2>2. \A u \in sent : u.of # s
    BY <2>1 DEF Adds, Updates, RowsInv, RowsType
  <2>3. \A u \in sent : ~u.call
    BY <1>1, <1>6, <2>2 DEF ToldInv, StillWaits
  <2>4. \A h \in handling : ~h.call
    BY <1>1, <1>6, <2>1 DEF ToldInv, StillWaits, Handles
  <2>5. answers' = {}
    BY <1>1, <1>6 DEF ToldInv, StillWaits
  <2> QED
    BY <1>1, <2>3, <2>4, <2>5 DEF StillWaits
<1>11. ASSUME NEW x \in Steps
       PROVE  (IF perc_steps[x] = NoStep THEN Untold(x) ELSE ToldStep(x))'
  <2>1. CASE x = s
    BY <1>8, <1>9, <2>1 DEF NoStep
  <2>2. CASE x # s
    <3>1. IF perc_steps[x] = NoStep THEN Untold(x) ELSE ToldStep(x)
      BY DEF ToldInv
    <3>2. x # "runs"
      BY DEF Distinct, Things
    <3> QED
      BY <1>1, <1>3, <1>5, <1>6, <2>2, <3>1, <3>2, ToldKept
  <2> QED
    BY <2>1, <2>2
<1>12. \A x \in Steps : perc_steps'[x].last_perc \in Nat
  BY SMT, <1>3 DEF ToldInv
<1> QED
  BY <1>1, <1>10, <1>11, <1>12 DEF ToldInv

\* The last value has been answered, so it is in the row.
LEMMA UpdateReturnsTold ==
  ASSUME Distinct, RowsInv, ToldInv, NEW s \in Steps, UpdateReturns(s)
  PROVE  ToldInv'
<1>1. /\ process = s /\ process' = "runs" /\ perc_steps[s] # NoStep /\ s \in answers
      /\ answers' = answers \ {s}
      /\ perc_steps' = [perc_steps EXCEPT ![s].last_perc = Perc(s, told[s])]
      /\ UNCHANGED <<rows, handling, sent, total_steps, told, timeouts>>
  BY DEF UpdateReturns, conductor
<1>2. /\ perc_steps'[s].last_perc = Perc(s, told[s])
      /\ perc_steps'[s].id = perc_steps[s].id
      /\ \A x \in Steps : x # s => perc_steps'[x] = perc_steps[x]
      /\ perc_steps'[s] # NoStep
  BY <1>1, LastPercStep
<1>3. \A x \in Steps : Updates(x)' = Updates(x) /\ Rows(x)' = Rows(x)
  BY <1>1 DEF Updates, Rows
<1>4. \A x \in Steps : x # s => process \notin {x, "failed", "over"}
  BY <1>1 DEF Distinct, Things
<1>5. /\ ToldStep(s) /\ told[s] \in Nat /\ total_steps[s] \in Nat
      /\ told[s] = total_steps[s] /\ \A r \in Rows(s) : r.step = told[s]
  BY <1>1 DEF ToldInv, ToldStep
<1>6. Perc(s, told[s])' = Perc(s, told[s]) /\ Perc(s, told[s]) \in Nat
  <2>1. Perc(s, told[s]) \in Nat
    BY <1>5, PercFacts
  <2> QED
    BY <1>1, <2>1 DEF Perc
<1>7. ToldStep(s)'
  BY <1>1, <1>2, <1>3, <1>5, <1>6 DEF ToldStep, Distinct, Things
<1>8. StillWaits'
  <2>1. Adds(s) = {} /\ Handles(s) = {}
    BY <1>1 DEF RowsInv, AskedOnce, Identified
  <2>2. \A h \in handling : ~h.call
    BY <1>1, <1>4, <2>1 DEF ToldInv, StillWaits, Handles
  <2>3. \A u \in sent : ~u.call
    BY <1>1 DEF ToldInv, StillWaits
  <2>4. answers' = {}
    BY <1>1, <1>4 DEF ToldInv, StillWaits
  <2>5. "runs" \notin Steps
    BY DEF Distinct, Things
  <2> QED
    BY <1>1, <2>2, <2>3, <2>4, <2>5 DEF StillWaits
<1>9. ASSUME NEW x \in Steps
      PROVE  (IF perc_steps[x] = NoStep THEN Untold(x) ELSE ToldStep(x))'
  <2>1. CASE x = s
    BY <1>2, <1>7, <2>1 DEF NoStep
  <2>2. CASE x # s
    <3>1. IF perc_steps[x] = NoStep THEN Untold(x) ELSE ToldStep(x)
      BY DEF ToldInv
    <3>2. x # "runs"
      BY DEF Distinct, Things
    <3> QED
      BY <1>1, <1>2, <1>3, <1>4, <2>2, <3>1, <3>2, ToldKept
  <2> QED
    BY <2>1, <2>2
<1>10. \A x \in Steps : perc_steps'[x].last_perc \in Nat
  BY <1>2, <1>6 DEF ToldInv
<1> QED
  BY <1>1, <1>8, <1>9, <1>10 DEF ToldInv

\* A value which makes more per cents than the last one is larger.
LEMMA SetTold ==
  ASSUME Distinct, RowsInv, ToldInv, NEW s \in Steps, NEW value \in Values,
         set_percentage_step(s, value)
  PROVE  ToldInv'
<1>1. /\ process = "runs" /\ perc_steps[s] # NoStep /\ value <= total_steps[s]
      /\ UNCHANGED <<rows, handling, answers, total_steps, timeouts>>
  BY DEF set_percentage_step, conductor
<1>2. CASE UNCHANGED <<sent, process, perc_steps, told>>
  <2>1. \A x \in Steps : Updates(x)' = Updates(x) /\ Rows(x)' = Rows(x)
    BY <1>1, <1>2 DEF Updates, Rows
  <2>2. \A x \in Steps : (IF perc_steps[x] = NoStep THEN Untold(x) ELSE ToldStep(x))'
    BY <1>1, <1>2, <2>1, ToldKept DEF ToldInv
  <2> QED
    BY <1>1, <1>2, <2>2 DEF ToldInv, StillWaits
<1>3. CASE Perc(s, value) > perc_steps[s].last_perc
  <2> DEFINE u == UpdateRequest(s, value, IsFinal(s, value))
  <2>1. /\ told' = [told EXCEPT ![s] = value] /\ sent' = sent \cup {u}
        /\ IF IsFinal(s, value)
             THEN process' = s /\ UNCHANGED perc_steps
             ELSE /\ perc_steps' = [perc_steps EXCEPT ![s].last_perc = Perc(s, value)]
                  /\ UNCHANGED process
    BY <1>3 DEF set_percentage_step
  <2>2. /\ u.op = "update" /\ u.of = s /\ u.id = perc_steps[s].id /\ u.step = value
        /\ u.call = IsFinal(s, value)
    BY DEF UpdateRequest
  <2> HIDE DEF u
  <2>3. /\ value \in Nat /\ total_steps[s] \in Nat /\ told[s] \in Nat
        /\ told \in [Steps -> Nat] /\ perc_steps[s].last_perc \in Nat
    BY ProgressAssumption DEF ToldInv
  <2>4. told'[s] = value /\ \A x \in Steps : x # s => told'[x] = told[x]
    BY <2>1, <2>3
  <2>5. /\ Updates(s)' = Updates(s) \cup {u}
        /\ \A x \in Steps : x # s => Updates(x)' = Updates(x)
        /\ \A x \in Steps : Rows(x)' = Rows(x)
    BY <1>1, <2>1, <2>2 DEF Updates, Rows
  <2>6. \A x \in Steps : process \notin {x, "failed", "over"}
    BY <1>1 DEF Distinct, Things
  <2>7. ToldStep(s) /\ perc_steps[s].last_perc = Perc(s, told[s])
    BY <1>1, <2>6 DEF ToldInv, ToldStep
  <2>8. /\ Perc(s, value) \in Nat /\ Perc(s, value) <= 100
        /\ Perc(s, value) = 100 => value = total_steps[s]
        /\ value <= told[s] => Perc(s, value) <= Perc(s, told[s])
        /\ told[s] \in Nat => Perc(s, told[s]) \in Nat
    BY SMT, <1>1, <2>3, PercFacts
  <2>9. told[s] < value
    BY SMT, <1>3, <2>3, <2>7, <2>8
  <2>10. /\ perc_steps'[s].id = perc_steps[s].id /\ perc_steps'[s] # NoStep
         /\ \A x \in Steps : x # s => perc_steps'[x] = perc_steps[x]
         /\ perc_steps'[s].last_perc = IF IsFinal(s, value) THEN perc_steps[s].last_perc
                                       ELSE Perc(s, value)
    BY SMT, <1>1, <2>1, LastPercStep
  <2>11. IsFinal(s, value) => value = total_steps[s]
    BY SMT, <1>1, <2>3 DEF IsFinal
  <2>12. ~IsFinal(s, value) => Perc(s, value) # 100
    <3>1. total_steps[s] = 0 => Perc(s, value) = 0
      BY SMT DEF Perc
    <3> QED
      BY SMT, <2>3, <2>8, <3>1 DEF IsFinal
  <2>13. Perc(s, told[s])' = Perc(s, value)
    BY <1>1, <2>4 DEF Perc
  <2>14. \A r \in Rows(s) : r.step \in Nat
    BY SMT, ProgressAssumption DEF RowsInv, RowsType, Rows
  <2>15. \A v \in Updates(s) : v.step \in Nat
    BY SMT, ProgressAssumption DEF RowsInv, RowsType, Updates
  <2>16. answers' = {} /\ (\A v \in sent : ~v.call) /\ \A h \in handling' : ~h.call
    BY <1>1, RunsWaitsForNothing
  <2>17. process' = IF IsFinal(s, value) THEN s ELSE "runs"
    BY <1>1, <2>1
  <2>18. s \notin {"runs", "failed", "over"}
    BY DEF Distinct, Things
  <2>19. ToldStep(s)'
    <3>1. (told[s] <= total_steps[s])'
      BY <1>1, <2>4
    <3>2. \A v \in Updates(s)' : /\ v.id = perc_steps'[s].id /\ v.step <= told'[s]
                                 /\ v.call => v.step = total_steps'[s]
      <4>1. \A v \in Updates(s) : v.id = perc_steps'[s].id /\ v.step <= told[s] /\ ~v.call
        BY <2>7, <2>10, <2>16 DEF ToldStep, Updates
      <4> QED
        BY SMT, <1>1, <2>2, <2>3, <2>4, <2>5, <2>9, <2>10, <2>11, <2>15, <4>1
    <3>3. \A r \in Rows(s)' : /\ r.step <= told'[s]
                              /\ r.step = told'[s] \/ \E v \in Updates(s)' : v.step = told'[s]
      <4>1. \A r \in Rows(s) : r.step <= told[s]
        BY <2>7 DEF ToldStep
      <4> QED
        BY SMT, <2>2, <2>3, <2>4, <2>5, <2>9, <2>14, <4>1
    <3>4. process' = s => told'[s] = total_steps'[s]
      BY <1>1, <2>4, <2>11, <2>17, <2>18
    <3>5. perc_steps'[s].last_perc # 100
      BY SMT, <1>3, <2>3, <2>8, <2>10, <2>12
    <3>6. (process' \notin {s, "failed", "over"} \/ (process' # s /\ timeouts' = 0)) =>
             perc_steps'[s].last_perc = Perc(s, told[s])'
      BY <2>10, <2>13, <2>17
    <3>7. s \notin answers'
      BY <2>16
    <3> QED
      BY <3>1, <3>2, <3>3, <3>4, <3>5, <3>6, <3>7 DEF ToldStep
  <2>20. StillWaits'
    BY <2>1, <2>2, <2>16, <2>17, <2>18 DEF StillWaits
  <2>21. ASSUME NEW x \in Steps
         PROVE  (IF perc_steps[x] = NoStep THEN Untold(x) ELSE ToldStep(x))'
    <3>1. CASE x = s
      BY <2>10, <2>19, <3>1 DEF NoStep
    <3>2. CASE x # s
      <4>1. IF perc_steps[x] = NoStep THEN Untold(x) ELSE ToldStep(x)
        BY DEF ToldInv
      <4> QED
        BY <1>1, <2>4, <2>5, <2>6, <2>10, <2>16, <2>17, <3>2, <4>1, ToldKept
    <3> QED
      BY <3>1, <3>2
  <2>22. /\ told' \in [Steps -> Nat]
         /\ \A x \in Steps : perc_steps'[x].last_perc \in Nat
         /\ \A v \in sent' : v.op = "update" \/ v.call => v.of \in Steps
    BY <2>1, <2>2, <2>3, <2>8, <2>10 DEF ToldInv
  <2> QED
    BY <1>1, <2>20, <2>21, <2>22 DEF ToldInv
<1> QED
  BY <1>2, <1>3 DEF set_percentage_step

\* An update without steps.
LEMMA MessageTold ==
  ASSUME ToldInv, NEW m \in Messages, progress_update(m)
  PROVE  ToldInv'
<1>1. /\ sent' = sent \cup {AddRequest(m, FALSE)}
      /\ UNCHANGED <<rows, handling, answers, process, total_steps, perc_steps, told,
                     timeouts>>
  BY DEF progress_update, conductor
<1>2. AddRequest(m, FALSE).op = "add" /\ AddRequest(m, FALSE).call = FALSE
  BY DEF AddRequest
<1>3. \A x \in Steps : Updates(x)' = Updates(x) /\ Rows(x)' = Rows(x)
  BY <1>1, <1>2 DEF Updates, Rows
<1>4. \A x \in Steps : (IF perc_steps[x] = NoStep THEN Untold(x) ELSE ToldStep(x))'
  BY <1>1, <1>3, ToldKept DEF ToldInv
<1>5. StillWaits'
  BY <1>1, <1>2 DEF ToldInv, StillWaits
<1> QED
  BY <1>1, <1>2, <1>4, <1>5 DEF ToldInv

\* The end of a call or of the task changes nothing that is shown.
LEMMA EndTold ==
  ASSUME Distinct, ToldInv, CallTimesOut \/ FailsToCancel \/ TaskEnds
  PROVE  ToldInv'
<1>1. /\ UNCHANGED <<rows, handling, sent, answers, total_steps, perc_steps, told>>
      /\ \/ process' = process /\ timeouts' = timeouts
         \/ process' = "failed" /\ timeouts' = timeouts + 1
         \/ process' = "over" /\ timeouts' = timeouts /\ process \in {"runs", "failed"}
  BY DEF CallTimesOut, FailsToCancel, TaskEnds, conductor
<1>2. \A x \in Steps : Updates(x)' = Updates(x) /\ Rows(x)' = Rows(x)
  BY <1>1 DEF Updates, Rows
<1>3. timeouts \in Nat /\ \A x \in Steps : x \notin {"runs", "failed", "over"}
  BY DEF ToldInv, Distinct, Things
<1>4. ASSUME NEW x \in Steps
      PROVE  (IF perc_steps[x] = NoStep THEN Untold(x) ELSE ToldStep(x))'
  <2>1. /\ process' = x => process = x
        /\ process' \notin {x, "failed", "over"} => process \notin {x, "failed", "over"}
        /\ (process' # x /\ timeouts' = 0) => (process # x /\ timeouts = 0)
    BY SMT, <1>1, <1>3
  <2> QED
    BY <1>1, <1>2, <2>1, ToldKept DEF ToldInv
<1>5. StillWaits'
  BY <1>1, <1>3 DEF ToldInv, StillWaits
<1> QED
  BY SMT, <1>1, <1>3, <1>4, <1>5 DEF ToldInv

\* The last index is read for a request.
LEMMA HandlerTold ==
  ASSUME ToldInv, NEW request \in sent, add_task_progress_update(request)
  PROVE  ToldInv'
<1> DEFINE h == [of |-> request.of, call |-> request.call, index |-> NextIndex]
<1>1. /\ handling' = {h} /\ sent' = sent \ {request} /\ request.op = "add"
      /\ handling = {}
      /\ UNCHANGED <<rows, answers, process, total_steps, perc_steps, told, timeouts>>
  BY DEF add_task_progress_update, Unlocked
<1>2. h.of = request.of /\ h.call = request.call
  OBVIOUS
<1> HIDE DEF h
<1>3. \A x \in Steps : Updates(x)' = Updates(x) /\ Rows(x)' = Rows(x)
  BY <1>1 DEF Updates, Rows
<1>4. \A x \in Steps : (IF perc_steps[x] = NoStep THEN Untold(x) ELSE ToldStep(x))'
  BY <1>1, <1>3, ToldKept DEF ToldInv
<1>5. StillWaits'
  BY <1>1, <1>2 DEF ToldInv, StillWaits
<1> QED
  BY <1>1, <1>2, <1>4, <1>5 DEF ToldInv

\* An addition which is refused fails the process that waits for it.
LEMMA RefuseTold ==
  ASSUME Distinct, RowsInv, ToldInv, NEW request \in sent, RefuseAdd(request)
  PROVE  ToldInv'
<1>1. /\ sent' = sent \ {request} /\ request.op = "add"
      /\ process' = IF process = request.of THEN "failed" ELSE process
      /\ UNCHANGED <<rows, handling, answers, total_steps, perc_steps, told, timeouts>>
  BY DEF RefuseAdd, conductor
<1>2. \A x \in Steps : Updates(x)' = Updates(x) /\ Rows(x)' = Rows(x)
  BY <1>1 DEF Updates, Rows
<1>3. \A x \in Steps : x \notin {"runs", "failed", "over"}
  BY DEF Distinct, Things
<1>4. ASSUME NEW x \in Steps
      PROVE  (IF perc_steps[x] = NoStep THEN Untold(x) ELSE ToldStep(x))'
  <2>1. CASE x = request.of
    <3>1. perc_steps[x] = NoStep
      BY <1>1, <2>1 DEF RowsInv, AskedOnce, Identified, Adds
    <3>2. Untold(x)
      BY <3>1 DEF ToldInv
    <3> QED
      BY <1>1, <1>2, <3>1, <3>2 DEF Untold, NoStep
  <2>2. CASE x # request.of
    <3>1. /\ process' = x => process = x
          /\ process' \notin {x, "failed", "over"} => process \notin {x, "failed", "over"}
          /\ (process' # x /\ timeouts' = 0) => (process # x /\ timeouts = 0)
      BY <1>1, <1>3, <2>2
    <3> QED
      BY <1>1, <1>2, <3>1, ToldKept DEF ToldInv
  <2> QED
    BY <2>1, <2>2
<1>5. StillWaits'
  BY <1>1, <1>3 DEF ToldInv, StillWaits
<1> QED
  BY <1>1, <1>4, <1>5 DEF ToldInv

\* The row of a step is added before it is told of.
LEMMA InsertTold ==
  ASSUME RowsInv, ToldInv, NEW h \in handling, InsertRow(h)
  PROVE  ToldInv'
<1> DEFINE new == [index |-> h.index, of |-> h.of, step |-> 0]
<1>1. /\ rows' = rows \cup {new} /\ handling' = handling \ {h}
      /\ answers' = IF h.call THEN answers \cup {h.of} ELSE answers
      /\ UNCHANGED <<sent, process, total_steps, perc_steps, told, timeouts>>
  BY DEF InsertRow
<1>2. new.of = h.of /\ new.step = 0
  OBVIOUS
<1> HIDE DEF new
<1>3. handling' = {}
  BY <1>1 DEF RowsInv, IndicesInOrder
<1>4. \A x \in Steps : Updates(x)' = Updates(x)
  BY <1>1 DEF Updates
<1>5. ASSUME NEW x \in Steps
      PROVE  (IF perc_steps[x] = NoStep THEN Untold(x) ELSE ToldStep(x))'
  <2>1. CASE x = h.of
    <3>1. Handles(x) # {}
      BY <2>1 DEF Handles
    <3>2. Rows(x) = {} /\ perc_steps[x] = NoStep
      BY <3>1 DEF RowsInv, AskedOnce, Identified
    <3>3. Untold(x)
      BY <3>2 DEF ToldInv
    <3>4. Rows(x)' = {new}
      BY SMT, <1>1, <1>2, <2>1, <3>2 DEF Rows
    <3>5. \A r \in Rows(x)' : r.step = 0
      BY <1>2, <3>4
    <3> QED
      BY <1>1, <1>4, <3>2, <3>3, <3>5 DEF Untold, NoStep
  <2>2. CASE x # h.of
    <3>1. Rows(x)' = Rows(x)
      BY <1>1, <1>2, <2>2 DEF Rows
    <3>2. x \in answers' => x \in answers
      BY <1>1, <2>2
    <3> QED
      BY <1>1, <1>4, <3>1, <3>2, ToldKept DEF ToldInv
  <2> QED
    BY <2>1, <2>2
<1>6. StillWaits'
  <2>1. CASE h.call
    BY <1>1, <1>3, <2>1 DEF ToldInv, StillWaits
  <2>2. CASE ~h.call
    BY <1>1, <1>3, <2>2 DEF ToldInv, StillWaits
  <2> QED
    BY <2>1, <2>2
<1> QED
  BY <1>1, <1>3, <1>5, <1>6 DEF ToldInv

\* A row is never behind what it was told, in whatever order it was told it.
LEMMA UpdateTold ==
  ASSUME Distinct, RowsInv, ToldInv, NEW request \in sent,
         RowUpdated(request)
  PROVE  ToldInv'
<1> DEFINE s == request.of
<1>1. /\ request.op = "update" /\ handling = {} /\ sent' = sent \ {request}
      /\ answers' = IF request.call THEN answers \cup {s} ELSE answers
      /\ UNCHANGED <<handling, process, total_steps, perc_steps, told, timeouts>>
  BY DEF RowUpdated
<1>2. PICK row \in rows :
        /\ row.index = request.id
        /\ rows' = IF IsBehind(request, row) THEN rows
                   ELSE (rows \ {row}) \cup {[row EXCEPT !.step = request.step]}
  BY DEF RowUpdated
<1>3. s \in Steps /\ request \in Updates(s)
  BY <1>1 DEF ToldInv, Updates
<1> HIDE DEF s
<1>4. perc_steps[s] # NoStep /\ ToldStep(s)
  BY <1>3 DEF ToldInv, Untold
<1>5. row \in Rows(s) /\ Rows(s) = {row}
  <2>1. request.id = perc_steps[s].id
    BY <1>3, <1>4 DEF ToldStep
  <2>2. PICK r \in Rows(s) : r.index = perc_steps[s].id
    BY <1>3, <1>4 DEF RowsInv, Identified
  <2>3. r = row
    BY <1>2, <2>1, <2>2 DEF RowsInv, IndicesInOrder, Rows
  <2>4. \A q \in Rows(s) : q = r
    BY <1>3, <2>2 DEF RowsInv, AskedOnce
  <2> QED
    BY <2>2, <2>3, <2>4
<1> DEFINE new == [row EXCEPT !.step = request.step]
<1>6. /\ row \in [index : Nat, of : Things, step : Values \cup {0}]
      /\ request.step \in Nat /\ row.step \in Nat
  BY SMT, ProgressAssumption DEF RowsInv, RowsType
<1>7. new.of = s /\ new.step = request.step
  BY <1>5, <1>6 DEF Rows
<1> HIDE DEF new
<1>8. told[s] \in Nat /\ total_steps[s] \in Nat
  BY <1>3 DEF ToldInv
<1>9. request.step <= told[s] /\ row.step <= told[s] /\ told[s] <= total_steps[s]
  BY <1>3, <1>4, <1>5 DEF ToldStep
<1>10. request.call => request.step = told[s]
  <2>1. request.call => request.step = total_steps[s]
    BY <1>3, <1>4 DEF ToldStep
  <2> QED
    BY SMT, <1>6, <1>8, <1>9, <2>1
<1>11. PICK shown \in rows' : /\ Rows(s)' = {shown}
                              /\ shown.step >= row.step /\ shown.step >= request.step
                              /\ shown.step \in {row.step, request.step}
  <2>1. CASE IsBehind(request, row)
    <3>1. rows' = rows /\ request.step < row.step
      BY <1>2, <2>1 DEF IsBehind
    <3>2. Rows(s)' = {row}
      BY <1>5, <3>1 DEF Rows
    <3> QED
      BY SMT, <1>6, <3>1, <3>2
  <2>2. CASE ~IsBehind(request, row)
    <3>1. rows' = (rows \ {row}) \cup {new} /\ ~(request.step < row.step)
      BY <1>2, <2>2 DEF IsBehind, new
    <3>2. Rows(s)' = {new}
      BY <1>5, <1>7, <3>1 DEF Rows
    <3> QED
      BY SMT, <1>6, <1>7, <3>1, <3>2
  <2> QED
    BY <2>1, <2>2
<1>12. shown.step \in Nat /\ shown.step <= told[s]
  BY <1>6, <1>9, <1>11
<1>13. \A x \in Steps : x # s => Rows(x)' = Rows(x) /\ Updates(x)' = Updates(x)
  <2>1. row.of = s /\ request.of = s
    BY <1>5 DEF Rows, s
  <2> QED
    BY <1>1, <1>2, <1>7, <2>1 DEF Rows, Updates, new
<1>14. Updates(s)' = Updates(s) \ {request}
  BY <1>1 DEF Updates
<1>15. ToldStep(s)'
  <2>1. \A u \in Updates(s)' : /\ u.id = perc_steps'[s].id /\ u.step <= told'[s]
                               /\ u.call => u.step = total_steps'[s]
    BY <1>1, <1>4, <1>14 DEF ToldStep
  <2>2. shown.step = told[s] \/ \E u \in Updates(s)' : u.step = told[s]
    <3>1. row.step = told[s] \/ \E u \in Updates(s) : u.step = told[s]
      BY <1>4, <1>5 DEF ToldStep
    <3>2. CASE row.step = told[s] \/ request.step = told[s]
      BY SMT, <1>6, <1>8, <1>11, <1>12, <3>2
    <3>3. CASE row.step # told[s] /\ request.step # told[s]
      BY <1>14, <3>1, <3>3
    <3> QED
      BY <3>2, <3>3
  <2>3. process = s /\ s \in answers' => shown.step = told[s]
    <3>1. process = s /\ s \in answers => row.step = told[s]
      BY <1>4, <1>5 DEF ToldStep
    <3>2. CASE request.call
      BY SMT, <1>6, <1>8, <1>10, <1>11, <1>12, <3>2
    <3>3. CASE ~request.call
      BY SMT, <1>1, <1>6, <1>8, <1>11, <1>12, <3>1, <3>3
    <3> QED
      BY <3>2, <3>3
  <2>4. perc_steps[s].last_perc = 100 => shown.step = total_steps[s]
    <3>1. perc_steps[s].last_perc = 100 => row.step = total_steps[s]
      BY <1>4, <1>5 DEF ToldStep
    <3> QED
      BY SMT, <1>6, <1>8, <1>9, <1>11, <1>12, <3>1
  <2>5. Perc(s, told[s])' = Perc(s, told[s])
    BY <1>1 DEF Perc
  <2>6. \A r \in Rows(s)' : r = shown
    BY <1>11
  <2>7. \A r \in Rows(s)' : /\ r.step <= told'[s]
                            /\ r.step = told'[s] \/ \E u \in Updates(s)' : u.step = told'[s]
    BY <1>1, <1>12, <2>2, <2>6
  <2>8. (told[s] <= total_steps[s])' /\ (process = s => told[s] = total_steps[s])'
    BY <1>1, <1>4 DEF ToldStep
  <2>9. process' = s /\ s \in answers' => \A r \in Rows(s)' : r.step = told'[s]
    BY <1>1, <2>3, <2>6
  <2>10. perc_steps'[s].last_perc = 100 => \A r \in Rows(s)' : r.step = total_steps'[s]
    BY <1>1, <2>4, <2>6
  <2>11. (process' \notin {s, "failed", "over"} \/ (process' # s /\ timeouts' = 0)) =>
            perc_steps'[s].last_perc = Perc(s, told[s])'
    BY <1>1, <1>4, <2>5 DEF ToldStep
  <2> QED
    BY <2>1, <2>7, <2>8, <2>9, <2>10, <2>11 DEF ToldStep
<1>16. ASSUME NEW x \in Steps
       PROVE  (IF perc_steps[x] = NoStep THEN Untold(x) ELSE ToldStep(x))'
  <2>1. CASE x = s
    BY <1>1, <1>4, <1>15, <2>1 DEF NoStep
  <2>2. CASE x # s
    <3>1. x \in answers' => x \in answers
      BY <1>1, <2>2
    <3> QED
      BY <1>1, <1>13, <2>2, <3>1, ToldKept DEF ToldInv
  <2> QED
    BY <2>1, <2>2
<1>17. StillWaits'
  <2>1. CASE request.call
    <3>1. process \in {s, "failed", "over"}
      BY <2>1 DEF ToldInv, StillWaits, s
    <3>2. process \in Steps => \A u \in sent' : ~u.call
      BY <1>1, <2>1 DEF ToldInv, StillWaits
    <3> QED
      BY <1>1, <1>3, <2>1, <3>1, <3>2 DEF ToldInv, StillWaits
  <2>2. CASE ~request.call
    BY <1>1, <2>2 DEF ToldInv, StillWaits
  <2> QED
    BY <2>1, <2>2
<1> QED
  BY <1>1, <1>16, <1>17 DEF ToldInv

\* What the conductor was told of every step is in its row or still to be handled.
LEMMA InitToldInv ==
  ASSUME ProgressInit
  PROVE  ToldInv
<1>1. total_steps \in [Steps -> Nat]
  BY ProgressAssumption DEF ProgressInit
<1> QED
  BY <1>1 DEF ProgressInit, ToldInv, StillWaits, Untold, Updates, Rows, NoStep

LEMMA NextToldInv ==
  ASSUME Distinct, RowsInv, RowIsCurrent, ToldInv, [ProgressNext]_progressVars
  PROVE  ToldInv'
<1>1. CASE UNCHANGED <<rows, handling, sent, answers, process, total_steps, perc_steps,
                       told, timeouts>>
  <2>1. \A x \in Steps : Updates(x)' = Updates(x) /\ Rows(x)' = Rows(x)
    BY <1>1 DEF Updates, Rows
  <2>2. \A x \in Steps : (IF perc_steps[x] = NoStep THEN Untold(x) ELSE ToldStep(x))'
    BY <1>1, <2>1, ToldKept DEF ToldInv
  <2> QED
    BY <1>1, <2>2 DEF ToldInv, StillWaits
<1>2. CASE UNCHANGED progressVars
  BY <1>1, <1>2 DEF progressVars
<1>3. CASE \E request \in sent : update_task_progress_update(request)
  BY <1>1, <1>3 DEF update_task_progress_update
<1>4. CASE \E u \in updating : UpdateRow(u)
  BY <1>4, UpdateRowFacts, UpdateTold
<1> QED
  BY <1>2, <1>3, <1>4, AddTold, AddReturnsTold, UpdateReturnsTold, SetTold, MessageTold,
     EndTold, HandlerTold, RefuseTold, InsertTold DEF ProgressNext

-----------------------------------------------------------------------------
(* The number of the rows.                                                 *)

\* Where nothing is added to the requests and the rows, nothing is counted.
LEMMA CountKept ==
  ASSUME CountInv, UNCHANGED <<rows, handling>>,
         \A m \in Messages : Adds(m)' \subseteq Adds(m)
  PROVE  CountInv'
<1>1. \A m \in Messages : Rows(m)' = Rows(m) /\ Handles(m)' = Handles(m)
  BY DEF Rows, Handles
<1>2. \A m \in Messages : AddedOnce(m)'
  BY SMT, <1>1 DEF CountInv, AddedOnce
<1> QED
  BY <1>2 DEF CountInv

\* The next index is the number of the rows.
LEMMA NextIndexCounts ==
  ASSUME RowsInv, CountInv
  PROVE  NextIndex = Cardinality(rows) /\ Cardinality(rows) \in Nat
<1>1. Cardinality(rows) \in Nat
  BY FS_CardinalityType DEF CountInv
<1>2. CASE rows = {}
  BY SMT, <1>2, FS_EmptySet DEF NextIndex
<1>3. CASE rows # {}
  <2>1. PICK top \in rows : top.index = Cardinality(rows) - 1
    BY <1>3 DEF CountInv
  <2>2. \A r \in rows : r.index \in Nat /\ r.index <= top.index
    BY SMT, <1>1, <2>1 DEF CountInv, RowsInv, RowsType
  <2> DEFINE last == CHOOSE i \in {row.index : row \in rows} :
                       \A row \in rows : row.index <= i
  <2>3. last \in {row.index : row \in rows} /\ \A row \in rows : row.index <= last
    BY <2>1, <2>2
  <2>4. NextIndex = 1 + last
    BY <1>3 DEF NextIndex
  <2> HIDE DEF last
  <2>5. last = top.index
    BY SMT, <2>1, <2>2, <2>3
  <2> QED
    BY SMT, <1>1, <2>1, <2>4, <2>5
<1> QED
  BY <1>1, <1>2, <1>3

\* The row which is added has the number of those before it.
LEMMA InsertCounts ==
  ASSUME RowsInv, CountInv, NEW h \in handling, InsertRow(h)
  PROVE  CountInv'
<1> DEFINE new == [index |-> h.index, of |-> h.of, step |-> 0]
<1>1. /\ rows' = rows \cup {new} /\ handling' = handling \ {h} /\ UNCHANGED sent
  BY DEF InsertRow
<1>2. new.index = h.index /\ new.of = h.of
  OBVIOUS
<1> HIDE DEF new
<1>3. handling' = {}
  BY <1>1 DEF RowsInv, IndicesInOrder
<1>4. h.index = Cardinality(rows) /\ Cardinality(rows) \in Nat
  BY FS_CardinalityType DEF CountInv
<1>5. \A r \in rows : r.index < Cardinality(rows) /\ r.index \in Nat
  BY DEF CountInv, RowsInv, RowsType
<1>6. new \notin rows
  BY SMT, <1>2, <1>4, <1>5
<1>7. IsFiniteSet(rows') /\ Cardinality(rows') = Cardinality(rows) + 1
  BY <1>1, <1>6, FS_AddElement DEF CountInv
<1>8. \A r \in rows' : r.index < Cardinality(rows')
  BY SMT, <1>1, <1>2, <1>4, <1>5, <1>7
<1>9. \E r \in rows' : r.index = Cardinality(rows') - 1
  BY SMT, <1>1, <1>2, <1>4, <1>7
<1>10. \A m \in Messages : AddedOnce(m)'
  <2> SUFFICES ASSUME NEW m \in Messages
               PROVE  AddedOnce(m)'
    OBVIOUS
  <2>1. Handles(m)' = {} /\ Adds(m)' = Adds(m)
    BY <1>1, <1>3 DEF Handles, Adds
  <2>2. CASE h.of = m
    <3>1. Rows(m) = {} /\ Adds(m) = {}
      BY <2>2 DEF CountInv, AddedOnce, Handles
    <3>2. Rows(m)' = {new}
      BY <1>1, <1>2, <2>2, <3>1 DEF Rows
    <3> QED
      BY <2>1, <3>1, <3>2 DEF AddedOnce
  <2>3. CASE h.of # m
    <3>1. Rows(m)' = Rows(m)
      BY <1>1, <1>2, <2>3 DEF Rows
    <3> QED
      BY <2>1, <3>1 DEF CountInv, AddedOnce
  <2> QED
    BY <2>2, <2>3
<1> QED
  BY <1>3, <1>7, <1>8, <1>9, <1>10 DEF CountInv

\* A row which is updated keeps its index, and the others theirs.
LEMMA UpdateCounts ==
  ASSUME RowsInv, CountInv, NEW request \in sent, RowUpdated(request)
  PROVE  CountInv'
<1>1. handling = {} /\ handling' = {} /\ sent' = sent \ {request}
  BY DEF RowUpdated
<1>2. PICK row \in rows :
        rows' = IF IsBehind(request, row) THEN rows
                ELSE (rows \ {row}) \cup {[row EXCEPT !.step = request.step]}
  BY DEF RowUpdated
<1>3. \A m \in Messages : Adds(m)' \subseteq Adds(m)
  BY <1>1 DEF Adds
<1>4. CASE rows' = rows
  BY <1>1, <1>3, <1>4, CountKept
<1>5. CASE rows' = (rows \ {row}) \cup {[row EXCEPT !.step = request.step]}
  <2> DEFINE new == [row EXCEPT !.step = request.step]
  <2>1. row \in [index : Nat, of : Things, step : Values \cup {0}]
    BY DEF RowsInv, RowsType
  <2>2. new.index = row.index /\ new.of = row.of
    BY <2>1
  <2> HIDE DEF new
  <2>3. rows' = (rows \ {row}) \cup {new}
    BY <1>5 DEF new
  <2>4. new \notin rows \ {row}
    BY <2>2 DEF RowsInv, IndicesInOrder
  <2>5. IsFiniteSet(rows') /\ Cardinality(rows') = Cardinality(rows)
    <3>1. Cardinality(rows) \in Nat /\ IsFiniteSet(rows)
      BY FS_CardinalityType DEF CountInv
    <3>2. IsFiniteSet(rows \ {row}) /\ Cardinality(rows \ {row}) = Cardinality(rows) - 1
      BY <3>1, FS_RemoveElement
    <3>3. /\ IsFiniteSet((rows \ {row}) \cup {new})
          /\ Cardinality((rows \ {row}) \cup {new}) = Cardinality(rows \ {row}) + 1
      BY <2>4, <3>2, FS_AddElement
    <3> QED
      BY SMT, <2>3, <3>1, <3>2, <3>3
  <2>6. \A r \in rows' : r.index < Cardinality(rows')
    BY <2>2, <2>3, <2>5 DEF CountInv
  <2>7. \E r \in rows' : r.index = Cardinality(rows') - 1
    <3>1. PICK top \in rows : top.index = Cardinality(rows) - 1
      BY DEF CountInv
    <3> QED
      BY <2>2, <2>3, <2>5, <3>1
  <2>8. ASSUME NEW m \in Messages PROVE AddedOnce(m)'
    <3>1. Handles(m)' = {} /\ AddedOnce(m)
      BY <1>1 DEF Handles, CountInv
    <3>2. CASE row.of = m
      <4>1. row \in Rows(m)
        BY <3>2 DEF Rows
      <4>2. Rows(m) = {row} /\ Adds(m) = {}
        BY <3>1, <4>1 DEF AddedOnce
      <4>3. Rows(m)' = {new}
        BY <2>2, <2>3, <3>2, <4>2 DEF Rows
      <4> QED
        BY <1>3, <3>1, <4>2, <4>3 DEF AddedOnce
    <3>3. CASE row.of # m
      <4>1. Rows(m)' = Rows(m)
        BY <2>2, <2>3, <3>3 DEF Rows
      <4> QED
        BY <1>3, <3>1, <4>1 DEF AddedOnce
    <3> QED
      BY <3>2, <3>3
  <2> QED
    BY <1>1, <2>5, <2>6, <2>7, <2>8 DEF CountInv
<1> QED
  BY <1>2, <1>4, <1>5

\* The index which a handler reads is the number of the rows.
LEMMA HandlerCounts ==
  ASSUME RowsInv, CountInv, NEW request \in sent, add_task_progress_update(request)
  PROVE  CountInv'
<1> DEFINE h == [of |-> request.of, call |-> request.call, index |-> NextIndex]
<1>1. /\ handling' = {h} /\ sent' = sent \ {request} /\ request.op = "add"
      /\ UNCHANGED rows
  BY DEF add_task_progress_update, Unlocked
<1>2. h.of = request.of /\ h.index = Cardinality(rows)
  BY NextIndexCounts
<1> HIDE DEF h
<1>3. ASSUME NEW m \in Messages PROVE AddedOnce(m)'
  <2>1. AddedOnce(m) /\ Rows(m)' = Rows(m)
    BY <1>1 DEF CountInv, Rows
  <2>2. CASE request.of = m
    <3>1. request \in Adds(m)
      BY <1>1, <2>2 DEF Adds
    <3>2. Adds(m)' = {} /\ Rows(m)' = {}
      BY <1>1, <2>1, <3>1 DEF AddedOnce, Adds
    <3> QED
      BY <3>2 DEF AddedOnce
  <2>3. CASE request.of # m
    <3>1. Adds(m)' = Adds(m) /\ Handles(m)' = {}
      BY <1>1, <1>2, <2>3 DEF Adds, Handles
    <3> QED
      BY <2>1, <3>1 DEF AddedOnce
  <2> QED
    BY <2>2, <2>3
<1> QED
  BY <1>1, <1>2, <1>3 DEF CountInv

\* A message is asked for when nothing of it is there.
LEMMA MessageCounts ==
  ASSUME CountInv, NEW m \in Messages, progress_update(m)
  PROVE  CountInv'
<1>1. /\ sent' = sent \cup {AddRequest(m, FALSE)} /\ UNCHANGED <<rows, handling>>
      /\ Adds(m) = {} /\ Rows(m) = {} /\ Handles(m) = {}
  BY DEF progress_update, conductor, Adds, Rows, Handles
<1>2. AddRequest(m, FALSE).of = m
  BY DEF AddRequest
<1>3. ASSUME NEW x \in Messages PROVE AddedOnce(x)'
  <2>1. AddedOnce(x) /\ Rows(x)' = Rows(x) /\ Handles(x)' = Handles(x)
    BY <1>1 DEF CountInv, Rows, Handles
  <2>2. CASE x = m
    <3>1. Adds(x)' \subseteq {AddRequest(m, FALSE)}
      BY <1>1, <2>2 DEF Adds
    <3> QED
      BY <1>1, <2>1, <2>2, <3>1 DEF AddedOnce
  <2>3. CASE x # m
    <3>1. Adds(x)' = Adds(x)
      BY <1>1, <1>2, <2>3 DEF Adds
    <3> QED
      BY <2>1, <3>1 DEF AddedOnce
  <2> QED
    BY <2>2, <2>3
<1> QED
  BY <1>1, <1>3 DEF CountInv

\* The rows are as many as their indices say.
LEMMA InitCountInv == ProgressInit => CountInv
BY FS_EmptySet DEF ProgressInit, CountInv, AddedOnce, Adds, Rows, Handles

LEMMA NextCountInv ==
  ASSUME Distinct, RowsInv, RowIsCurrent, CountInv, [ProgressNext]_progressVars
  PROVE  CountInv'
<1>1. ASSUME NEW s \in Steps, add_percentage_step(s)
      PROVE  CountInv'
  <2>1. /\ sent' = sent \cup {AddRequest(s, TRUE)} /\ UNCHANGED <<rows, handling>>
        /\ AddRequest(s, TRUE).of = s
    BY <1>1 DEF add_percentage_step, conductor, AddRequest
  <2>2. \A m \in Messages : Adds(m)' = Adds(m)
    BY <2>1 DEF Adds, Distinct
  <2> QED
    BY <2>1, <2>2, CountKept
<1>2. ASSUME NEW s \in Steps, NEW value \in Values, set_percentage_step(s, value)
      PROVE  CountInv'
  <2>1. /\ sent' \in {sent, sent \cup {UpdateRequest(s, value, IsFinal(s, value))}}
        /\ UNCHANGED <<rows, handling>>
        /\ UpdateRequest(s, value, IsFinal(s, value)).op = "update"
    BY <1>2 DEF set_percentage_step, conductor, UpdateRequest
  <2>2. \A m \in Messages : Adds(m)' = Adds(m)
    BY <2>1 DEF Adds
  <2> QED
    BY <2>1, <2>2, CountKept
<1>3. CASE /\ UNCHANGED <<rows, handling>>
           /\ \/ UNCHANGED sent
              \/ \E request \in sent : sent' = sent \ {request}
  <2>1. \A m \in Messages : Adds(m)' \subseteq Adds(m)
    BY <1>3 DEF Adds
  <2> QED
    BY <1>3, <2>1, CountKept
<1>4. CASE UNCHANGED progressVars
  BY <1>3, <1>4 DEF progressVars
<1>5. CASE \E s \in Steps : AddReturns(s) \/ UpdateReturns(s)
  BY <1>3, <1>5 DEF AddReturns, UpdateReturns, conductor
<1>6. CASE CallTimesOut \/ FailsToCancel \/ TaskEnds
  BY <1>3, <1>6 DEF CallTimesOut, FailsToCancel, TaskEnds, conductor
<1>7. CASE \E request \in sent : RefuseAdd(request)
  BY <1>3, <1>7 DEF RefuseAdd, conductor
<1>8. CASE \E request \in sent : update_task_progress_update(request)
  BY <1>3, <1>8 DEF update_task_progress_update
<1>9. CASE \E u \in updating : UpdateRow(u)
  BY <1>9, UpdateRowFacts, UpdateCounts
<1> QED
  BY <1>1, <1>2, <1>4, <1>5, <1>6, <1>7, <1>8, <1>9, MessageCounts, HandlerCounts,
     InsertCounts DEF ProgressNext

-----------------------------------------------------------------------------
\* What the invariants say of what is shown: indices are below the number of updates
\* there can be, and the value which the process has got to is in the row of its step
\* once it is answered, and when there is nothing left to handle.
LEMMA AllIsShown ==
  ASSUME Distinct, RowsInv, ToldInv, CountInv
  PROVE  ProgressTypeOK /\ StepsHaveTheirRows /\ FinalStepShown /\ ShownWhenQuiet
<1>1. ProgressTypeOK
  <2>1. IsFiniteSet(Things) /\ IsFiniteSet(rows)
    BY ProgressAssumption, FS_Union DEF Things, CountInv
  <2> DEFINE f == [r \in rows |-> r.of]
  <2>2. f \in Injection(rows, Things)
    <3>1. f \in [rows -> Things]
      BY DEF RowsInv, RowsType
    <3>2. ASSUME NEW r \in rows, NEW q \in rows, r.of = q.of
          PROVE  r = q
      <4>1. r.of \in Things /\ r \in Rows(r.of) /\ q \in Rows(r.of)
        BY <3>2 DEF RowsInv, RowsType, Rows
      <4>2. CASE r.of \in Steps
        BY <4>1, <4>2 DEF RowsInv, AskedOnce
      <4>3. CASE r.of \in Messages
        BY <4>1, <4>3 DEF CountInv, AddedOnce
      <4> QED
        BY <4>1, <4>2, <4>3 DEF Things
    <3> QED
      BY <3>1, <3>2 DEF Injection, IsInjective
  <2> HIDE DEF f
  <2>3. /\ Cardinality(rows) <= Cardinality(Things)
        /\ Cardinality(rows) \in Nat /\ Cardinality(Things) \in Nat
    BY <2>1, <2>2, FS_Injection, FS_CardinalityType
  <2>4. \A r \in rows : r.index \in Nat /\ r.index < Cardinality(rows)
    BY DEF RowsInv, RowsType, CountInv
  <2>5. \A r \in rows : r.index \in 0..Cardinality(Things)
    BY SMT, <2>3, <2>4
  <2> QED
    BY <2>5 DEF ProgressTypeOK, RowsInv, RowsType, ToldInv, StillWaits, Things
<1>2. FinalStepShown
  <2> SUFFICES ASSUME NEW s \in Steps, perc_steps[s] # NoStep,
                      perc_steps[s].last_perc = 100
               PROVE  \E r \in rows : r.of = s /\ r.step = total_steps[s]
    BY DEF FinalStepShown
  <2>1. PICK r \in Rows(s) : r.index = perc_steps[s].id
    BY DEF RowsInv, Identified
  <2>2. r.step = total_steps[s]
    BY <2>1 DEF ToldInv, ToldStep
  <2> QED
    BY <2>1, <2>2 DEF Rows
<1>3. ShownWhenQuiet
  <2> SUFFICES ASSUME sent = {}, handling = {}, process \in {"runs", "over"},
                      timeouts = 0, NEW r \in rows, r.of \in Steps,
                      perc_steps[r.of] # NoStep
               PROVE  Perc(r.of, r.step) = perc_steps[r.of].last_perc
    BY DEF ShownWhenQuiet
  <2>1. ToldStep(r.of) /\ r \in Rows(r.of) /\ Updates(r.of) = {}
    BY DEF ToldInv, Rows, Updates
  <2>2. r.step = told[r.of]
    BY <2>1 DEF ToldStep
  <2>3. process # r.of
    BY DEF Distinct, Things
  <2> QED
    BY <2>1, <2>2, <2>3 DEF ToldStep
<1> QED
  BY <1>1, <1>2, <1>3, InvImpliesRows
=============================================================================

---------------------------- MODULE TransferCron ----------------------------
(***************************************************************************)
(* The schedules of a transfer: the conductor keeps them in the database   *)
(* with a trust for each, the transfer cron service has a job in memory    *)
(* for each, and starts the transfer when a job is due.                    *)
(*                                                                         *)
(* An operation on a schedule is a database transaction which calls the    *)
(* cron service before it commits; the service may restart, an answer may  *)
(* be lost and a commit may fail in between.  The cron service has three   *)
(* threads of its own: RPCs, the check for due jobs and the janitor.       *)
(***************************************************************************)
EXTENDS Integers, FiniteSets

CONSTANTS Schedules,       \* ids of schedules
          ScheduleValues,  \* what a schedule may be: [enabled, minute, expires]
          MaxNow,          \* bound: half minutes
          MaxFailures,     \* bound: lost answers and failed commits
          MaxRestarts      \* bound: restarts of the cron service

\* A minute of the hour and an expiration date may be -1, which stands for any and none.
ASSUME CronAssumption ==
  /\ MaxNow \in Nat
  /\ ScheduleValues \subseteq [enabled : BOOLEAN, minute : Int, expires : Int]

VARIABLES
  now,        \* the time, in half minutes
  db,         \* the committed schedules: id -> [value, deleted]
  trusts,     \* the schedules whose trust exists
  op,         \* the conductor's operation on a schedule
  cron_up,    \* the cron service runs
  jobs,       \* Cron._jobs: id -> the value it was registered with, or NoJob
  next_check, \* when _check_jobs is due
  copied,     \* the jobs which _check_jobs goes over, and when it began
  threads,    \* jobs which were started and have yet to call the conductor
  execution,  \* the schedule whose execution of the transfer runs, or "none"
  spawned,    \* id -> the last minute its job was started in, and how often
  torn,       \* schedules whose job may not be what the database will say: an operation
              \* was rolled back, or the service restarted, once the job was changed
  untrusted,  \* schedules whose deletion was rolled back once their trust was deleted
  cron_faults, restarts

cronVars == <<now, db, trusts, op, cron_up, jobs, next_check, copied, threads,
              execution, spawned, torn, untrusted, cron_faults, restarts>>
memory == <<cron_up, jobs, next_check, copied, threads, spawned>>

Never == -1

Wildcard == -1

\* What is in the place of a value where there is none.
NoValue == [enabled |-> FALSE, minute |-> Wildcard, expires |-> 0]

NoJob == NoValue

NoSchedule == [value |-> NoValue, deleted |-> FALSE]

Deleted == [value |-> NoValue, deleted |-> TRUE]

Idle == [do |-> "none", at |-> "none", value |-> NoValue]

NothingCopied == [jobs |-> [s \in Schedules |-> NoJob], at |-> Never]

Minute(t) == t \div 2

CronInit ==
  /\ now = 0
  /\ db = [s \in Schedules |-> NoSchedule]
  /\ trusts = {}
  /\ op = [s \in Schedules |-> Idle]
  /\ cron_up = TRUE
  /\ jobs = [s \in Schedules |-> NoJob]
  /\ next_check = 2
  /\ copied = NothingCopied
  /\ threads = {}
  /\ execution = "none"
  /\ spawned = [s \in Schedules |-> [minute |-> Never, times |-> 0]]
  /\ torn = {} /\ untrusted = {}
  /\ cron_faults = 0 /\ restarts = 0

Stored(s) == db[s] \notin {NoSchedule, Deleted}

-----------------------------------------------------------------------------
(* The cron service.                                                       *)

\* A field of the schedule is a wildcard or has to be equal.
_compare(value, t) == value.minute = Wildcard \/ value.minute = Minute(t) % 2

is_expired(value) == value.expires # Never /\ value.expires < now

should_run(value, dt) ==
  /\ ~is_expired(value)
  /\ value.enabled
  /\ _compare(value, dt)

\* An expired schedule is not registered, and a job it has stays as it was.
_register_schedule(js, s, value, date) ==
  IF value.expires # Never /\ value.expires <= date THEN js
  ELSE [js EXCEPT ![s] = value]

\* The service comes up: the jobs are those of the committed schedules which have
\* not expired, and the first check is a minute from now.  What it was told of an
\* operation which is yet to be committed is lost.
_init_cron ==
  /\ ~cron_up
  /\ cron_up' = TRUE
  /\ jobs' = [s \in Schedules |->
                IF Stored(s) THEN _register_schedule(jobs, s, db[s].value, now)[s]
                ELSE NoJob]
  /\ next_check' = now + 2
  /\ torn' = {s \in Schedules : op[s].at \in {"trust", "commit"}}
  /\ UNCHANGED <<now, db, trusts, op, copied, threads, execution, spawned, untrusted,
                 cron_faults, restarts>>

\* The service stops: what it has in memory is gone.
Stop ==
  /\ cron_up /\ restarts < MaxRestarts
  /\ restarts' = restarts + 1
  /\ cron_up' = FALSE
  /\ jobs' = [s \in Schedules |-> NoJob]
  /\ copied' = NothingCopied
  /\ threads' = {}
  /\ UNCHANGED <<now, db, trusts, op, next_check, execution, spawned, torn, untrusted,
                 cron_faults>>

\* _check_jobs copies the jobs and takes the time ...
CopyJobs ==
  /\ cron_up /\ now >= next_check /\ copied = NothingCopied
  /\ copied' = [jobs |-> jobs, at |-> now]
  /\ UNCHANGED <<now, db, trusts, op, cron_up, jobs, next_check, threads,
                 execution, spawned, torn, untrusted, cron_faults, restarts>>

\* ... and starts a thread for each which is due.
_check_jobs ==
  /\ copied # NothingCopied
  /\ LET due == {s \in Schedules : copied.jobs[s] # NoJob
                                   /\ should_run(copied.jobs[s], copied.at)}
         m == Minute(copied.at)
     IN /\ threads' = threads \cup due
        /\ spawned' = [s \in Schedules |->
                         IF s \notin due THEN spawned[s]
                         ELSE [minute |-> m,
                               times |-> IF spawned[s].minute = m
                                           THEN spawned[s].times + 1 ELSE 1]]
  /\ copied' = NothingCopied
  /\ next_check' = now + 2
  /\ UNCHANGED <<now, db, trusts, op, cron_up, jobs, execution, torn, untrusted,
                 cron_faults, restarts>>

_janitor ==
  /\ cron_up
  /\ \E s \in Schedules : jobs[s] # NoJob /\ is_expired(jobs[s])
  /\ jobs' = [s \in Schedules |->
                IF jobs[s] # NoJob /\ is_expired(jobs[s]) THEN NoJob ELSE jobs[s]]
  /\ UNCHANGED <<now, db, trusts, op, cron_up, next_check, copied, threads,
                 execution, spawned, torn, untrusted, cron_faults, restarts>>

\* A transfer which is already being executed is left alone.
_trigger_transfer(s) ==
  /\ s \in threads
  /\ threads' = threads \ {s}
  /\ execution' = IF execution = "none" THEN s ELSE execution
  /\ UNCHANGED <<now, db, trusts, op, cron_up, jobs, next_check, copied, spawned,
                 torn, untrusted, cron_faults, restarts>>

-----------------------------------------------------------------------------
(* The conductor.                                                          *)

Begin(s, do, at, value) ==
  op' = [op EXCEPT ![s] = [do |-> do, at |-> at, value |-> value]]

Goto(s, at) == op' = [op EXCEPT ![s].at = at]

End(s) == op' = [op EXCEPT ![s] = Idle]

\* The API takes no expiration date which has passed.
Accepts(value) == value.expires = Never \/ value.expires > now

create_transfer_schedule(s, value) ==
  /\ op[s] = Idle /\ db[s] = NoSchedule /\ s \notin trusts
  /\ Accepts(value)
  /\ trusts' = trusts \cup {s}
  /\ Begin(s, "create", "register", value)
  /\ UNCHANGED <<now, db, memory, execution, torn, untrusted, cron_faults,
                 restarts>>

update_transfer_schedule(s, value) ==
  /\ op[s] = Idle /\ Stored(s)
  /\ Accepts(value)
  /\ Begin(s, "update", "register", value)
  /\ UNCHANGED <<now, db, trusts, memory, execution, torn, untrusted, cron_faults,
                 restarts>>

\* Only while the transfer is not being executed.
delete_transfer_schedule(s) ==
  /\ op[s] = Idle /\ Stored(s)
  /\ execution = "none"
  /\ Begin(s, "delete", "lookup", db[s].value)
  /\ UNCHANGED <<now, db, trusts, memory, execution, torn, untrusted, cron_faults,
                 restarts>>

\* The callable of add_transfer_schedule and update_transfer_schedule.
register(s) ==
  /\ op[s].at = "register" /\ cron_up
  /\ jobs' = _register_schedule(jobs, s, op[s].value, now)
  /\ Goto(s, "commit")
  /\ torn' = torn \ {s}
  /\ UNCHANGED <<now, db, trusts, cron_up, next_check, copied, threads, execution,
                 spawned, untrusted, cron_faults, restarts>>

\* A mutant: the trust is deleted first.
TrustDeletedFirst(s) ==
  /\ op[s].at = "lookup" /\ cron_up
  /\ trusts' = trusts \ {s}
  /\ Goto(s, IF jobs[s] = NoJob THEN "commit" ELSE "del")
  /\ UNCHANGED <<now, db, memory, execution, torn, untrusted, cron_faults,
                 restarts>>

\* Cron.unregister looks the job up before it takes the semaphore ...
LookUp(s) ==
  /\ op[s].at = "lookup" /\ cron_up
  /\ Goto(s, IF jobs[s] = NoJob THEN "trust" ELSE "del")
  /\ torn' = IF jobs[s] = NoJob THEN torn \ {s} ELSE torn
  /\ UNCHANGED <<now, db, trusts, memory, execution, untrusted, cron_faults, restarts>>

\* ... and a job which the janitor has removed since is a KeyError, which takes the
\* deletion of the schedule back.
unregister(s) ==
  /\ op[s].at = "del" /\ cron_up
  /\ jobs' = [jobs EXCEPT ![s] = NoJob]
  /\ IF jobs[s] = NoJob THEN End(s) /\ UNCHANGED torn
     ELSE Goto(s, "trust") /\ torn' = torn \ {s}
  /\ UNCHANGED <<now, db, trusts, cron_up, next_check, copied, threads, execution,
                 spawned, untrusted, cron_faults, restarts>>

\* _cleanup_schedule_resources, once the job is gone: "Failed to delete schedule's
\* trust_id" is a warning.
DeleteTrust(s) ==
  /\ op[s].at = "trust"
  /\ trusts' \in {trusts, trusts \ {s}}
  /\ Goto(s, "commit")
  /\ UNCHANGED <<now, db, memory, execution, torn, untrusted, cron_faults,
                 restarts>>

Commit(s) ==
  /\ op[s].at = "commit"
  /\ db' = [db EXCEPT ![s] = IF op[s].do = "delete" THEN Deleted
                              ELSE [value |-> op[s].value, deleted |-> FALSE]]
  /\ End(s)
  /\ UNCHANGED <<now, trusts, memory, execution, torn, untrusted, cron_faults,
                 restarts>>

\* An answer of the cron service is lost, with its work done, or the commit fails: the
\* transaction is rolled back, but neither the job nor the trust is.
Fails(s) ==
  /\ op[s].at \in {"trust", "commit"} /\ cron_faults < MaxFailures
  /\ cron_faults' = cron_faults + 1
  /\ torn' = torn \cup {s}
  /\ untrusted' = IF op[s].do = "delete" /\ s \notin trusts THEN untrusted \cup {s}
                  ELSE untrusted
  /\ End(s)
  /\ UNCHANGED <<now, db, trusts, memory, execution, restarts>>

\* The cron service does not answer.
TimesOut(s) ==
  /\ op[s].at \in {"register", "lookup", "del"} /\ ~cron_up
  /\ End(s)
  /\ UNCHANGED <<now, db, trusts, memory, execution, torn, untrusted, cron_faults,
                 restarts>>

-----------------------------------------------------------------------------
TransferEnds ==
  /\ execution # "none"
  /\ execution' = "none"
  /\ UNCHANGED <<now, db, trusts, op, memory, torn, untrusted, cron_faults, restarts>>

Tick ==
  /\ now < MaxNow
  /\ now' = now + 1
  /\ UNCHANGED <<db, trusts, op, memory, execution, torn, untrusted, cron_faults,
                 restarts>>

ScheduleNext ==
  \E s \in Schedules :
    \/ \E value \in ScheduleValues : create_transfer_schedule(s, value)
                             \/ update_transfer_schedule(s, value)
    \/ delete_transfer_schedule(s)
    \/ register(s) \/ LookUp(s) \/ unregister(s) \/ DeleteTrust(s) \/ Commit(s)
    \/ Fails(s) \/ TimesOut(s) \/ _trigger_transfer(s)

CronNext ==
  \/ ScheduleNext
  \/ _init_cron \/ Stop \/ CopyJobs \/ _check_jobs \/ _janitor
  \/ TransferEnds \/ Tick

CronSpec == CronInit /\ [][CronNext]_cronVars

-----------------------------------------------------------------------------
CronTypeOK ==
  /\ now \in 0..MaxNow
  /\ \A s \in Schedules : /\ db[s].value \in ScheduleValues \/ ~Stored(s)
                          /\ jobs[s] \in ScheduleValues \/ jobs[s] = NoJob
  /\ trusts \subseteq Schedules /\ threads \subseteq Schedules
  /\ torn \subseteq Schedules /\ untrusted \subseteq Schedules

\* A job starts at most once in a minute of its schedule, whatever the restarts of
\* the service: the first check comes a minute after it is up, and the next one a
\* minute after the last.
OncePerMinute == \A s \in Schedules : spawned[s].times <= 1

\* Once an operation is over, the job of a schedule is what the database says: it has
\* left a job with the new values or no job of a deleted schedule, and so has a restart,
\* which reads them back.  An operation which was rolled back once the service had done
\* its work has left the schedule torn, and so has a restart before the commit: until the
\* next operation on the schedule has changed its job, or the service restarts.
JobsInStep ==
  \A s \in Schedules :
    (op[s] = Idle /\ s \notin torn /\ cron_up) =>
      /\ Stored(s) /\ Accepts(db[s].value) => jobs[s] = db[s].value
      /\ ~Stored(s) => jobs[s] = NoJob

\* A schedule which can start the transfer has its trust, also after an operation which
\* failed; but not one whose deletion failed to be committed, after its trust was
\* deleted (_cleanup_schedule_resources runs within the transaction).
ScheduleHasTrust ==
  \A s \in Schedules : Stored(s) /\ op[s] = Idle /\ s \notin untrusted => s \in trusts

\* (Does not hold.)  The jobs are those of the database whatever was rolled back.
JobsAlwaysInStep ==
  \A s \in Schedules :
    (op[s] = Idle /\ cron_up) =>
      /\ Stored(s) /\ Accepts(db[s].value) => jobs[s] = db[s].value
      /\ ~Stored(s) => jobs[s] = NoJob

\* (Does not hold.)  No schedule is left without the trust which its job needs: one whose
\* deletion was rolled back may have lost it.
EveryScheduleHasTrust ==
  \A s \in Schedules : Stored(s) /\ op[s] = Idle => s \in trusts

\* An execution which a schedule has started does not lose the trust it runs with:
\* delete_transfer_schedule refuses "while the Transfer is in %s state. Please wait
\* for the Transfer execution to finish".
ExecutionKeepsTrust == execution # "none" => execution \in trusts
=============================================================================

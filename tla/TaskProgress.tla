---------------------------- MODULE TaskProgress ----------------------------
(***************************************************************************)
(* The progress updates of a task: the EventManager in its process on the  *)
(* worker, the casts and calls to the conductor, and the rows which the    *)
(* conductor's handlers keep of them.  Casts are handled in any order, by  *)
(* any thread of the conductor; what orders the handlers is the lock on    *)
(* the task.  Events are added as updates without steps are.               *)
(*                                                                         *)
(* db.api says of the check in update_task_progress_update that it "is     *)
(* still prone to race conditions since `task_progress_update              *)
(* .current_step` may be out of date": a handler reads the row in one step *)
(* here and updates it in another.  It is the lock on the task, which the  *)
(* handlers of the conductor's processes on a machine share, that keeps    *)
(* another one from doing so in between.                                   *)
(***************************************************************************)
EXTENDS Integers, FiniteSets

CONSTANTS Steps,       \* the percentage steps of the task: one per disk
          Messages,    \* its updates without steps
          Totals,      \* total_steps of a percentage step
          Values,      \* the values which steps are set to
          MaxTimeouts  \* bound: calls which are given up before they are answered

ASSUME ProgressAssumption ==
  /\ IsFiniteSet(Steps) /\ IsFiniteSet(Messages)
  /\ Values \subseteq Nat /\ Totals \subseteq Nat

VARIABLES
  active,     \* the task's status is one of ACTIVE_TASK_STATUSES
  rows,       \* its progress updates: [index, of, step]
  handling,   \* the handlers of additions which have the lock: [of, call, index]
  updating,   \* the handlers of updates which have the lock: [request, row]
  sent,       \* requests which were sent and are not handled; updates, not to the end
  answers,    \* the percentage steps which the conductor has answered a call for
  process,    \* what the process does: "runs", a step whose call it waits for, ...
  total_steps,
  perc_steps, \* _perc_steps: [id, last_perc], for the steps there are
  told,       \* the value which the conductor was last told of each step
  timeouts

progressVars == <<active, rows, handling, updating, sent, answers, process, total_steps,
                  perc_steps, told, timeouts>>
conductor == <<active, rows, handling, updating>>

NoStep == [id |-> -1, last_perc |-> 0]

\* The lock on the task is free.
Unlocked == handling = {} /\ updating = {}

Perc(s, value) ==
  IF total_steps[s] > 0 THEN (value * 100) \div total_steps[s] ELSE 0

ProgressInit ==
  /\ active = TRUE /\ rows = {} /\ handling = {} /\ updating = {} /\ sent = {}
  /\ answers = {}
  /\ process = "runs"
  /\ total_steps \in [Steps -> Totals]
  /\ perc_steps = [s \in Steps |-> NoStep]
  /\ told = [s \in Steps |-> 0]
  /\ timeouts = 0

-----------------------------------------------------------------------------
(* The process of the task.                                                *)

AddRequest(x, call) == [op |-> "add", of |-> x, id |-> -1, step |-> 0, call |-> call]

UpdateRequest(s, value, call) ==
  [op |-> "update", of |-> s, id |-> perc_steps[s].id, step |-> value, call |-> call]

\* The row is waited for: its index is the identifier of the step.
add_percentage_step(s) ==
  /\ process = "runs" /\ perc_steps[s] = NoStep
  /\ sent' = sent \cup {AddRequest(s, TRUE)}
  /\ process' = s
  /\ UNCHANGED <<conductor, answers, total_steps, perc_steps, told, timeouts>>

AddReturns(s) ==
  /\ process = s /\ s \in answers /\ perc_steps[s] = NoStep
  /\ \E row \in rows :
       /\ row.of = s
       /\ perc_steps' = [perc_steps EXCEPT ![s] = [id |-> row.index, last_perc |-> 0]]
  /\ process' = "runs" /\ answers' = answers \ {s}
  /\ UNCHANGED <<conductor, sent, total_steps, told, timeouts>>

\* Nobody waits for the row of an update without steps.
progress_update(m) ==
  /\ process = "runs" /\ m \notin {request.of : request \in sent}
  /\ \A row \in rows : row.of # m
  /\ \A h \in handling : h.of # m
  /\ sent' = sent \cup {AddRequest(m, FALSE)}
  /\ UNCHANGED <<conductor, answers, process, total_steps, perc_steps, told,
                 timeouts>>

\* sync_final: the last value is waited for.
IsFinal(s, value) == total_steps[s] > 0 /\ value >= total_steps[s]

\* The conductor is told of whole per cents only, and never of fewer than before; the
\* last value is not kept, so values may well fall.
set_percentage_step(s, value) ==
  /\ process = "runs" /\ perc_steps[s] # NoStep
  /\ value <= total_steps[s]
  /\ IF Perc(s, value) > perc_steps[s].last_perc
       THEN /\ told' = [told EXCEPT ![s] = value]
            /\ sent' = sent \cup {UpdateRequest(s, value, IsFinal(s, value))}
            /\ IF IsFinal(s, value)
                 THEN process' = s /\ UNCHANGED perc_steps
                 ELSE /\ perc_steps' = [perc_steps EXCEPT ![s].last_perc = Perc(s, value)]
                      /\ UNCHANGED process
       ELSE UNCHANGED <<sent, process, perc_steps, told>>
  /\ UNCHANGED <<conductor, answers, total_steps, timeouts>>

UpdateReturns(s) ==
  /\ process = s /\ s \in answers /\ perc_steps[s] # NoStep
  /\ perc_steps' = [perc_steps EXCEPT ![s].last_perc = Perc(s, told[s])]
  /\ process' = "runs" /\ answers' = answers \ {s}
  /\ UNCHANGED <<conductor, sent, total_steps, told, timeouts>>

\* A call which is not answered raises, and fails the task, as does a cancellation
\* while the process waits; the call may be handled yet.
CallTimesOut ==
  /\ process \in Steps /\ timeouts < MaxTimeouts
  /\ timeouts' = timeouts + 1
  /\ process' = "failed"
  /\ UNCHANGED <<conductor, sent, answers, total_steps, perc_steps, told>>

\* The worker could not be asked to cancel the task, which is FAILED_TO_CANCEL and runs
\* on.  This is under the lock on the execution, not under that on the task.
FailsToCancel ==
  /\ active /\ process # "over"
  /\ active' = FALSE
  /\ UNCHANGED <<rows, handling, updating, sent, answers, process, total_steps,
                 perc_steps, told, timeouts>>

\* The task's end is handled: its status is final.
TaskEnds ==
  /\ Unlocked
  /\ process \in {"runs", "failed"}
  /\ active' = FALSE /\ process' = "over"
  /\ UNCHANGED <<rows, handling, updating, sent, answers, total_steps, perc_steps, told,
                 timeouts>>

-----------------------------------------------------------------------------
(* The conductor's handlers, under the lock on the task.                   *)

NextIndex ==
  IF rows = {} THEN 0
  ELSE 1 + (CHOOSE i \in {row.index : row \in rows} : \A row \in rows : row.index <= i)

\* The last index is read ...
add_task_progress_update(request) ==
  /\ request.op = "add" /\ Unlocked /\ active
  /\ handling' = {[of |-> request.of, call |-> request.call, index |-> NextIndex]}
  /\ sent' = sent \ {request}
  /\ UNCHANGED <<active, rows, updating, answers, process, total_steps, perc_steps, told,
                 timeouts>>

\* ... and the row is added.
InsertRow(h) ==
  /\ rows' = rows \cup {[index |-> h.index, of |-> h.of, step |-> 0]}
  /\ handling' = handling \ {h}
  /\ answers' = IF h.call THEN answers \cup {h.of} ELSE answers
  /\ UNCHANGED <<active, updating, sent, process, total_steps, perc_steps, told,
                 timeouts>>

\* "... is in a non-running state ... Refusing progress update.": a call raises.
RefuseAdd(request) ==
  /\ request.op = "add" /\ Unlocked /\ ~active
  /\ sent' = sent \ {request}
  /\ process' = IF process = request.of THEN "failed" ELSE process
  /\ UNCHANGED <<conductor, answers, total_steps, perc_steps, told, timeouts>>

\* "Quick progress updates may be processed out of order."
IsBehind(request, row) == request.step < row.step

\* A mutant: the handler does not take the lock on the task.
UpdateWithoutLock(request) ==
  /\ request.op = "update"
  /\ \E row \in rows : row.index = request.id
                       /\ updating' = updating \cup {[request |-> request, row |-> row]}
  /\ UNCHANGED <<active, rows, handling, sent, answers, process, total_steps, perc_steps,
                 told, timeouts>>

\* The row is read ...
update_task_progress_update(request) ==
  /\ request.op = "update" /\ Unlocked
  /\ \E row \in rows : row.index = request.id
                       /\ updating' = {[request |-> request, row |-> row]}
  /\ UNCHANGED <<active, rows, handling, sent, answers, process, total_steps, perc_steps,
                 told, timeouts>>

\* ... and updated, unless what was read is ahead of the request.
UpdateRow(u) ==
  /\ rows' = IF IsBehind(u.request, u.row) THEN rows
             ELSE {row \in rows : row.index # u.row.index} \cup
                    {[u.row EXCEPT !.step = u.request.step]}
  /\ updating' = updating \ {u}
  /\ sent' = sent \ {u.request}
  /\ answers' = IF u.request.call THEN answers \cup {u.request.of} ELSE answers
  /\ UNCHANGED <<active, handling, process, total_steps, perc_steps, told, timeouts>>

ProgressNext ==
  \/ \E s \in Steps : \/ add_percentage_step(s) \/ AddReturns(s) \/ UpdateReturns(s)
                      \/ \E value \in Values : set_percentage_step(s, value)
  \/ \E m \in Messages : progress_update(m)
  \/ CallTimesOut \/ FailsToCancel \/ TaskEnds
  \/ \E request \in sent : \/ add_task_progress_update(request) \/ RefuseAdd(request)
                           \/ update_task_progress_update(request)
  \/ \E h \in handling : InsertRow(h)
  \/ \E u \in updating : UpdateRow(u)

ProgressSpec == ProgressInit /\ [][ProgressNext]_progressVars

-----------------------------------------------------------------------------
ProgressTypeOK ==
  /\ {r.index : r \in rows} \subseteq 0..Cardinality(Steps \cup Messages)
  /\ \A r \in rows : r.of \in Steps \cup Messages /\ r.step \in Values \cup {0}
  /\ process \in Steps \cup {"runs", "failed", "over"}

\* The identifier which a percentage step has is that of its own row, whatever
\* other updates were being added at the time (add_task_progress_update).
StepsHaveTheirRows ==
  \A s \in Steps : perc_steps[s] # NoStep =>
    {r \in rows : r.index = perc_steps[s].id} = {r \in rows : r.of = s}

\* "Use _call on the last step to make sure the DB is updated and the UI is showing
\* the correct progress": a step whose last value was set shows it, whatever casts
\* of earlier values are still to be handled.
FinalStepShown ==
  \A s \in Steps : (perc_steps[s] # NoStep /\ perc_steps[s].last_perc = 100) =>
    \E r \in rows : r.of = s /\ r.step = total_steps[s]

\* When all requests have been handled, in whatever order and whether the task is over
\* or not, what is shown of every step is what the process has got to: the check against
\* updates which are out of order is not prone to races (update_task_progress_update,
\* under the lock on the task).
ShownWhenQuiet ==
  (sent = {} /\ handling = {} /\ process \in {"runs", "over"} /\ timeouts = 0) =>
    \A r \in rows : r.of \in Steps /\ perc_steps[r.of] # NoStep =>
      Perc(r.of, r.step) = perc_steps[r.of].last_perc
=============================================================================

------------------------------ MODULE Workflow ------------------------------
(***************************************************************************)
(* What a tasks execution promises, whatever the cancellations, failures   *)
(* and timeouts: a workflow over a dependency graph.  A task is started at *)
(* most once and only after all of the tasks it depends on are done; the   *)
(* workflow is closed when nothing is active; a closed workflow is frozen. *)
(***************************************************************************)
CONSTANTS Tasks, DependsOn

VARIABLES
  stage,  \* "waiting", "active" or "done", for every task
  phase   \* "new", "open" or "closed"

Init ==
  /\ stage = [t \in Tasks |-> "waiting"]
  /\ phase = "new"

Open ==
  /\ phase = "new"
  /\ phase' = "open"
  /\ UNCHANGED stage

Start(t) ==
  /\ phase # "closed"
  /\ stage[t] = "waiting"
  /\ \A d \in DependsOn[t] : stage[d] = "done"
  /\ stage' = [stage EXCEPT ![t] = "active"]
  /\ UNCHANGED phase

\* A task ends, or is given up on before it was started.
Finish(t) ==
  /\ phase # "closed"
  /\ stage[t] # "done"
  /\ stage' = [stage EXCEPT ![t] = "done"]
  /\ UNCHANGED phase

\* Whatever is closed together with the workflow is given up on.
Close ==
  /\ phase = "open"
  /\ phase' = "closed"
  /\ \E given \in SUBSET Tasks :
       stage' = [t \in Tasks |-> IF t \in given THEN "done" ELSE stage[t]]
  /\ \A t \in Tasks : stage'[t] # "active"

Next == Open \/ Close \/ \E t \in Tasks : Start(t) \/ Finish(t)

Spec == Init /\ [][Next]_<<stage, phase>>
=============================================================================

------------------------ MODULE AutoDeploymentProofs ------------------------
(***************************************************************************)
(* Proofs about AutoDeployment: who may use the disks of a transfer, what  *)
(* the status of a deployment says, and what its execution waits for, for  *)
(* any number of deployments and failures.                                 *)
(***************************************************************************)
EXTENDS AutoDeployment, FiniteSetTheorems, TLAPS

Calls == [id : Nat, op : Operations, d : Ids]

\* The types of the variables, in full: unlike TypeOK they say what every call and
\* every launch is made of.
Typing ==
  /\ pooled \subseteq Ids
  /\ deployer \in [Ids -> ExecutionStatuses \cup {"none", "deleted"}]
  /\ deployment \in [Ids -> ExecutionStatuses \cup {"none", "deleted"}]
  /\ executions \in [Ids -> Seq(ExecutionStatuses)]
  /\ minions \subseteq Ids
  /\ casts \subseteq Ids
  /\ manager \in [at : ManagerPlaces, todo : SUBSET Ids, d : Ids \cup {"none"},
                  call : Nat]
  /\ manager.at \in {"calling", "waiting", "failed", "reporting"} => manager.d \in Ids
  /\ manager.call # 0 => manager.at \in {"calling", "reporting"}
  /\ calls \subseteq Calls
  /\ IsFiniteSet(calls)
  /\ launching # Nothing => /\ launching \in [id : Nat, op : {"deploy", "launch"}, d : Ids]
                            /\ executions[launching.d] # <<>>
  /\ faults \in 0..MaxFaults


\* Most steps below are first-order consequences of a few facts: Zenon is tried first, and
\* the steps which need records, functions or arithmetic name SMT.
USE Zenon

\* The number of a call of the deployer manager is its own: the answers to the calls
\* which it has given up do not find it waiting.
LEMMA NewCallIsNew ==
  ASSUME IsFiniteSet(calls)
  PROVE  NewCall \in Nat \ {0} /\ \A c \in calls : c.id # NewCall
<1> DEFINE n == Cardinality(calls)
           S == 1..(n + 1)
<1>1. n \in Nat
  BY FS_CardinalityType
<1>2. IsFiniteSet(S) /\ Cardinality(calls) < Cardinality(S)
  BY SMT, <1>1, FS_Interval
<1>3. \E m \in S : \A c \in calls : c.id # m
  <2> SUFFICES ASSUME \A m \in S : \E c \in calls : c.id = m
               PROVE  FALSE
    OBVIOUS
  <2> HIDE DEF S
  <2> DEFINE f == [m \in S |-> CHOOSE c \in calls : c.id = m]
  <2>1. \A m \in S : f[m] \in calls /\ f[m].id = m
    OBVIOUS
  <2>2. f \in [S -> calls]
    BY <2>1
  <2>3. \A g \in [S -> calls] : \E x, y \in S : x # y /\ g[x] = g[y]
    BY SMT, <1>2, FS_PigeonHole
  <2>4. QED
    BY ZenonT(40), <2>1, <2>2, <2>3
<1>4. NewCall \in S /\ \A c \in calls : c.id # NewCall
  BY <1>3 DEF NewCall
<1>5. QED
  BY SMT, <1>1, <1>4

\* Which statuses there are, and which are those of an execution in progress.
LEMMA StatusFacts ==
  /\ ACTIVE_EXECUTION_STATUSES \subseteq ExecutionStatuses
  /\ FINALIZED_EXECUTION_STATUSES \subseteq ExecutionStatuses
  /\ {"UNEXECUTED", "PENDING"} \subseteq ExecutionStatuses
  /\ {"none", "deleted"} \cap ExecutionStatuses = {}
  /\ ACTIVE_EXECUTION_STATUSES = {"RUNNING", "CANCELLING", Awaiting}
  /\ {"COMPLETED", "CANCELED", "ERROR", "DEADLOCKED", "ERROR_ALLOCATING_MINIONS"}
       \subseteq FINALIZED_EXECUTION_STATUSES
  /\ FINALIZED_EXECUTION_STATUSES \cap
       {"RUNNING", "CANCELLING", Awaiting, "none", "deleted", "UNEXECUTED", "PENDING"}
     = {}
  /\ {"none", "deleted", "PENDING", "UNEXECUTED"} \cap ACTIVE_EXECUTION_STATUSES = {}
BY DEF ExecutionStatuses, ACTIVE_EXECUTION_STATUSES, FINALIZED_EXECUTION_STATUSES, Awaiting

\* A failure is counted.
LEMMA FailsEffect ==
  ASSUME faults \in 0..MaxFaults, NEW f, Fails(f)
  PROVE  faults' \in 0..MaxFaults /\ faults' # MaxFaults
BY SMT, AutoDeploymentAssumption DEF Fails

\* What setting the status of an execution does to the executions.
LEMMA SetExecutionEffect ==
  ASSUME executions \in [Ids -> Seq(ExecutionStatuses)],
         NEW d \in Ids, NEW k \in DOMAIN executions[d], NEW s \in ExecutionStatuses,
         executions' = [executions EXCEPT ![d][k] = s]
  PROVE  /\ executions' \in [Ids -> Seq(ExecutionStatuses)]
         /\ \A e \in Ids : /\ DOMAIN executions'[e] = DOMAIN executions[e]
                           /\ Len(executions'[e]) = Len(executions[e])
         /\ \A e \in Ids : e # d => executions'[e] = executions[e]
         /\ \A j \in DOMAIN executions[d] :
              executions'[d][j] = IF j = k THEN s ELSE executions[d][j]
<1>1. executions[d] \in Seq(ExecutionStatuses)
  OBVIOUS
<1>2. executions'[d] = [executions[d] EXCEPT ![k] = s]
  OBVIOUS
<1>3. /\ executions'[d] \in Seq(ExecutionStatuses)
      /\ DOMAIN executions'[d] = DOMAIN executions[d]
      /\ Len(executions'[d]) = Len(executions[d])
  BY SMT, <1>1, <1>2
<1>4. \A e \in Ids : e # d => executions'[e] = executions[e]
  OBVIOUS
<1>5. \A j \in DOMAIN executions[d] :
        executions'[d][j] = IF j = k THEN s ELSE executions[d][j]
  BY <1>1, <1>2
<1>6. executions' \in [Ids -> Seq(ExecutionStatuses)]
  BY <1>3, <1>4
<1>7. QED
  BY <1>3, <1>4, <1>5, <1>6

\* What a new execution does to the executions.
LEMMA AddExecutionEffect ==
  ASSUME executions \in [Ids -> Seq(ExecutionStatuses)], NEW d \in Ids, AddExecution(d)
  PROVE  /\ executions' \in [Ids -> Seq(ExecutionStatuses)]
         /\ \A e \in Ids : e # d => executions'[e] = executions[e]
         /\ DOMAIN executions'[d] = DOMAIN executions[d] \cup {Len(executions'[d])}
         /\ Len(executions[d]) \in Nat /\ Len(executions'[d]) = Len(executions[d]) + 1
         /\ \A j \in DOMAIN executions[d] : executions'[d][j] = executions[d][j]
         /\ executions'[d][Len(executions'[d])] = "UNEXECUTED"
<1>1. executions[d] \in Seq(ExecutionStatuses) /\ "UNEXECUTED" \in ExecutionStatuses
  BY StatusFacts
<1>2. executions'[d] = Append(executions[d], "UNEXECUTED")
  BY DEF AddExecution
<1>3. executions'[d] \in Seq(ExecutionStatuses)
  BY SMT, <1>1, <1>2
<1>4. executions' \in [Ids -> Seq(ExecutionStatuses)]
  BY <1>3 DEF AddExecution
<1>5. \A e \in Ids : e # d => executions'[e] = executions[e]
  BY DEF AddExecution
<1>6. QED
  BY SMT, <1>1, <1>2, <1>4, <1>5

\* What an answer of the conductor does to the calls and to the one who waits for it.
LEMMA AnswerEffect ==
  ASSUME Typing, NEW c, NEW good \in BOOLEAN, Answer(c, good)
  PROVE  /\ calls' = calls \ {c} /\ IsFiniteSet(calls')
         /\ manager' \in [at : ManagerPlaces, todo : SUBSET Ids, d : Ids \cup {"none"},
                          call : Nat]
         /\ manager'.d = manager.d /\ manager'.todo \subseteq manager.todo
         /\ \/ manager' = manager
            \/ manager'.at \in {"loop", "idle", "waiting", "failed"} /\ manager'.d \in Ids
         /\ manager'.call # 0 => manager' = manager
<1>1. calls' = calls \ {c} /\ IsFiniteSet(calls')
  BY FS_RemoveElement DEF Answer, Typing
<1>2. QED
  BY <1>1 DEF Answer, Typing, ManagerPlaces

\* Every step keeps the types.
LEMMA TypingStep ==
  ASSUME Typing, [Next]_vars
  PROVE  Typing'
<1>1. ASSUME NEW d \in Ids, ExecuteTransferTasks(d)
       PROVE  Typing'
  <2>1. faults' \in 0..MaxFaults
    BY <1>1, FailsEffect DEF Typing, ExecuteTransferTasks, BeginFails
  <2>2. \E s \in {"RUNNING", "UNEXECUTED", "DEADLOCKED"} :
          deployer' = [deployer EXCEPT ![d] = s]
    BY <1>1 DEF ExecuteTransferTasks
  <2>3. deployer' \in [Ids -> ExecutionStatuses \cup {"none", "deleted"}]
    BY SMT, <2>2, StatusFacts DEF Typing
  <2>4. QED
    BY <1>1, <2>1, <2>3 DEF Typing, ExecuteTransferTasks
<1>2. ASSUME NEW d \in Ids, DeployTransferInstances(d)
       PROVE  Typing'
  BY SMT, <1>2, AddExecutionEffect, StatusFacts DEF Typing, DeployTransferInstances
<1>3. ASSUME NEW d \in Ids, DeleteTransferTasksExecution(d)
       PROVE  Typing'
  BY <1>3 DEF DeleteTransferTasksExecution, Typing
<1>4. ASSUME NEW d \in Ids, DeleteDeployment(d)
       PROVE  Typing'
  BY <1>4 DEF DeleteDeployment, Typing
<1>5. ASSUME NEW d \in Ids, CancelAwaiting(d)
       PROVE  Typing'
  BY SMT, <1>5, SetExecutionEffect, StatusFacts DEF Typing, CancelAwaiting, SetStatus
<1>6. ASSUME NEW d \in Ids, ExecuteAutoDeployment(d)
       PROVE  Typing'
  BY <1>6, StatusFacts DEF ExecuteAutoDeployment, Typing
<1>7. ASSUME NEW d \in Ids, MinionManagerCalls(d)
       PROVE  Typing'
  <2>1. CASE UNCHANGED <<executions, deployment>>
    BY <1>7, <2>1 DEF Typing, MinionManagerCalls
  <2>2. CASE 1 \in DOMAIN executions[d]
             /\ \E s \in {"RUNNING", "ERROR_ALLOCATING_MINIONS"} : SetStatus(d, 1, s)
    BY SMT, <1>7, <2>2, SetExecutionEffect, StatusFacts
    DEF Typing, MinionManagerCalls, SetStatus
  <2>3. Len(executions[d]) = 1 => 1 \in DOMAIN executions[d]
    BY SMT DEF Typing
  <2>4. QED
    BY <1>7, <2>1, <2>2, <2>3 DEF MinionManagerCalls
<1>8. ASSUME NEW d \in Ids, TransferExecutionMoves(d)
       PROVE  Typing'
  <2>1. \E s \in {"CANCELLING", "COMPLETED", "CANCELED", "ERROR"} :
          deployer' = [deployer EXCEPT ![d] = s]
    BY <1>8 DEF TransferExecutionMoves
  <2>2. deployer' \in [Ids -> ExecutionStatuses \cup {"none", "deleted"}]
    BY SMT, <2>1, StatusFacts DEF Typing
  <2>3. QED
    BY <1>8, <2>2 DEF Typing, TransferExecutionMoves
<1>9. ASSUME NEW d \in Ids, NEW k \in DOMAIN executions[d], DeploymentExecutionMoves(d, k)
       PROVE  Typing'
  <2>1. \E s \in {"CANCELLING", "COMPLETED", "CANCELED", "ERROR"} : SetStatus(d, k, s)
    BY <1>9 DEF DeploymentExecutionMoves
  <2>2. QED
    BY SMT, <1>9, <2>1, SetExecutionEffect, StatusFacts
    DEF Typing, DeploymentExecutionMoves, SetStatus
<1>10. ASSUME NEW d \in Ids, NEW k \in 0..Len(executions[d]), LeftTasksEnd(d, k)
        PROVE  Typing'
  BY <1>10 DEF LeftTasksEnd, Typing
<1>11. ASSUME NEW c \in calls, ConfirmDeployerCompleted(c)
        PROVE  Typing'
  <2>1. CASE Answer(c, FALSE)
    BY <1>11, <2>1, AnswerEffect DEF Typing, ConfirmDeployerCompleted, conductor
  <2>2. CASE /\ calls' = (calls \ {c}) \cup {[c EXCEPT !.op = "launch"]}
             /\ UNCHANGED manager
    <3>1. IsFiniteSet(calls')
      BY <2>2, FS_RemoveElement, FS_AddElement DEF Typing
    <3>2. [c EXCEPT !.op = "launch"] \in Calls
      BY <1>11 DEF Typing, Calls, Operations
    <3>3. QED
      BY <1>11, <2>2, <3>1, <3>2 DEF Typing, ConfirmDeployerCompleted, conductor
  <2>3. QED
    BY <1>11, <2>1, <2>2 DEF ConfirmDeployerCompleted
<1>12. ASSUME NEW c \in calls, ExecuteDeployment(c)
        PROVE  Typing'
  <2>1. c \in Calls /\ c.d \in Ids
    BY <1>12 DEF Typing, Calls
  <2>2. CASE ValidateDeploymentInputs(FALSE)
    <3>1. /\ executions' \in [Ids -> Seq(ExecutionStatuses)]
          /\ executions'[c.d] # <<>>
      BY SMT, <1>12, <2>1, <2>2, AddExecutionEffect DEF Typing, ExecuteDeployment
    <3>2. c \in [id : Nat, op : {"deploy", "launch"}, d : Ids]
      BY <1>12, <2>1 DEF ExecuteDeployment, Calls
    <3>3. QED
      BY <1>12, <2>2, <3>1, <3>2 DEF Typing, ExecuteDeployment
  <2>3. CASE ~ValidateDeploymentInputs(FALSE)
    <3>1. deployment' \in [Ids -> ExecutionStatuses \cup {"none", "deleted"}]
      BY SMT, <1>12, <2>1, <2>3, StatusFacts DEF Typing, ExecuteDeployment, SetActionStatus
    <3>2. Answer(c, FALSE)
      BY <1>12, <2>3 DEF ExecuteDeployment
    <3>3. QED
      BY <1>12, <2>3, <3>1, <3>2, AnswerEffect DEF Typing, ExecuteDeployment
  <2>4. QED
    BY <2>2, <2>3
<1>13. ASSUME NEW c \in calls, ReportDeployerFailure(c)
        PROVE  Typing'
  <2>0. c \in Calls /\ c.d \in Ids /\ (deployment[c.d] = "PENDING") \in BOOLEAN
    BY <1>13 DEF Typing, Calls
  <2>1. QED
    BY <1>13, <2>0, AnswerEffect, StatusFacts
    DEF Typing, ReportDeployerFailure, SetActionStatus
<1>14. CASE BeginTasks
  <2> DEFINE d == launching.d
  <2>1. d \in Ids /\ Len(executions[d]) \in DOMAIN executions[d]
    BY SMT, <1>14 DEF Typing, BeginTasks
  <2>2. \E s \in {Awaiting, "RUNNING"} : SetStatus(d, Len(executions[d]), s)
    BY <1>14 DEF BeginTasks
  <2>3. /\ executions' \in [Ids -> Seq(ExecutionStatuses)]
        /\ deployment' \in [Ids -> ExecutionStatuses \cup {"none", "deleted"}]
    BY SMT, <2>1, <2>2, SetExecutionEffect, StatusFacts DEF Typing, SetStatus
  <2>4. /\ calls' = calls \ {launching} /\ IsFiniteSet(calls')
        /\ manager' \in [at : ManagerPlaces, todo : SUBSET Ids, d : Ids \cup {"none"},
                         call : Nat]
        /\ \/ manager' = manager
           \/ manager'.at \in {"loop", "idle", "waiting", "failed"} /\ manager'.d \in Ids
        /\ manager'.call # 0 => manager' = manager
    BY <1>14, AnswerEffect DEF BeginTasks, Launched
  <2>5. launching' = Nothing /\ minions' \subseteq Ids
    BY SMT, <1>14, <2>1 DEF Typing, BeginTasks, Launched
  <2>6. QED
    BY <1>14, <2>3, <2>4, <2>5 DEF Typing, BeginTasks
<1>15. CASE BeginDeleted
  <2>1. /\ calls' = calls \ {launching} /\ IsFiniteSet(calls')
        /\ manager' \in [at : ManagerPlaces, todo : SUBSET Ids, d : Ids \cup {"none"},
                         call : Nat]
        /\ \/ manager' = manager
           \/ manager'.at \in {"loop", "idle", "waiting", "failed"} /\ manager'.d \in Ids
        /\ manager'.call # 0 => manager' = manager
    BY <1>15, AnswerEffect DEF BeginDeleted, Launched
  <2>2. QED
    BY SMT, <1>15, <2>1 DEF Typing, BeginDeleted, Launched
<1>16. CASE BeginTasksFails
  <2> DEFINE d == launching.d
  <2>1. d \in Ids /\ Len(executions[d]) \in DOMAIN executions[d]
    BY SMT, <1>16 DEF Typing, BeginTasksFails
  <2>2. \E s \in {"UNEXECUTED", "DEADLOCKED"} :
          /\ executions' = [executions EXCEPT ![d][Len(executions[d])] = s]
          /\ deployment' = [deployment EXCEPT
                              ![d] = IF launching.op = "launch" THEN "ERROR" ELSE s]
    BY <1>16 DEF BeginTasksFails
  <2>3. /\ executions' \in [Ids -> Seq(ExecutionStatuses)]
        /\ deployment' \in [Ids -> ExecutionStatuses \cup {"none", "deleted"}]
    BY SMT, <2>1, <2>2, SetExecutionEffect, StatusFacts DEF Typing
  <2>4. /\ calls' = calls \ {launching} /\ IsFiniteSet(calls')
        /\ manager' \in [at : ManagerPlaces, todo : SUBSET Ids, d : Ids \cup {"none"},
                         call : Nat]
        /\ \/ manager' = manager
           \/ manager'.at \in {"loop", "idle", "waiting", "failed"} /\ manager'.d \in Ids
        /\ manager'.call # 0 => manager' = manager
    BY <1>16, AnswerEffect DEF BeginTasksFails, Launched
  <2>5. launching' = Nothing /\ faults' \in 0..MaxFaults
    BY <1>16, FailsEffect DEF Typing, BeginTasksFails, BeginFails, Launched
  <2>6. QED
    BY <1>16, <2>3, <2>4, <2>5 DEF Typing, BeginTasksFails
<1>17. CASE ListPending
  BY <1>17 DEF ListPending, Pending, conductor, ManagerPlaces, Typing
<1>18. CASE LoopEnds
  BY <1>18 DEF LoopEnds, conductor, ManagerPlaces, Typing
<1>19. ASSUME NEW d \in Ids, CheckDeployerStatus(d)
        PROVE  Typing'
  <2>1. NewCall \in Nat \ {0}
    BY NewCallIsNew DEF Typing
  <2>2. CASE UNCHANGED calls /\ manager' = [manager EXCEPT !.todo = @ \ {d}]
    BY <1>19, <2>2 DEF Typing, CheckDeployerStatus, conductor
  <2>3. CASE \E op \in {"confirm", "report"}, place \in {"calling", "reporting"} :
               Sends(op, d, place)
    <3>1. PICK x : calls' = calls \cup {x}
      BY <2>3 DEF Sends
    <3>2. IsFiniteSet(calls')
      BY <3>1, FS_AddElement DEF Typing
    <3>3. QED
      BY SMT, <1>19, <2>1, <2>3, <3>2
      DEF Typing, CheckDeployerStatus, Sends, Calls, Operations, ManagerPlaces, conductor
  <2>4. QED
    BY <1>19, <2>2, <2>3 DEF CheckDeployerStatus
<1>20. CASE WaitForStatusChange
  BY <1>20 DEF WaitForStatusChange, conductor, ManagerPlaces, Typing
<1>21. CASE ReportFailure
  <2>1. NewCall \in Nat \ {0} /\ manager.d \in Ids
    BY <1>21, NewCallIsNew DEF Typing, ReportFailure
  <2>2. IsFiniteSet(calls')
    BY ZenonT(40), <1>21, FS_AddElement DEF Typing, Sends, ReportFailure
  <2>3. QED
    BY SMT, <1>21, <2>1, <2>2
    DEF Typing, ReportFailure, Sends, Calls, Operations, ManagerPlaces, conductor
<1>22. CASE TimesOut
  <2>1. faults' \in 0..MaxFaults
    BY ZenonT(40), <1>22, FailsEffect DEF Typing, TimesOut
  <2>2. /\ manager' \in [at : ManagerPlaces, todo : SUBSET Ids, d : Ids \cup {"none"},
                         call : Nat]
        /\ manager'.at = "failed" => manager'.d \in Ids
        /\ manager'.at \in {"failed", "idle"} /\ manager'.call = 0
    <3>1. CASE manager.at = "loop"
      <4>1. PICK d \in manager.todo :
              manager' = [manager EXCEPT !.at = "failed", !.d = d, !.todo = @ \ {d}]
        BY <1>22, <3>1 DEF TimesOut
      <4>2. QED
        BY <3>1, <4>1 DEF Typing, ManagerPlaces
    <3>2. CASE manager.at \in {"calling", "waiting"}
      <4>1. manager' = [manager EXCEPT !.at = "failed", !.call = 0]
        BY <1>22, <3>2 DEF TimesOut
      <4>2. QED
        BY <3>2, <4>1 DEF Typing, ManagerPlaces
    <3>3. CASE manager.at = "reporting"
      <4>1. manager' = [manager EXCEPT !.at = "idle", !.call = 0, !.todo = {}]
        BY <1>22, <3>3 DEF TimesOut
      <4>2. QED
        BY <3>3, <4>1 DEF Typing, ManagerPlaces
    <3>4. QED
      BY <1>22, <3>1, <3>2, <3>3 DEF TimesOut
  <2>3. QED
    BY <1>22, <2>1, <2>2 DEF Typing, TimesOut, conductor
<1>23. CASE Restart
  <2>1. faults' \in 0..MaxFaults
    BY <1>23, FailsEffect DEF Typing, Restart
  <2>2. QED
    BY ZenonT(40), <1>23, <2>1 DEF Typing, Restart, ManagerPlaces, conductor
<1>24. CASE UNCHANGED vars
  BY <1>24 DEF vars, conductor, Typing
<1>25. QED
  BY <1>1, <1>2, <1>3, <1>4, <1>5, <1>6, <1>7, <1>8, <1>9, <1>10, <1>11, <1>12,
     <1>13, <1>14, <1>15, <1>16, <1>17, <1>18, <1>19, <1>20, <1>21, <1>22, <1>23,
     <1>24 DEF Next, Users, Ends, Handle, Launch, Manager

\* What is known of a deployment before it is created: it has no execution, and nobody
\* has been told of it but the deployer manager, by a cast.  The deployer manager only
\* confirms executions which have completed.
Known ==
  /\ \A d \in Ids : deployment[d] = "none" => executions[d] = <<>> /\ d \notin manager.todo
  /\ \A d \in casts : deployment[d] = "none" /\ deployer[d] # "none"
  /\ \A c \in calls : deployment[c.d] # "none"
  /\ \A c \in calls : c.op # "report" => deployer[c.d] \in {"COMPLETED", "deleted"}
  /\ manager.at \in {"calling", "waiting", "failed", "reporting"}
       => deployment[manager.d] # "none"
  /\ launching # Nothing => deployment[launching.d] # "none"
  /\ WaitsForDeployer

\* An answer leaves the deployer manager with what it knew.
LEMMA AnswerManager ==
  ASSUME Typing, Known, NEW c, NEW good \in BOOLEAN, Answer(c, good)
  PROVE  /\ calls' \subseteq calls
         /\ manager'.d = manager.d /\ manager'.todo \subseteq manager.todo
         /\ \/ manager' = manager
            \/ manager.d \in Ids /\ deployment[manager.d] # "none"
BY AnswerEffect DEF Typing, Known, Answer

\* What is known only changes with what is asked for, listed or begun.
LEMMA KnownKept ==
  ASSUME Typing, Known, UNCHANGED <<deployer, casts>>,
         launching' \in {launching, Nothing}, calls' \subseteq calls,
         manager'.d = manager.d, manager'.todo \subseteq manager.todo,
         manager' = manager \/ (manager.d \in Ids /\ deployment[manager.d] # "none"),
         \A e \in Ids : executions'[e] = <<>> <=> executions[e] = <<>>,
         \A e \in Ids : deployment'[e] = "none" <=> deployment[e] = "none"
  PROVE  Known'
<1>1. /\ \A d \in Ids : deployment'[d] = "none"
                          => executions'[d] = <<>> /\ d \notin manager'.todo
      /\ \A d \in casts' : deployment'[d] = "none" /\ deployer'[d] # "none"
  BY DEF Known, Typing
<1>2. \A c \in calls' :
        /\ deployment'[c.d] # "none"
        /\ c.op # "report" => deployer'[c.d] \in {"COMPLETED", "deleted"}
  BY SMT DEF Known, Typing, Calls
<1>3. manager'.at \in {"calling", "waiting", "failed", "reporting"}
        => deployment'[manager'.d] # "none"
  BY DEF Known, Typing
<1>4. launching' # Nothing => deployment'[launching'.d] # "none"
  BY DEF Known, Typing
<1>5. WaitsForDeployer'
  BY DEF Known, WaitsForDeployer
<1>6. QED
  BY <1>1, <1>2, <1>3, <1>4, <1>5 DEF Known

\* Every step keeps what is known.
LEMMA KnownStep ==
  ASSUME Typing, Known, [Next]_vars
  PROVE  Known'
<1>1. ASSUME NEW d \in Ids, ExecuteTransferTasks(d)
       PROVE  Known'
  <2>1. /\ \A e \in Ids : e # d => deployer'[e] = deployer[e]
        /\ deployer'[d] # "none" /\ deployer[d] = "none" /\ deployment[d] = "none"
        /\ casts' \subseteq casts \cup {d}
    BY <1>1 DEF ExecuteTransferTasks, Unused, Typing
  <2>2. UNCHANGED <<deployment, executions, manager, calls, launching>>
    BY <1>1 DEF ExecuteTransferTasks
  <2>3. \A c \in calls : c.d \in Ids /\ c.d # d
    BY SMT, <2>1 DEF Typing, Known, Calls
  <2>4. \A e \in casts' : deployment'[e] = "none" /\ deployer'[e] # "none"
    BY SMT, <2>1, <2>2 DEF Typing, Known
  <2>5. WaitsForDeployer'
    BY <2>1, <2>2 DEF Known, WaitsForDeployer
  <2>6. QED
    BY <2>1, <2>2, <2>3, <2>4, <2>5 DEF Known
<1>2. ASSUME NEW d \in Ids, DeployTransferInstances(d)
       PROVE  Known'
  <2>1. /\ \A e \in Ids : e # d => executions'[e] = executions[e]
        /\ deployment' = [deployment EXCEPT ![d] = "UNEXECUTED"]
    BY <1>2, AddExecutionEffect DEF Typing, DeployTransferInstances
  <2>2. QED
    BY SMT, <1>2, <2>1 DEF Typing, Known, WaitsForDeployer, DeployTransferInstances, Unused
<1>3. ASSUME NEW d \in Ids, DeleteTransferTasksExecution(d)
       PROVE  Known'
  BY SMT, <1>3, StatusFacts DEF DeleteTransferTasksExecution, Typing, Known,
     WaitsForDeployer
<1>4. ASSUME NEW d \in Ids, DeleteDeployment(d)
       PROVE  Known'
  BY SMT, <1>4 DEF DeleteDeployment, Existing, Typing, Known, WaitsForDeployer
<1>5. ASSUME NEW d \in Ids, CancelAwaiting(d)
       PROVE  Known'
  <2>1. /\ \A e \in Ids : executions'[e] = <<>> <=> executions[e] = <<>>
        /\ \A e \in Ids : deployment'[e] = "none" <=> deployment[e] = "none"
    BY SMT, <1>5, SetExecutionEffect, StatusFacts DEF Typing, Known, CancelAwaiting, SetStatus
  <2>2. QED
    BY <1>5, <2>1, KnownKept DEF CancelAwaiting
<1>6. ASSUME NEW d \in Ids, ExecuteAutoDeployment(d)
       PROVE  Known'
  BY SMT, <1>6, StatusFacts DEF ExecuteAutoDeployment, Typing, Known, WaitsForDeployer
<1>7. ASSUME NEW d \in Ids, MinionManagerCalls(d)
       PROVE  Known'
  <2>1. /\ \A e \in Ids : executions'[e] = <<>> <=> executions[e] = <<>>
        /\ \A e \in Ids : deployment'[e] = "none" <=> deployment[e] = "none"
    <3>1. CASE UNCHANGED <<executions, deployment>>
      BY <3>1
    <3>2. CASE 1 \in DOMAIN executions[d]
               /\ \E s \in {"RUNNING", "ERROR_ALLOCATING_MINIONS"} : SetStatus(d, 1, s)
      BY SMT, <3>2, SetExecutionEffect, StatusFacts DEF Typing, Known, SetStatus
    <3>3. Len(executions[d]) = 1 => 1 \in DOMAIN executions[d]
      BY SMT DEF Typing
    <3>4. QED
      BY <1>7, <3>1, <3>2, <3>3 DEF MinionManagerCalls
  <2>2. QED
    BY <1>7, <2>1, KnownKept DEF MinionManagerCalls
<1>8. ASSUME NEW d \in Ids, TransferExecutionMoves(d)
       PROVE  Known'
  <2>1. /\ \A e \in Ids : e # d => deployer'[e] = deployer[e]
        /\ deployer'[d] # "none" /\ deployer[d] \in {"RUNNING", "CANCELLING"}
    BY <1>8 DEF TransferExecutionMoves, Typing
  <2>2. UNCHANGED <<deployment, executions, casts, manager, calls, launching>>
    BY <1>8 DEF TransferExecutionMoves
  <2>3. QED
    BY ZenonT(40), <2>1, <2>2 DEF Typing, Known, WaitsForDeployer, Calls
<1>9. ASSUME NEW d \in Ids, NEW k \in DOMAIN executions[d], DeploymentExecutionMoves(d, k)
       PROVE  Known'
  <2>1. \E s \in {"CANCELLING", "COMPLETED", "CANCELED", "ERROR"} : SetStatus(d, k, s)
    BY <1>9 DEF DeploymentExecutionMoves
  <2>2. /\ \A e \in Ids : executions'[e] = <<>> <=> executions[e] = <<>>
        /\ \A e \in Ids : deployment'[e] = "none" <=> deployment[e] = "none"
    BY SMT, <2>1, SetExecutionEffect, StatusFacts DEF Typing, Known, SetStatus
  <2>3. QED
    BY <1>9, <2>2, KnownKept DEF DeploymentExecutionMoves
<1>10. ASSUME NEW d \in Ids, NEW k \in 0..Len(executions[d]), LeftTasksEnd(d, k)
        PROVE  Known'
  BY <1>10 DEF LeftTasksEnd, Typing, Known, WaitsForDeployer
<1>11. ASSUME NEW c \in calls, ConfirmDeployerCompleted(c)
        PROVE  Known'
  <2>1. CASE Answer(c, FALSE)
    <3>1. /\ calls' \subseteq calls
          /\ manager'.d = manager.d /\ manager'.todo \subseteq manager.todo
          /\ \/ manager' = manager
             \/ manager.d \in Ids /\ deployment[manager.d] # "none"
      BY <2>1, AnswerManager
    <3>2. QED
      BY <1>11, <3>1 DEF Typing, Known, WaitsForDeployer, ConfirmDeployerCompleted, conductor
  <2>2. CASE calls' = (calls \ {c}) \cup {[c EXCEPT !.op = "launch"]} /\ UNCHANGED manager
    <3>1. \A x \in calls' : \E y \in calls : x.d = y.d /\ (x.op # "report" => y.op # "report")
      BY <1>11, <2>2 DEF Typing, Calls, ConfirmDeployerCompleted
    <3>2. UNCHANGED <<deployment, executions, deployer, casts, launching>>
      BY <1>11 DEF ConfirmDeployerCompleted, conductor
    <3>3. \A x \in calls' : /\ deployment'[x.d] # "none"
                            /\ x.op # "report" => deployer'[x.d] \in {"COMPLETED", "deleted"}
      BY SMT, <3>1, <3>2 DEF Known
    <3>4. WaitsForDeployer'
      BY <3>2 DEF Known, WaitsForDeployer
    <3>5. QED
      BY <2>2, <3>2, <3>3, <3>4 DEF Known
  <2>3. QED
    BY <1>11, <2>1, <2>2 DEF ConfirmDeployerCompleted
<1>12. ASSUME NEW c \in calls, ExecuteDeployment(c)
        PROVE  Known'
  <2>1. c \in Calls /\ c.d \in Ids
    BY <1>12 DEF Typing, Calls
  <2>2. CASE ValidateDeploymentInputs(FALSE)
    <3>1. \A e \in Ids : e # c.d => executions'[e] = executions[e]
      BY <1>12, <2>1, <2>2, AddExecutionEffect DEF Typing, ExecuteDeployment
    <3>2. QED
      BY SMT, <1>12, <2>1, <2>2, <3>1 DEF Typing, Known, WaitsForDeployer, ExecuteDeployment
  <2>3. CASE ~ValidateDeploymentInputs(FALSE)
    <3>1. \A e \in Ids : deployment'[e] = "none" <=> deployment[e] = "none"
      BY <1>12, <2>1, <2>3 DEF Typing, Known, ExecuteDeployment, SetActionStatus
    <3>2. /\ calls' \subseteq calls
          /\ manager'.d = manager.d /\ manager'.todo \subseteq manager.todo
          /\ \/ manager' = manager
             \/ manager.d \in Ids /\ deployment[manager.d] # "none"
      BY <1>12, <2>3, AnswerManager DEF ExecuteDeployment
    <3>3. QED
      BY <1>12, <2>3, <3>1, <3>2, KnownKept DEF ExecuteDeployment
  <2>4. QED
    BY <2>2, <2>3
<1>13. ASSUME NEW c \in calls, ReportDeployerFailure(c)
        PROVE  Known'
  <2>1. c \in Calls /\ c.d \in Ids /\ (deployment[c.d] = "PENDING") \in BOOLEAN
    BY <1>13 DEF Typing, Calls
  <2>2. \A e \in Ids : deployment'[e] = "none" <=> deployment[e] = "none"
    BY <1>13, <2>1 DEF Typing, Known, ReportDeployerFailure, SetActionStatus
  <2>3. /\ calls' \subseteq calls
        /\ manager'.d = manager.d /\ manager'.todo \subseteq manager.todo
        /\ \/ manager' = manager
           \/ manager.d \in Ids /\ deployment[manager.d] # "none"
    BY <1>13, <2>1, AnswerManager DEF ReportDeployerFailure
  <2>4. QED
    BY <1>13, <2>2, <2>3, KnownKept DEF ReportDeployerFailure
<1>14. CASE BeginTasks
  <2> DEFINE d == launching.d
  <2>1. d \in Ids /\ Len(executions[d]) \in DOMAIN executions[d]
    BY SMT, <1>14 DEF Typing, BeginTasks
  <2>2. \E s \in {Awaiting, "RUNNING"} : SetStatus(d, Len(executions[d]), s)
    BY <1>14 DEF BeginTasks
  <2>3. /\ \A e \in Ids : executions'[e] = <<>> <=> executions[e] = <<>>
        /\ \A e \in Ids : deployment'[e] = "none" <=> deployment[e] = "none"
    BY SMT, <1>14, <2>1, <2>2, SetExecutionEffect, StatusFacts
    DEF Typing, Known, SetStatus, BeginTasks
  <2>4. /\ calls' \subseteq calls
        /\ manager'.d = manager.d /\ manager'.todo \subseteq manager.todo
        /\ \/ manager' = manager
           \/ manager.d \in Ids /\ deployment[manager.d] # "none"
    BY <1>14, AnswerManager DEF BeginTasks, Launched
  <2>5. QED
    BY <1>14, <2>3, <2>4, KnownKept DEF BeginTasks, Launched
<1>15. CASE BeginDeleted
  <2>1. /\ calls' \subseteq calls
        /\ manager'.d = manager.d /\ manager'.todo \subseteq manager.todo
        /\ \/ manager' = manager
           \/ manager.d \in Ids /\ deployment[manager.d] # "none"
    BY <1>15, AnswerManager DEF BeginDeleted, Launched
  <2>2. QED
    BY <1>15, <2>1, KnownKept DEF BeginDeleted, Launched
<1>16. CASE BeginTasksFails
  <2> DEFINE d == launching.d
  <2>1. d \in Ids /\ Len(executions[d]) \in DOMAIN executions[d]
    BY SMT, <1>16 DEF Typing, BeginTasksFails
  <2>2. \E s \in {"UNEXECUTED", "DEADLOCKED"} :
          /\ executions' = [executions EXCEPT ![d][Len(executions[d])] = s]
          /\ deployment' = [deployment EXCEPT
                              ![d] = IF launching.op = "launch" THEN "ERROR" ELSE s]
    BY <1>16 DEF BeginTasksFails
  <2>3. /\ \A e \in Ids : executions'[e] = <<>> <=> executions[e] = <<>>
        /\ \A e \in Ids : deployment'[e] = "none" <=> deployment[e] = "none"
    BY SMT, <1>16, <2>1, <2>2, SetExecutionEffect, StatusFacts
    DEF Typing, Known, BeginTasksFails
  <2>4. /\ calls' \subseteq calls
        /\ manager'.d = manager.d /\ manager'.todo \subseteq manager.todo
        /\ \/ manager' = manager
           \/ manager.d \in Ids /\ deployment[manager.d] # "none"
    BY <1>16, AnswerManager DEF BeginTasksFails, Launched
  <2>5. QED
    BY <1>16, <2>3, <2>4, KnownKept DEF BeginTasksFails, Launched
<1>17. CASE ListPending
  BY <1>17 DEF ListPending, Pending, conductor, Typing, Known, WaitsForDeployer
<1>18. CASE LoopEnds
  BY <1>18 DEF LoopEnds, conductor, Typing, Known, WaitsForDeployer
<1>19. ASSUME NEW d \in Ids, CheckDeployerStatus(d)
        PROVE  Known'
  BY SMT, <1>19 DEF CheckDeployerStatus, Sends, conductor, Calls, Typing, Known,
     WaitsForDeployer
<1>20. CASE WaitForStatusChange
  BY <1>20 DEF WaitForStatusChange, conductor, Typing, Known, WaitsForDeployer
<1>21. CASE ReportFailure
  <2>1. manager.d \in Ids /\ deployment[manager.d] # "none"
    BY <1>21 DEF ReportFailure, Typing, Known
  <2>2. /\ calls' = calls \cup {[id |-> NewCall, op |-> "report", d |-> manager.d]}
        /\ manager' = [at |-> "reporting", todo |-> manager.todo \ {manager.d},
                       d |-> manager.d, call |-> NewCall]
        /\ UNCHANGED <<deployer, deployment, executions, casts, launching>>
    BY <1>21 DEF ReportFailure, Sends, conductor
  <2>3. QED
    BY SMT, <2>1, <2>2 DEF Typing, Known, WaitsForDeployer, Calls
<1>22. CASE TimesOut
  <2>1. UNCHANGED <<deployer, deployment, executions, casts, calls, launching>>
    BY <1>22 DEF TimesOut, conductor
  <2>2. CASE manager.at = "loop"
    <3>1. PICK d \in manager.todo :
            manager' = [manager EXCEPT !.at = "failed", !.d = d, !.todo = @ \ {d}]
      BY <1>22, <2>2 DEF TimesOut
    <3>2. /\ d \in Ids /\ manager'.d = d /\ manager'.todo \subseteq manager.todo
          /\ deployment[d] # "none"
      BY <3>1 DEF Typing, Known
    <3>3. QED
      BY <2>1, <3>2 DEF Typing, Known, WaitsForDeployer
  <2>3. CASE manager.at # "loop"
    <3>1. /\ manager.d \in Ids /\ deployment[manager.d] # "none"
          /\ manager'.d = manager.d /\ manager'.todo \subseteq manager.todo
      BY <1>22, <2>3 DEF TimesOut, Typing, Known
    <3>2. QED
      BY <2>1, <3>1, KnownKept
  <2>4. QED
    BY <2>2, <2>3
<1>23. CASE Restart
  BY <1>23 DEF Restart, Fails, conductor, Typing, Known, WaitsForDeployer
<1>24. CASE UNCHANGED vars
  BY <1>24 DEF vars, conductor, Typing, Known, WaitsForDeployer
<1>25. QED
  BY <1>1, <1>2, <1>3, <1>4, <1>5, <1>6, <1>7, <1>8, <1>9, <1>10, <1>11, <1>12,
     <1>13, <1>14, <1>15, <1>16, <1>17, <1>18, <1>19, <1>20, <1>21, <1>22, <1>23,
     <1>24 DEF Next, Users, Ends, Handle, Launch, Manager

\* An execution is in progress: the transfer's, or the k-th of a deployment.
Going(d, k) ==
  \/ k = 0 /\ deployer[d] \in ACTIVE_EXECUTION_STATUSES
  \/ /\ d \in Existing
     /\ k \in DOMAIN executions[d]
     /\ executions[d][k] \in ACTIVE_EXECUTION_STATUSES

\* No two executions are in progress, and none while another is launched; a deployment
\* which awaits minion machines does so with its last execution.
Exclusive ==
  /\ \A d \in Ids : deployment[d] = Awaiting
                      => /\ executions[d] # <<>>
                         /\ executions[d][Len(executions[d])] = Awaiting
  /\ launching # Nothing => \A d \in Ids, k \in Nat : ~Going(d, k)
  /\ \A d, e \in Ids, j, k \in Nat : Going(d, j) /\ Going(e, k) => d = e /\ j = k

\* What is in progress by Going is what InProgress has.
LEMMA GoingInProgress ==
  ASSUME Typing
  PROVE  /\ InProgress \subseteq Ids \X Nat
         /\ \A d \in Ids, k \in Nat : Going(d, k) <=> <<d, k>> \in InProgress
<1>1. \A d \in Existing : d \in Ids /\ DOMAIN executions[d] \subseteq Nat
  BY SMT DEF Typing, Existing
<1>2. QED
  BY SMT, <1>1 DEF InProgress, Going

\* The checks under the lock of the transfer see everything in progress.
LEMMA CheckedNothingGoes ==
  ASSUME CheckTransferRunningExecutions
  PROVE  \A d \in Ids, k \in Nat : ~Going(d, k)
BY DEF CheckTransferRunningExecutions, CheckRunningTransferDeployments, Active, Going

\* What goes on has been going on, but for one execution where there was none.
Continues ==
  \/ /\ \A d \in Ids, k \in Nat : Going(d, k)' => Going(d, k)
     /\ launching' # Nothing
          => launching # Nothing \/ \A d \in Ids, k \in Nat : ~Going(d, k)
  \/ /\ \A d \in Ids, k \in Nat : ~Going(d, k)
     /\ launching' = Nothing
     /\ \E e \in Ids, j \in Nat :
          \A d \in Ids, k \in Nat : Going(d, k)' => d = e /\ k = j

\* In every step, executions in progress are so before it or are the only one.
LEMMA ContinuesStep ==
  ASSUME Typing, Known, Exclusive, [Next]_vars
  PROVE  Continues
<1>1. ASSUME NEW d \in Ids, ExecuteTransferTasks(d)
       PROVE  Continues
  <2>1. \A e \in Ids, k \in Nat : ~Going(e, k)
    BY <1>1, CheckedNothingGoes DEF ExecuteTransferTasks
  <2>2. \A e \in Ids, k \in Nat : Going(e, k)' => e = d /\ k = 0
    BY <1>1, <2>1 DEF ExecuteTransferTasks, Going, Existing, Typing
  <2>3. QED
    BY <1>1, <2>1, <2>2 DEF Continues, ExecuteTransferTasks
<1>2. ASSUME NEW d \in Ids, DeployTransferInstances(d)
       PROVE  Continues
  <2>1. \A e \in Ids, k \in Nat : ~Going(e, k)
    BY <1>2, CheckedNothingGoes DEF DeployTransferInstances, ValidateDeploymentInputs
  <2>2. \A e \in Ids, k \in Nat : Going(e, k)' => Going(e, k)
    <3>1. executions[d] = <<>>
      BY <1>2 DEF Known, DeployTransferInstances, Unused
    <3>2. \A k \in DOMAIN executions'[d] : executions'[d][k] = "UNEXECUTED"
      BY SMT, <1>2, <3>1, AddExecutionEffect DEF Typing, DeployTransferInstances
    <3>3. \A e \in Ids : e # d => /\ executions'[e] = executions[e]
                                  /\ deployment'[e] = deployment[e]
      BY SMT, <1>2, AddExecutionEffect DEF Typing, DeployTransferInstances
    <3>4. UNCHANGED deployer
      BY <1>2 DEF DeployTransferInstances
    <3>5. QED
      BY <3>2, <3>3, <3>4, StatusFacts DEF Going, Existing
  <2>3. QED
    BY <2>1, <2>2 DEF Continues
<1>3. ASSUME NEW d \in Ids, DeleteTransferTasksExecution(d)
       PROVE  Continues
  BY SMT, <1>3, StatusFacts DEF Continues, DeleteTransferTasksExecution, Going, Existing, Typing
<1>4. ASSUME NEW d \in Ids, DeleteDeployment(d)
       PROVE  Continues
  BY <1>4 DEF Continues, DeleteDeployment, Going, Existing, Typing
<1>5. ASSUME NEW d \in Ids, CancelAwaiting(d)
       PROVE  Continues
  <2>1. /\ DOMAIN executions[d] = {1} /\ DOMAIN executions'[d] = {1}
        /\ executions'[d][1] = "CANCELED"
        /\ \A e \in Ids : e # d => /\ executions'[e] = executions[e]
                                   /\ deployment'[e] = deployment[e]
    BY SMT, <1>5, SetExecutionEffect, StatusFacts DEF Typing, CancelAwaiting, SetStatus
  <2>2. \A e \in Ids, k \in Nat : Going(e, k)' => Going(e, k)
    BY <1>5, <2>1, StatusFacts DEF CancelAwaiting, Going, Existing
  <2>3. QED
    BY <1>5, <2>2 DEF Continues, CancelAwaiting
<1>6. ASSUME NEW d \in Ids, ExecuteAutoDeployment(d)
       PROVE  Continues
  <2>1. executions[d] = <<>>
    BY <1>6 DEF Known, Typing, ExecuteAutoDeployment
  <2>2. \A e \in Ids, k \in Nat : Going(e, k)' => Going(e, k)
    BY SMT, <1>6, <2>1 DEF Typing, ExecuteAutoDeployment, Going, Existing
  <2>3. QED
    BY <1>6, <2>2 DEF Continues, ExecuteAutoDeployment
<1>7. ASSUME NEW d \in Ids, MinionManagerCalls(d)
       PROVE  Continues
  <2>1. CASE UNCHANGED <<executions, deployment>>
    BY <1>7, <2>1 DEF Continues, MinionManagerCalls, Going, Existing
  <2>2. CASE /\ deployment[d] = Awaiting /\ Len(executions[d]) = 1
             /\ \E s \in {"RUNNING", "ERROR_ALLOCATING_MINIONS"} : SetStatus(d, 1, s)
    <3>1. DOMAIN executions[d] = {1}
      BY SMT, <2>2 DEF Typing
    <3>2. Going(d, 1)
      BY <2>2, <3>1, StatusFacts DEF Exclusive, Going, Existing
    <3>3. /\ DOMAIN executions'[d] = {1}
          /\ \A e \in Ids : e # d => /\ executions'[e] = executions[e]
                                     /\ deployment'[e] = deployment[e]
      BY SMT, <2>2, <3>1, SetExecutionEffect, StatusFacts DEF Typing, SetStatus
    <3>4. \A e \in Ids, k \in Nat : Going(e, k)' => Going(e, k)
      BY SMT, <1>7, <3>2, <3>3 DEF MinionManagerCalls, Going, Existing
    <3>5. QED
      BY <1>7, <3>4 DEF Continues, MinionManagerCalls
  <2>3. QED
    BY <1>7, <2>1, <2>2 DEF MinionManagerCalls
<1>8. ASSUME NEW d \in Ids, TransferExecutionMoves(d)
       PROVE  Continues
  <2>1. /\ deployer[d] \in ACTIVE_EXECUTION_STATUSES
        /\ \A e \in Ids : e # d => deployer'[e] = deployer[e]
    BY <1>8, StatusFacts DEF TransferExecutionMoves, Typing
  <2>2. QED
    BY <1>8, <2>1 DEF Continues, TransferExecutionMoves, Going, Existing
<1>9. ASSUME NEW d \in Ids, NEW k \in DOMAIN executions[d], DeploymentExecutionMoves(d, k)
       PROVE  Continues
  <2>1. \E s \in {"CANCELLING", "COMPLETED", "CANCELED", "ERROR"} : SetStatus(d, k, s)
    BY <1>9 DEF DeploymentExecutionMoves
  <2>2. /\ \A e \in Ids : e # d => /\ executions'[e] = executions[e]
                                   /\ deployment'[e] = deployment[e]
        /\ DOMAIN executions'[d] = DOMAIN executions[d]
        /\ \A j \in DOMAIN executions[d] : j # k => executions'[d][j] = executions[d][j]
    BY SMT, <2>1, SetExecutionEffect, StatusFacts DEF Typing, SetStatus
  <2>3. d \in Existing /\ Going(d, k)
    BY SMT, <1>9, StatusFacts DEF DeploymentExecutionMoves, Known, Going, Existing, Typing
  <2>4. \A e \in Ids, j \in Nat : Going(e, j)' => Going(e, j)
    BY <1>9, <2>2, <2>3 DEF DeploymentExecutionMoves, Going, Existing
  <2>5. QED
    BY <1>9, <2>4 DEF Continues, DeploymentExecutionMoves
<1>10. ASSUME NEW d \in Ids, NEW k \in 0..Len(executions[d]), LeftTasksEnd(d, k)
        PROVE  Continues
  BY <1>10 DEF LeftTasksEnd, Continues, Going, Existing
<1>11. ASSUME NEW c \in calls, ConfirmDeployerCompleted(c)
        PROVE  Continues
  BY <1>11 DEF ConfirmDeployerCompleted, Answer, conductor, Continues, Going,
     Existing
<1>12. ASSUME NEW c \in calls, ExecuteDeployment(c)
        PROVE  Continues
  <2>1. c.d \in Ids
    BY <1>12 DEF Typing, Calls
  <2>2. CASE ValidateDeploymentInputs(FALSE)
    <3>1. \A e \in Ids, k \in Nat : ~Going(e, k)
      BY <2>2, CheckedNothingGoes DEF ValidateDeploymentInputs
    <3>2. /\ \A e \in Ids : e # c.d => executions'[e] = executions[e]
          /\ \A k \in DOMAIN executions'[c.d] :
               \/ executions'[c.d][k] = "UNEXECUTED"
               \/ k \in DOMAIN executions[c.d] /\ executions'[c.d][k] = executions[c.d][k]
      BY SMT, <1>12, <2>1, <2>2, AddExecutionEffect DEF Typing, ExecuteDeployment
    <3>3. \A e \in Ids, k \in Nat : Going(e, k)' => Going(e, k)
      BY <1>12, <2>1, <2>2, <3>2, StatusFacts DEF ExecuteDeployment, Going, Existing
    <3>4. QED
      BY <3>1, <3>3 DEF Continues
  <2>3. CASE ~ValidateDeploymentInputs(FALSE)
    <3>1. \A e \in Ids : deployment'[e] \in {"none", "deleted"}
                           <=> deployment[e] \in {"none", "deleted"}
      BY SMT, <1>12, <2>1, <2>3 DEF Typing, Known, ExecuteDeployment, SetActionStatus
    <3>2. QED
      BY <1>12, <2>3, <3>1 DEF Continues, ExecuteDeployment, Going, Existing
  <2>4. QED
    BY <2>2, <2>3
<1>13. ASSUME NEW c \in calls, ReportDeployerFailure(c)
        PROVE  Continues
  <2>1. c.d \in Ids
    BY <1>13 DEF Typing, Calls
  <2>2. \A e \in Ids : deployment'[e] \in {"none", "deleted"}
                         <=> deployment[e] \in {"none", "deleted"}
    BY <1>13, <2>1 DEF Typing, Known, ReportDeployerFailure, SetActionStatus
  <2>3. QED
    BY <1>13, <2>2 DEF Continues, ReportDeployerFailure, Going, Existing
<1>14. CASE BeginTasks
  <2> DEFINE d == launching.d
             k == Len(executions[d])
  <2>1. d \in Ids /\ k \in DOMAIN executions[d] /\ k \in Nat
    BY SMT, <1>14 DEF Typing, BeginTasks
  <2>2. \A e \in Ids, j \in Nat : ~Going(e, j)
    BY <1>14 DEF BeginTasks, Exclusive
  <2>3. \E s \in {Awaiting, "RUNNING"} : SetStatus(d, k, s)
    BY <1>14 DEF BeginTasks
  <2>4. /\ \A e \in Ids : e # d => /\ executions'[e] = executions[e]
                                   /\ deployment'[e] = deployment[e]
        /\ DOMAIN executions'[d] = DOMAIN executions[d]
        /\ \A j \in DOMAIN executions[d] : j # k => executions'[d][j] = executions[d][j]
    BY SMT, <2>1, <2>3, SetExecutionEffect, StatusFacts DEF Typing, SetStatus
  <2>5. d \in Existing
    BY <1>14, <2>1 DEF BeginTasks, Known, Existing
  <2>6. \A e \in Ids, j \in Nat : Going(e, j)' => e = d /\ j = k
    <3> HIDE DEF d, k
    <3>1. QED
      BY <1>14, <2>2, <2>4, <2>5 DEF BeginTasks, Going, Existing
  <2>7. launching' = Nothing
    BY <1>14 DEF BeginTasks, Launched
  <2>8. QED
    <3> HIDE DEF d, k
    <3>1. QED
      BY <2>1, <2>2, <2>6, <2>7 DEF Continues
<1>15. CASE BeginDeleted
  BY <1>15 DEF Continues, BeginDeleted, Launched, Going, Existing
<1>16. CASE BeginTasksFails
  <2> DEFINE d == launching.d
             k == Len(executions[d])
  <2>1. d \in Ids /\ k \in DOMAIN executions[d] /\ k \in Nat
    BY SMT, <1>16 DEF Typing, BeginTasksFails
  <2>2. \A e \in Ids, j \in Nat : ~Going(e, j)
    BY <1>16 DEF BeginTasksFails, Exclusive
  <2>3. \E s \in {"UNEXECUTED", "DEADLOCKED"} :
          /\ executions' = [executions EXCEPT ![d][k] = s]
          /\ deployment' = [deployment EXCEPT
                              ![d] = IF launching.op = "launch" THEN "ERROR" ELSE s]
    BY <1>16 DEF BeginTasksFails
  <2>4. /\ \A e \in Ids : e # d => /\ executions'[e] = executions[e]
                                   /\ deployment'[e] = deployment[e]
        /\ DOMAIN executions'[d] = DOMAIN executions[d]
        /\ \A j \in DOMAIN executions[d] : j # k => executions'[d][j] = executions[d][j]
    BY SMT, <2>1, <2>3, SetExecutionEffect, StatusFacts DEF Typing
  <2>5. d \in Existing
    BY <1>16, <2>1 DEF BeginTasksFails, Known, Existing
  <2>6. \A e \in Ids, j \in Nat : Going(e, j)' => e = d /\ j = k
    <3> HIDE DEF d, k
    <3>1. QED
      BY <1>16, <2>2, <2>4, <2>5 DEF BeginTasksFails, Going, Existing
  <2>7. launching' = Nothing
    BY <1>16 DEF BeginTasksFails, Launched
  <2>8. QED
    <3> HIDE DEF d, k
    <3>1. QED
      BY <2>1, <2>2, <2>6, <2>7 DEF Continues
<1>17. CASE ListPending
  BY <1>17 DEF ListPending, Pending, conductor, Continues, Going, Existing
<1>18. CASE LoopEnds
  BY <1>18 DEF LoopEnds, conductor, Continues, Going, Existing
<1>19. ASSUME NEW d \in Ids, CheckDeployerStatus(d)
        PROVE  Continues
  BY <1>19 DEF CheckDeployerStatus, Sends, conductor, Continues, Going, Existing
<1>20. CASE WaitForStatusChange
  BY <1>20 DEF WaitForStatusChange, conductor, Continues, Going, Existing
<1>21. CASE ReportFailure
  BY <1>21 DEF ReportFailure, Sends, conductor, Continues, Going, Existing
<1>22. CASE TimesOut
  BY <1>22 DEF TimesOut, Fails, conductor, Continues, Going, Existing
<1>23. CASE Restart
  BY <1>23 DEF Restart, Fails, conductor, Continues, Going, Existing
<1>24. CASE UNCHANGED vars
  BY <1>24 DEF vars, conductor, Continues, Going, Existing
<1>25. QED
  BY <1>1, <1>2, <1>3, <1>4, <1>5, <1>6, <1>7, <1>8, <1>9, <1>10, <1>11, <1>12,
     <1>13, <1>14, <1>15, <1>16, <1>17, <1>18, <1>19, <1>20, <1>21, <1>22, <1>23,
     <1>24 DEF Next, Users, Ends, Handle, Launch, Manager

\* The steps which change what is recorded of the executions or who works at the disks.
LEMMA RecordSteps ==
  ASSUME [Next]_vars
  PROVE  \/ UNCHANGED <<deployer, deployment, executions, working>>
         \/ \E d \in Ids : \/ ExecuteTransferTasks(d)
                           \/ TransferExecutionMoves(d)
                           \/ DeleteTransferTasksExecution(d)
                           \/ DeployTransferInstances(d)
                           \/ DeleteDeployment(d)
                           \/ CancelAwaiting(d)
                           \/ ExecuteAutoDeployment(d)
                           \/ MinionManagerCalls(d)
                           \/ \E k \in DOMAIN executions[d] : DeploymentExecutionMoves(d, k)
                           \/ \E k \in 0..Len(executions[d]) : LeftTasksEnd(d, k)
         \/ \E c \in calls : ExecuteDeployment(c) \/ ReportDeployerFailure(c)
         \/ BeginTasks \/ BeginDeleted \/ BeginTasksFails
<1>1. ASSUME \/ \E c \in calls : ConfirmDeployerCompleted(c)
             \/ Manager \/ TimesOut \/ Restart \/ UNCHANGED vars
      PROVE  UNCHANGED <<deployer, deployment, executions, working>>
  BY <1>1 DEF ConfirmDeployerCompleted, Manager, ListPending, LoopEnds,
     CheckDeployerStatus, WaitForStatusChange, ReportFailure, TimesOut, Restart, vars,
     conductor
<1>2. QED
  BY <1>1 DEF Next, Users, Ends, Handle, Launch

\* A deployment which awaits minion machines does so with its last execution.
LastAwaits(d) ==
  deployment[d] = Awaiting => /\ executions[d] # <<>>
                              /\ executions[d][Len(executions[d])] = Awaiting

\* Every step keeps it: no execution is added behind one which awaits.
LEMMA LastAwaitsStep ==
  ASSUME Typing, Known, Exclusive, [Next]_vars, NEW e \in Ids
  PROVE  LastAwaits(e)'
<1>0. LastAwaits(e)
  BY DEF Exclusive, LastAwaits
<1>1. CASE UNCHANGED <<deployment, executions>>
  BY <1>0, <1>1 DEF LastAwaits
<1>2. ASSUME \/ \E d \in Ids : \/ ExecuteTransferTasks(d)
                               \/ TransferExecutionMoves(d)
                               \/ DeleteTransferTasksExecution(d)
                               \/ \E k \in 0..Len(executions[d]) : LeftTasksEnd(d, k)
             \/ BeginDeleted
      PROVE  LastAwaits(e)'
  BY <1>1, <1>2 DEF ExecuteTransferTasks, TransferExecutionMoves,
     DeleteTransferTasksExecution, LeftTasksEnd, BeginDeleted
<1>3. ASSUME NEW d \in Ids, DeployTransferInstances(d)
      PROVE  LastAwaits(e)'
  <2>1. /\ deployment' = [deployment EXCEPT ![d] = "UNEXECUTED"]
        /\ \A f \in Ids : f # d => executions'[f] = executions[f]
    BY <1>3, AddExecutionEffect DEF DeployTransferInstances, Typing
  <2>2. QED
    BY <1>0, <2>1, StatusFacts DEF LastAwaits, Typing
<1>4. ASSUME NEW d \in Ids, DeleteDeployment(d) \/ ExecuteAutoDeployment(d)
      PROVE  LastAwaits(e)'
  BY <1>0, <1>4, StatusFacts
  DEF LastAwaits, DeleteDeployment, ExecuteAutoDeployment, Typing
<1>5. ASSUME NEW d \in Ids, NEW k \in DOMAIN executions[d], NEW s \in ExecutionStatuses,
             SetStatus(d, k, s), s # Awaiting
      PROVE  LastAwaits(e)'
  <2>1. \A f \in Ids : f # d => executions'[f] = executions[f]
    BY <1>5, SetExecutionEffect DEF SetStatus, Typing
  <2>2. QED
    BY <1>0, <1>5, <2>1 DEF LastAwaits, Typing, SetStatus
<1>6. ASSUME NEW d \in Ids, CancelAwaiting(d)
      PROVE  LastAwaits(e)'
  <2>1. 1 \in DOMAIN executions[d] /\ SetStatus(d, 1, "CANCELED")
    BY SMT, <1>6 DEF CancelAwaiting
  <2>2. QED
    BY <1>5, <2>1, StatusFacts
<1>7. ASSUME NEW d \in Ids, MinionManagerCalls(d)
      PROVE  LastAwaits(e)'
  <2>1. Len(executions[d]) = 1 => 1 \in DOMAIN executions[d]
    BY SMT DEF Typing
  <2>2. \/ UNCHANGED <<deployment, executions>>
        \/ /\ 1 \in DOMAIN executions[d]
           /\ \E s \in {"RUNNING", "ERROR_ALLOCATING_MINIONS"} : SetStatus(d, 1, s)
    BY <1>7, <2>1 DEF MinionManagerCalls
  <2>3. QED
    BY <1>1, <1>5, <2>2, StatusFacts DEF Awaiting
<1>8. ASSUME NEW d \in Ids, NEW k \in DOMAIN executions[d], DeploymentExecutionMoves(d, k)
      PROVE  LastAwaits(e)'
  <2>1. \E s \in {"CANCELLING", "COMPLETED", "CANCELED", "ERROR"} : SetStatus(d, k, s)
    BY <1>8 DEF DeploymentExecutionMoves
  <2>2. QED
    BY <1>5, <2>1, StatusFacts DEF Awaiting
<1>9. ASSUME NEW c \in calls, ExecuteDeployment(c)
      PROVE  LastAwaits(e)'
  <2>1. c.d \in Ids
    BY DEF Typing, Calls
  <2>2. CASE ValidateDeploymentInputs(FALSE)
    <3>1. ~(deployment[c.d] = Awaiting)
      <4>1. \A k \in Nat : ~Going(c.d, k)
        BY <2>1, <2>2, CheckedNothingGoes DEF ValidateDeploymentInputs
      <4>2. deployment[c.d] = Awaiting => Going(c.d, Len(executions[c.d]))
        BY SMT, <2>1, StatusFacts DEF Exclusive, Going, Existing, Typing
      <4>3. QED
        BY SMT, <2>1, <4>1, <4>2 DEF Typing
    <3>2. UNCHANGED deployment /\ \A f \in Ids : f # c.d => executions'[f] = executions[f]
      BY <1>9, <2>1, <2>2, AddExecutionEffect DEF ExecuteDeployment, Typing
    <3>3. QED
      BY <1>0, <3>1, <3>2 DEF LastAwaits
  <2>3. CASE ~ValidateDeploymentInputs(FALSE)
    BY SMT, <1>0, <1>9, <2>1, <2>3, StatusFacts
    DEF LastAwaits, ExecuteDeployment, SetActionStatus, Typing
  <2>4. QED
    BY <2>2, <2>3
<1>10. ASSUME NEW c \in calls, ReportDeployerFailure(c)
      PROVE  LastAwaits(e)'
  <2>1. c.d \in Ids
    BY DEF Typing, Calls
  <2>2. QED
    BY <1>0, <1>10, <2>1, StatusFacts
    DEF LastAwaits, ReportDeployerFailure, SetActionStatus, Typing
<1>11. CASE BeginTasks
  <2> DEFINE d == launching.d
             k == Len(executions[d])
  <2>1. d \in Ids /\ k \in DOMAIN executions[d] /\ k \in Nat
    BY SMT, <1>11 DEF Typing, BeginTasks
  <2>2. PICK s \in {Awaiting, "RUNNING"} : SetStatus(d, k, s)
    BY <1>11 DEF BeginTasks
  <2>3. /\ \A f \in Ids : f # d => /\ executions'[f] = executions[f]
                                   /\ deployment'[f] = deployment[f]
        /\ executions'[d][k] = s /\ Len(executions'[d]) = k /\ executions'[d] # <<>>
    BY SMT, <2>1, <2>2, SetExecutionEffect, StatusFacts DEF Typing, SetStatus
  <2>4. deployment'[d] = s
    BY <2>1, <2>2 DEF Typing, SetStatus
  <2>5. QED
    BY <1>0, <2>3, <2>4 DEF LastAwaits
<1>12. CASE BeginTasksFails
  <2> DEFINE d == launching.d
             k == Len(executions[d])
  <2>1. d \in Ids /\ k \in DOMAIN executions[d] /\ k \in Nat
    BY SMT, <1>12 DEF Typing, BeginTasksFails
  <2>2. PICK s \in {"UNEXECUTED", "DEADLOCKED"} :
          /\ executions' = [executions EXCEPT ![d][k] = s]
          /\ deployment' = [deployment EXCEPT
                              ![d] = IF launching.op = "launch" THEN "ERROR" ELSE s]
    BY <1>12 DEF BeginTasksFails
  <2>3. \A f \in Ids : f # d => executions'[f] = executions[f]
    BY <2>1, <2>2, SetExecutionEffect, StatusFacts DEF Typing
  <2>4. QED
    BY SMT, <1>0, <2>1, <2>2, <2>3, StatusFacts DEF LastAwaits, Typing
<1>13. QED
  BY <1>1, <1>3, <1>4, <1>6, <1>7, <1>8, <1>9, <1>10, <1>11, <1>12, <1>2,
     RecordSteps

\* Every step keeps executions apart.
LEMMA ExclusiveStep ==
  ASSUME Typing, Known, Exclusive, [Next]_vars
  PROVE  Exclusive'
<1>1. \A d \in Ids : LastAwaits(d)'
  BY LastAwaitsStep
<1>2. Continues
  BY ContinuesStep
<1>3. launching' # Nothing => \A d \in Ids, k \in Nat : ~Going(d, k)'
  BY <1>2 DEF Continues, Exclusive
<1>4. \A d, e \in Ids, j, k \in Nat : Going(d, j)' /\ Going(e, k)' => d = e /\ j = k
  BY <1>2 DEF Continues, Exclusive
<1>5. QED
  BY <1>1, <1>3, <1>4 DEF Exclusive, LastAwaits

\* An execution whose tasks have been started by its status.
Started(d, k) ==
  \/ k = 0 /\ deployer[d] \in {"RUNNING", "CANCELLING"}
  \/ /\ d \in Existing
     /\ k \in DOMAIN executions[d]
     /\ executions[d][k] \in {"RUNNING", "CANCELLING"}

\* Tasks are at workers for executions which there are; as long as nothing disturbs
\* them, these are in progress.
Workings ==
  \A w \in working :
    /\ w \in Ids \X Nat /\ w[2] <= Len(executions[w[1]])
    /\ Undisturbed => Started(w[1], w[2])

\* A failure is never forgotten, and the options of the deployments stay.
LEMMA FaultsStep ==
  ASSUME Typing, [Next]_vars
  PROVE  UNCHANGED pooled /\ (faults' = MaxFaults => faults = MaxFaults)
<1>1. CASE UNCHANGED <<pooled, faults>>
  BY <1>1
<1>2. CASE UNCHANGED pooled /\ \E f : Fails(f)
  BY <1>2, FailsEffect DEF Typing
<1>3. ASSUME NEW d \in Ids, ExecuteTransferTasks(d)
      PROVE  UNCHANGED <<pooled, faults>> \/ (UNCHANGED pooled /\ \E f : Fails(f))
  BY <1>3 DEF ExecuteTransferTasks, BeginFails
<1>4. ASSUME BeginTasksFails \/ TimesOut \/ Restart
      PROVE  UNCHANGED pooled /\ \E f : Fails(f)
  BY ZenonT(40), <1>4 DEF BeginTasksFails, BeginFails, TimesOut, Restart, conductor
<1>5. ASSUME NEW d \in Ids,
             \/ DeployTransferInstances(d) \/ DeleteTransferTasksExecution(d)
             \/ DeleteDeployment(d) \/ CancelAwaiting(d) \/ ExecuteAutoDeployment(d)
             \/ MinionManagerCalls(d) \/ Ends(d)
      PROVE  UNCHANGED <<pooled, faults>>
  BY <1>5 DEF DeployTransferInstances, DeleteTransferTasksExecution, DeleteDeployment,
     CancelAwaiting, ExecuteAutoDeployment, MinionManagerCalls, Ends,
     TransferExecutionMoves, DeploymentExecutionMoves, LeftTasksEnd
<1>6. ASSUME \/ \E c \in calls : Handle(c)
             \/ BeginTasks \/ BeginDeleted \/ Manager \/ UNCHANGED vars
      PROVE  UNCHANGED <<pooled, faults>>
  BY ZenonT(40), <1>6 DEF Handle, ConfirmDeployerCompleted, ExecuteDeployment,
     ReportDeployerFailure, BeginTasks, BeginDeleted, Manager, ListPending, LoopEnds, CheckDeployerStatus,
     WaitForStatusChange, ReportFailure, vars, conductor
<1>7. QED
  BY <1>1, <1>2, <1>3, <1>4, <1>5, <1>6 DEF Next, Users, Launch

\* What was set the status of exists, and what is deleted stays so.
LEMMA DeletedStays ==
  ASSUME Typing, Known, [Next]_vars, NEW e \in Ids, deployment[e] = "deleted"
  PROVE  deployment'[e] = "deleted"
<1>1. ASSUME NEW d \in Ids,
             \/ ExecuteTransferTasks(d) \/ TransferExecutionMoves(d)
             \/ DeleteTransferTasksExecution(d) \/ DeployTransferInstances(d)
             \/ DeleteDeployment(d) \/ CancelAwaiting(d) \/ ExecuteAutoDeployment(d)
             \/ \E k \in DOMAIN executions[d] : DeploymentExecutionMoves(d, k)
             \/ \E k \in 0..Len(executions[d]) : LeftTasksEnd(d, k)
      PROVE  deployment'[e] = "deleted"
  BY ZenonT(40), <1>1 DEF Typing, Known, Unused, ExecuteTransferTasks, TransferExecutionMoves,
     DeleteTransferTasksExecution, DeployTransferInstances, DeleteDeployment,
     CancelAwaiting, ExecuteAutoDeployment, DeploymentExecutionMoves, LeftTasksEnd,
     SetStatus
<1>2. ASSUME NEW d \in Ids, MinionManagerCalls(d)
      PROVE  deployment'[e] = "deleted"
  BY <1>2, StatusFacts DEF Typing, MinionManagerCalls, SetStatus
<1>3. ASSUME NEW c \in calls, ExecuteDeployment(c) \/ ReportDeployerFailure(c)
      PROVE  deployment'[e] = "deleted"
  BY <1>3 DEF Typing, ExecuteDeployment, ReportDeployerFailure, SetActionStatus
<1>4. ASSUME BeginTasks \/ BeginDeleted \/ BeginTasksFails
      PROVE  deployment'[e] = "deleted"
  BY ZenonT(40), <1>4 DEF Typing, BeginTasks, BeginDeleted, BeginTasksFails, SetStatus
<1>5. QED
  BY <1>1, <1>2, <1>3, <1>4, RecordSteps

\* Once something is disturbed it stays so.
LEMMA UndisturbedBefore ==
  ASSUME Typing, Known, [Next]_vars, Undisturbed'
  PROVE  Undisturbed
BY FaultsStep, DeletedStays DEF Undisturbed, Typing

\* In a step an execution with tasks at work stays started, and what is new at work is.
KeptAtWork(w) ==
  \/ /\ w \in working /\ Len(executions[w[1]]) <= Len(executions'[w[1]])
     /\ Undisturbed' /\ Started(w[1], w[2]) => Started(w[1], w[2])'
  \/ /\ w \in Ids \X Nat /\ w[2] <= Len(executions'[w[1]])
     /\ Undisturbed' => Started(w[1], w[2])'

\* Tasks are only started with the status set to RUNNING, which they leave when they
\* end, unless something is disturbed.
LEMMA KeptAtWorkStep ==
  ASSUME Typing, Known, Exclusive, Workings, [Next]_vars, NEW w \in working'
  PROVE  KeptAtWork(w)
<1> USE DEF KeptAtWork
<1>1. /\ w \in working => w \in Ids \X Nat
      /\ \A e \in Ids : Len(executions[e]) \in Nat /\ 0 \notin DOMAIN executions[e]
  BY SMT DEF Workings, Typing
<1>2. CASE UNCHANGED <<deployer, deployment, executions, working>>
  BY SMT, <1>1, <1>2 DEF Started, Existing
<1>3. ASSUME NEW d \in Ids, ExecuteTransferTasks(d)
      PROVE  KeptAtWork(w)
  <2>1. /\ UNCHANGED <<executions, deployment>> /\ deployer[d] = "none"
        /\ \A e \in Ids : e # d => deployer'[e] = deployer[e]
    BY <1>3 DEF ExecuteTransferTasks, Unused, Typing
  <2>2. CASE w \in working
    BY SMT, <1>1, <2>1, <2>2 DEF Started, Existing
  <2>3. CASE w \notin working
    <3>1. w = <<d, 0>> /\ (deployer'[d] = "RUNNING" \/ Fails("no_worker"))
      BY <1>3, <2>3 DEF ExecuteTransferTasks, BeginFails, Typing
    <3>2. Undisturbed' => Started(d, 0)'
      BY <3>1, FailsEffect DEF Undisturbed, Started, Typing
    <3>3. QED
      BY SMT, <1>1, <2>1, <3>1, <3>2
  <2>4. QED
    BY <2>2, <2>3
<1>4. ASSUME NEW d \in Ids, TransferExecutionMoves(d)
      PROVE  KeptAtWork(w)
  <2>1. /\ w \in working /\ UNCHANGED <<executions, deployment>>
        /\ \A e \in Ids : e # d => deployer'[e] = deployer[e]
        /\ deployer'[d] = "CANCELLING" \/ w # <<d, 0>>
    BY <1>4 DEF TransferExecutionMoves, Typing
  <2>2. Started(w[1], w[2]) => Started(w[1], w[2])'
    BY SMT, <1>1, <2>1 DEF Started, Existing
  <2>3. QED
    BY SMT, <1>1, <2>1, <2>2
<1>5. ASSUME NEW d \in Ids, DeleteTransferTasksExecution(d) \/ ExecuteAutoDeployment(d)
      PROVE  KeptAtWork(w)
  <2>1. /\ w \in working /\ UNCHANGED executions
        /\ \A e \in Ids : deployer[e] \in {"RUNNING", "CANCELLING"}
                            => deployer'[e] = deployer[e]
        /\ \A e \in Ids : deployment[e] \notin {"none", "deleted"}
                            => deployment'[e] \notin {"none", "deleted"}
    BY <1>5, StatusFacts DEF DeleteTransferTasksExecution, ExecuteAutoDeployment, Typing
  <2>2. QED
    BY SMT, <1>1, <2>1 DEF Started, Existing
<1>6. ASSUME NEW d \in Ids, DeployTransferInstances(d)
      PROVE  KeptAtWork(w)
  <2>1. /\ w \in working /\ UNCHANGED deployer
        /\ deployment' = [deployment EXCEPT ![d] = "UNEXECUTED"]
    BY <1>6 DEF DeployTransferInstances
  <2>2. /\ \A e \in Ids : e # d => executions'[e] = executions[e]
        /\ Len(executions'[d]) = Len(executions[d]) + 1 /\ deployment[d] = "none"
    BY <1>6, AddExecutionEffect DEF DeployTransferInstances, Unused, Typing
  <2>3. QED
    BY SMT, <1>1, <2>1, <2>2 DEF Started, Existing, Typing
<1>7. ASSUME NEW d \in Ids, DeleteDeployment(d)
      PROVE  KeptAtWork(w)
  <2>1. /\ w \in working /\ UNCHANGED <<deployer, executions>> /\ ~Active(d)
        /\ deployment' = [deployment EXCEPT ![d] = "deleted"]
    BY <1>7 DEF DeleteDeployment
  <2>2. QED
    BY SMT, <1>1, <2>1, StatusFacts DEF Started, Existing, Typing, Active
<1>8. ASSUME NEW d \in Ids, CancelAwaiting(d)
      PROVE  KeptAtWork(w)
  <2>1. /\ w \in working /\ UNCHANGED deployer /\ executions[d] = <<Awaiting>>
        /\ SetStatus(d, 1, "CANCELED")
    BY <1>8 DEF CancelAwaiting
  <2>2. /\ \A e \in Ids : Len(executions'[e]) = Len(executions[e])
        /\ \A e \in Ids : e # d => /\ executions'[e] = executions[e]
                                   /\ deployment'[e] = deployment[e]
    BY SMT, <2>1, SetExecutionEffect, StatusFacts DEF SetStatus, Typing
  <2>3. ~Started(d, w[2]) \/ w[2] = 0
    BY SMT, <2>1 DEF Started, Awaiting
  <2>4. QED
    BY SMT, <1>1, <2>1, <2>2, <2>3 DEF Started, Existing
<1>9. ASSUME NEW d \in Ids, MinionManagerCalls(d)
      PROVE  KeptAtWork(w)
  <2>1. UNCHANGED deployer
    BY <1>9 DEF MinionManagerCalls
  <2>2. CASE UNCHANGED <<executions, deployment, working>>
    BY SMT, <1>1, <2>1, <2>2 DEF Started, Existing
  <2>3. CASE /\ deployment[d] = Awaiting /\ Len(executions[d]) = 1
             /\ \E s \in {"RUNNING", "ERROR_ALLOCATING_MINIONS"} :
                  /\ SetStatus(d, 1, s)
                  /\ working' = working \/ (s = "RUNNING" /\ working' = working \cup {<<d, 1>>})
    <3>1. PICK s \in {"RUNNING", "ERROR_ALLOCATING_MINIONS"} :
                  /\ SetStatus(d, 1, s)
                  /\ working' = working \/ (s = "RUNNING" /\ working' = working \cup {<<d, 1>>})
      BY <2>3
    <3>2. 1 \in DOMAIN executions[d] /\ DOMAIN executions[d] = {1} /\ executions[d][1] = Awaiting
      BY SMT, <2>3 DEF Exclusive, Typing
    <3>3. /\ \A e \in Ids : /\ Len(executions'[e]) = Len(executions[e])
                            /\ DOMAIN executions'[e] = DOMAIN executions[e]
          /\ \A e \in Ids : e # d => executions'[e] = executions[e]
          /\ executions'[d][1] = s
      BY SMT, <3>1, <3>2, SetExecutionEffect, StatusFacts DEF SetStatus, Typing
    <3>4. /\ \A e \in Ids : e # d => deployment'[e] = deployment[e]
          /\ deployment'[d] = s
      BY <3>1 DEF SetStatus, Typing
    <3>5. CASE w \in working
      <4>1. CASE w[1] # d
        BY SMT, <1>1, <2>1, <3>3, <3>4, <3>5, <4>1 DEF Started, Existing
      <4>2. CASE w[1] = d
        <5>1. Started(d, w[2]) => w[2] = 0
          BY <3>2 DEF Started, Awaiting
        <5>2. Started(w[1], w[2]) => Started(w[1], w[2])'
          BY <1>1, <2>1, <4>2, <5>1 DEF Started
        <5>3. QED
          BY SMT, <1>1, <3>3, <3>5, <5>2
      <4>3. QED
        BY <4>1, <4>2
    <3>6. CASE w \notin working
      <4>1. w = <<d, 1>> /\ s = "RUNNING"
        BY <3>1, <3>6
      <4>2. Started(d, 1)'
        BY <3>2, <3>3, <3>4, <4>1 DEF Started, Existing
      <4>3. QED
        BY SMT, <1>1, <2>3, <3>3, <4>1, <4>2
    <3>7. QED
      BY <3>5, <3>6
  <2>4. QED
    BY <1>9, <2>2, <2>3 DEF MinionManagerCalls
<1>10. ASSUME NEW d \in Ids, NEW k \in DOMAIN executions[d], DeploymentExecutionMoves(d, k)
       PROVE  KeptAtWork(w)
  <2>1. PICK s \in {"CANCELLING", "COMPLETED", "CANCELED", "ERROR"} :
          SetStatus(d, k, s) /\ (s = "CANCELLING" \/ w # <<d, k>>)
    BY <1>10 DEF DeploymentExecutionMoves
  <2>2. w \in working /\ UNCHANGED deployer
    BY <1>10 DEF DeploymentExecutionMoves
  <2>3. /\ \A e \in Ids : /\ Len(executions'[e]) = Len(executions[e])
                          /\ DOMAIN executions'[e] = DOMAIN executions[e]
        /\ \A e \in Ids : e # d => executions'[e] = executions[e]
        /\ \A j \in DOMAIN executions[d] :
             executions'[d][j] = IF j = k THEN s ELSE executions[d][j]
    BY SMT, <2>1, SetExecutionEffect, StatusFacts DEF SetStatus, Typing
  <2>4. /\ \A e \in Ids : e # d => deployment'[e] = deployment[e]
        /\ deployment'[d] = s
    BY <2>1 DEF SetStatus, Typing
  <2>5. QED
    BY SMT, <1>1, <2>1, <2>2, <2>3, <2>4 DEF Started, Existing
<1>11. ASSUME NEW d \in Ids, NEW k \in 0..Len(executions[d]), LeftTasksEnd(d, k)
       PROVE  KeptAtWork(w)
  <2>1. w \in working /\ UNCHANGED <<deployer, deployment, executions>>
    BY <1>11 DEF LeftTasksEnd
  <2>2. Started(w[1], w[2])' <=> Started(w[1], w[2])
    BY <2>1 DEF Started, Existing
  <2>3. QED
    BY SMT, <1>1, <2>1, <2>2
<1>12. ASSUME NEW c \in calls, ExecuteDeployment(c) \/ ReportDeployerFailure(c)
       PROVE  KeptAtWork(w)
  <2>1. c.d \in Ids /\ UNCHANGED <<deployer, working>>
    BY <1>12 DEF ExecuteDeployment, ReportDeployerFailure, Typing, Calls
  <2>2. \A e \in Ids : deployment[e] \notin {"none", "deleted"}
                         => deployment'[e] \notin {"none", "deleted"}
    BY <1>12 DEF ExecuteDeployment, ReportDeployerFailure, SetActionStatus, Typing
  <2>3. /\ \A e \in Ids : /\ Len(executions[e]) <= Len(executions'[e])
                          /\ DOMAIN executions[e] \subseteq DOMAIN executions'[e]
        /\ \A e \in Ids : \A j \in DOMAIN executions[e] :
             executions'[e][j] = executions[e][j]
    <3>1. CASE UNCHANGED executions
      BY SMT, <1>1, <3>1
    <3>2. CASE AddExecution(c.d)
      <4>1. /\ \A e \in Ids : e # c.d => executions'[e] = executions[e]
            /\ DOMAIN executions[c.d] \subseteq DOMAIN executions'[c.d]
            /\ Len(executions'[c.d]) = Len(executions[c.d]) + 1
            /\ \A j \in DOMAIN executions[c.d] : executions'[c.d][j] = executions[c.d][j]
        BY SMT, <2>1, <3>2, AddExecutionEffect DEF Typing
      <4>2. QED
        BY SMT, <1>1, <2>1, <4>1
    <3>3. QED
      BY <1>12, <3>1, <3>2 DEF ExecuteDeployment, ReportDeployerFailure
  <2>4. QED
    BY <1>1, <2>1, <2>2, <2>3 DEF Started, Existing
<1>13. CASE BeginTasks \/ BeginTasksFails
  <2>0. launching # Nothing
    BY <1>13 DEF BeginTasks, BeginTasksFails
  <2>1. PICK d \in Ids, k \in Nat :
          /\ d = launching.d /\ k = Len(executions[d])
          /\ k \in DOMAIN executions[d] /\ deployment[d] # "none"
    BY SMT, <2>0 DEF Typing, Known
  <2>2. PICK s \in {Awaiting, "RUNNING", "UNEXECUTED", "DEADLOCKED"} :
          /\ executions' = [executions EXCEPT ![d][k] = s]
          /\ \/ w \in working
             \/ w = <<d, k>> /\ s = "RUNNING" /\ deployment'[d] = s
             \/ w = <<d, k>> /\ Fails("no_worker")
    <3>1. CASE BeginTasks
      BY SMT, <2>1, <3>1 DEF BeginTasks, SetStatus, Typing
    <3>2. CASE BeginTasksFails
      BY <2>1, <3>2 DEF BeginTasksFails, BeginFails
    <3>3. QED
      BY <1>13, <3>1, <3>2
  <2>3. /\ \A e \in Ids : /\ Len(executions'[e]) = Len(executions[e])
                          /\ DOMAIN executions'[e] = DOMAIN executions[e]
        /\ executions'[d][k] = s
    BY SMT, <2>1, <2>2, SetExecutionEffect, StatusFacts DEF Typing
  <2>4. CASE w \in working
    <3>1. ~Started(w[1], w[2])
      <4>1. ~Going(w[1], w[2])
        BY <1>1, <2>0, <2>4 DEF Exclusive
      <4>2. QED
        BY <4>1, StatusFacts DEF Going, Started
    <3>2. QED
      BY SMT, <1>1, <2>3, <2>4, <3>1
  <2>5. CASE w \notin working
    <3>1. w = <<d, k>> /\ (Undisturbed' => Started(d, k)')
      <4>1. CASE Fails("no_worker")
        BY <2>2, <2>5, <4>1, FailsEffect DEF Undisturbed, Typing
      <4>2. CASE s = "RUNNING" /\ deployment'[d] = s
        <5>1. Started(d, k)'
          BY <2>1, <2>3, <4>2 DEF Started, Existing
        <5>2. QED
          BY <2>2, <2>5, <5>1
      <4>3. QED
        BY <2>2, <2>5, <4>1, <4>2
    <3>2. k <= Len(executions'[d])
      BY SMT, <2>1, <2>3
    <3>3. QED
      BY <2>1, <3>1, <3>2
  <2>6. QED
    BY <2>4, <2>5
<1>14. CASE BeginDeleted
  <2> DEFINE d == launching.d
             k == Len(executions[d])
  <2>1. d \in Ids /\ k \in Nat
    BY <1>1, <1>14 DEF Typing, BeginDeleted
  <2>2. UNCHANGED <<deployer, deployment, executions>>
    BY <1>14 DEF BeginDeleted
  <2>3. CASE w \in working
    BY SMT, <1>1, <2>2, <2>3 DEF Started, Existing
  <2>4. CASE w \notin working
    <3>1. w = <<d, k>> /\ d \notin pooled /\ deployment[d] = "deleted"
      BY <1>14, <2>4 DEF BeginDeleted
    <3>2. ~Undisturbed'
      BY <2>1, <2>2, <3>1, FaultsStep DEF Undisturbed
    <3>3. QED
      BY SMT, <2>1, <2>2, <3>1, <3>2
  <2>5. QED
    BY <2>3, <2>4
<1>15. QED
  BY <1>2, <1>3, <1>4, <1>5, <1>6, <1>7, <1>8, <1>9, <1>10, <1>11, <1>12, <1>13, <1>14,
     RecordSteps

\* Every step keeps the executions at work in progress.
LEMMA WorkingsStep ==
  ASSUME Typing, Known, Exclusive, Workings, [Next]_vars
  PROVE  Workings'
<1>1. SUFFICES ASSUME NEW w \in working'
               PROVE  /\ w \in Ids \X Nat /\ w[2] <= Len(executions'[w[1]])
                      /\ Undisturbed' => Started(w[1], w[2])'
  BY DEF Workings
<1>2. KeptAtWork(w)
  BY KeptAtWorkStep
<1>3. CASE w \in working
  <2>1. /\ w \in Ids \X Nat /\ w[2] <= Len(executions[w[1]])
        /\ Undisturbed => Started(w[1], w[2])
    BY <1>3 DEF Workings
  <2>2. Len(executions[w[1]]) \in Nat /\ Len(executions'[w[1]]) \in Nat
    BY SMT, <2>1, TypingStep DEF Typing
  <2>3. QED
    BY SMT, <1>2, <2>1, <2>2, UndisturbedBefore DEF KeptAtWork
<1>4. QED
  BY <1>2, <1>3 DEF KeptAtWork

\* The deployer manager waits for the answer to its only call, and what is launched is
\* that call, or what a user has asked for.
Serves ==
  /\ calls # {} => manager.at \in {"calling", "reporting"} /\ manager.call # 0
  /\ \A c \in calls : /\ c.id = manager.call /\ c.d = manager.d
                      /\ c.op = "report" <=> manager.at = "reporting"
  /\ \A b, c \in calls : b = c
  /\ launching # Nothing => IF launching.op = "launch" THEN launching \in calls
                            ELSE launching.id = 0
  /\ manager.at \in {"calling", "waiting", "failed", "reporting"}
       => manager.d \notin manager.todo

\* What the deployer manager has to look at, is about to confirm or to report has no
\* execution, unless it is deleted or being launched by its call.
Attended(d) ==
  \/ deployment[d] = "PENDING"
  \/ d \in manager.todo
  \/ manager.at \in {"calling", "failed", "reporting"} /\ manager.d = d

Unlaunched(d) ==
  \/ executions[d] = <<>>
  \/ deployment[d] = "deleted"
  \/ launching # Nothing /\ launching.op = "launch" /\ launching.d = d

Orderly ==
  Serves /\ (\A d \in Ids : Attended(d) => Unlaunched(d)) /\ StatusTruthful

\* A step in which nothing fails.
LEMMA FaultlessSteps ==
  ASSUME Typing, [Next]_vars, faults' = MaxFaults
  PROVE  ~BeginTasksFails /\ ~TimesOut /\ ~Restart
<1>1. \A f : ~Fails(f)
  BY FailsEffect DEF Typing
<1>2. QED
  BY <1>1 DEF BeginTasksFails, BeginFails, TimesOut, Restart

\* Its answer leaves none.
LEMMA ServesAnswer ==
  ASSUME Typing, Serves, NEW c \in calls, NEW good \in BOOLEAN, Answer(c, good)
  PROVE  /\ calls' = {} /\ manager'.d = manager.d /\ manager'.todo \subseteq manager.todo
         /\ manager'.at = IF c.op = "report" THEN IF good THEN "loop" ELSE "idle"
                          ELSE IF good THEN "waiting" ELSE "failed"
<1>1. calls = {c} /\ manager.call = c.id /\ c.id # 0
  BY DEF Serves
<1>2. calls' = {}
  BY <1>1 DEF Answer
<1>3. manager' = IF c.op = "report"
                 THEN IF good THEN [manager EXCEPT !.at = "loop", !.call = 0]
                      ELSE [manager EXCEPT !.at = "idle", !.call = 0, !.todo = {}]
                 ELSE [manager EXCEPT !.at = IF good THEN "waiting" ELSE "failed",
                                      !.call = 0]
  BY <1>1 DEF Answer
<1>4. QED
  BY <1>2, <1>3 DEF Typing

\* As long as nothing fails the deployer manager has one call at a time.
LEMMA ServesStep ==
  ASSUME Typing, Serves, [Next]_vars, faults' = MaxFaults
  PROVE  Serves'
<1>1. CASE UNCHANGED <<calls, manager, launching>>
  BY <1>1 DEF Serves
<1>2. ASSUME NEW d \in Ids, DeployTransferInstances(d)
      PROVE  Serves'
  BY <1>2 DEF DeployTransferInstances, Serves
<1>3. ASSUME NEW c \in calls, ConfirmDeployerCompleted(c)
      PROVE  Serves'
  <2>1. UNCHANGED launching /\ c.op = "confirm"
    BY <1>3 DEF ConfirmDeployerCompleted
  <2>2. CASE Answer(c, FALSE)
    <3>1. launching # Nothing => launching.op # "launch"
      BY <2>1 DEF Serves, Typing
    <3>2. QED
      BY <2>1, <2>2, <3>1, ServesAnswer DEF Serves
  <2>3. CASE calls' = (calls \ {c}) \cup {[c EXCEPT !.op = "launch"]} /\ UNCHANGED manager
    <3>1. calls = {c} /\ calls' = {[c EXCEPT !.op = "launch"]}
      BY <2>3 DEF Serves
    <3>2. /\ [c EXCEPT !.op = "launch"].op = "launch"
          /\ [c EXCEPT !.op = "launch"].d = c.d /\ [c EXCEPT !.op = "launch"].id = c.id
      BY DEF Typing, Calls
    <3>3. launching # Nothing => launching.op # "launch"
      BY <2>1 DEF Serves, Typing
    <3>4. QED
      BY <2>1, <2>3, <3>1, <3>2, <3>3 DEF Serves
  <2>4. QED
    BY <1>3, <2>2, <2>3 DEF ConfirmDeployerCompleted
<1>4. ASSUME NEW c \in calls, ExecuteDeployment(c)
      PROVE  Serves'
  <2>1. launching = Nothing /\ c.op = "launch"
    BY <1>4 DEF ExecuteDeployment
  <2>2. CASE launching' = c /\ UNCHANGED <<calls, manager>>
    BY <2>1, <2>2 DEF Serves
  <2>3. CASE UNCHANGED launching /\ Answer(c, FALSE)
    BY <2>1, <2>3, ServesAnswer DEF Serves
  <2>4. QED
    BY ZenonT(40), <1>4, <2>2, <2>3 DEF ExecuteDeployment
<1>5. ASSUME NEW c \in calls, ReportDeployerFailure(c)
      PROVE  Serves'
  <2>1. UNCHANGED launching /\ c.op = "report" /\ \E good \in BOOLEAN : Answer(c, good)
    BY ZenonT(40), <1>5 DEF ReportDeployerFailure
  <2>2. launching # Nothing => launching.op # "launch"
    BY <2>1 DEF Serves, Typing
  <2>3. QED
    BY <2>1, <2>2, ServesAnswer DEF Serves
<1>6. CASE BeginTasks \/ BeginDeleted
  <2>1. /\ launching # Nothing /\ launching' = Nothing
        /\ \E good \in BOOLEAN : Answer(launching, good)
    BY <1>6 DEF BeginTasks, BeginDeleted, Launched
  <2>2. CASE launching.op = "launch"
    <3>1. launching \in calls
      BY <2>1, <2>2 DEF Serves
    <3>2. QED
      BY <2>1, <2>2, <3>1, ServesAnswer DEF Serves
  <2>3. CASE launching.op # "launch"
    <3>1. launching.id = 0 /\ launching \notin calls
      BY <2>1, <2>3 DEF Serves, Typing, Calls, Operations
    <3>2. UNCHANGED <<calls, manager>>
      BY <2>1, <3>1 DEF Answer
    <3>3. QED
      BY <2>1, <3>2 DEF Serves
  <2>4. QED
    BY <2>2, <2>3
<1>7. CASE ListPending \/ LoopEnds \/ WaitForStatusChange
  <2>1. UNCHANGED <<calls, launching>> /\ calls = {}
    BY <1>7 DEF ListPending, LoopEnds, WaitForStatusChange, Serves
  <2>2. manager'.at \in {"loop", "idle"}
          \/ (manager.at = "waiting" /\ manager'.d = manager.d /\ manager'.todo = manager.todo)
    BY <1>7 DEF ListPending, LoopEnds, WaitForStatusChange, Typing
  <2>3. QED
    BY <2>1, <2>2 DEF Serves
<1>8. ASSUME NEW d \in Ids, NEW op, NEW place \in {"calling", "reporting"},
             Sends(op, d, place), calls = {}, UNCHANGED launching,
             op = "report" <=> place = "reporting"
      PROVE  Serves'
  <2>1. NewCall \in Nat \ {0}
    BY NewCallIsNew DEF Typing
  <2>2. QED
    BY SMT, <1>8, <2>1 DEF Sends, Serves, Typing
<1>9. ASSUME NEW d \in Ids, CheckDeployerStatus(d)
      PROVE  Serves'
  <2>1. calls = {} /\ UNCHANGED launching /\ manager.at = "loop"
    BY <1>9 DEF CheckDeployerStatus, Serves
  <2>2. CASE UNCHANGED calls /\ manager' = [manager EXCEPT !.todo = @ \ {d}]
    BY <2>1, <2>2 DEF Serves, Typing
  <2>3. CASE Sends("confirm", d, "calling") \/ Sends("report", d, "reporting")
    BY <1>8, <2>1, <2>3
  <2>4. QED
    BY <1>9, <2>2, <2>3 DEF CheckDeployerStatus
<1>10. CASE ReportFailure
  <2>1. /\ calls = {} /\ UNCHANGED launching /\ manager.d \in Ids
        /\ Sends("report", manager.d, "reporting")
    BY <1>10 DEF ReportFailure, Serves, Typing
  <2>2. QED
    BY <1>8, <2>1
<1>11. ASSUME NEW d \in Ids,
              \/ ExecuteTransferTasks(d) \/ DeleteTransferTasksExecution(d)
              \/ DeleteDeployment(d) \/ CancelAwaiting(d) \/ ExecuteAutoDeployment(d)
              \/ MinionManagerCalls(d) \/ Ends(d)
       PROVE  UNCHANGED <<calls, manager, launching>>
  BY <1>11 DEF ExecuteTransferTasks, DeleteTransferTasksExecution, DeleteDeployment,
     CancelAwaiting, ExecuteAutoDeployment, MinionManagerCalls, Ends,
     TransferExecutionMoves, DeploymentExecutionMoves, LeftTasksEnd
<1>12. QED
  BY <1>1, <1>2, <1>3, <1>4, <1>5, <1>6, <1>7, <1>9, <1>10, <1>11, FaultlessSteps
  DEF Next, Users, Handle, Launch, Manager, vars

\* As long as nothing fails only what has no execution is attended to.
LEMMA UnlaunchedStep ==
  ASSUME Typing, Known, Orderly, [Next]_vars, faults' = MaxFaults,
         NEW e \in Ids, Attended(e)'
  PROVE  Unlaunched(e)'
<1>1. Attended(e) => Unlaunched(e)
  BY DEF Orderly
<1>2. deployment[e] = "deleted" => deployment'[e] = "deleted"
  BY DeletedStays
<1>3. CASE /\ UNCHANGED <<executions, launching>>
           /\ Attended(e) \/ executions[e] = <<>> \/ deployment'[e] = "deleted"
  BY <1>1, <1>2, <1>3 DEF Unlaunched
<1>4. ASSUME NEW d \in Ids,
             \/ ExecuteTransferTasks(d) \/ TransferExecutionMoves(d)
             \/ DeleteTransferTasksExecution(d) \/ DeleteDeployment(d)
             \/ \E k \in 0..Len(executions[d]) : LeftTasksEnd(d, k)
      PROVE  Unlaunched(e)'
  BY ZenonT(40), <1>3, <1>4 DEF ExecuteTransferTasks, TransferExecutionMoves,
     DeleteTransferTasksExecution, DeleteDeployment, LeftTasksEnd, Attended, Typing
<1>5. ASSUME NEW d \in Ids, DeployTransferInstances(d)
      PROVE  Unlaunched(e)'
  <2>1. /\ \A f \in Ids : f # d => /\ executions'[f] = executions[f]
                                   /\ deployment'[f] = deployment[f]
        /\ deployment[d] = "none" /\ deployment'[d] = "UNEXECUTED"
        /\ UNCHANGED manager /\ launching = Nothing
    BY SMT, <1>5, AddExecutionEffect DEF DeployTransferInstances, Unused, Typing
  <2>2. e # d
    BY <2>1 DEF Attended, Known, Typing
  <2>3. QED
    BY <1>1, <2>1, <2>2 DEF Attended, Unlaunched
<1>6. ASSUME NEW d \in Ids, ExecuteAutoDeployment(d)
      PROVE  Unlaunched(e)'
  <2>1. executions[d] = <<>>
    BY <1>6 DEF ExecuteAutoDeployment, Known
  <2>2. QED
    BY <1>3, <1>6, <2>1 DEF ExecuteAutoDeployment, Attended, Typing
<1>7. ASSUME NEW d \in Ids, NEW k \in DOMAIN executions[d], NEW s \in ExecutionStatuses,
             s # "PENDING", SetStatus(d, k, s), UNCHANGED <<manager, launching>>
      PROVE  Unlaunched(e)'
  <2>1. /\ \A f \in Ids : executions'[f] = <<>> <=> executions[f] = <<>>
        /\ \A f \in Ids : f # d => deployment'[f] = deployment[f]
        /\ deployment'[d] = s
    BY SMT, <1>7, SetExecutionEffect DEF SetStatus, Typing
  <2>2. QED
    BY <1>1, <1>2, <1>7, <2>1 DEF Attended, Unlaunched
<1>8. ASSUME NEW d \in Ids,
             CancelAwaiting(d) \/ \E k \in DOMAIN executions[d] : DeploymentExecutionMoves(d, k)
      PROVE  Unlaunched(e)'
  <2>1. /\ UNCHANGED <<manager, launching>>
        /\ \E k \in DOMAIN executions[d] :
             \E s \in {"CANCELLING", "COMPLETED", "CANCELED", "ERROR"} : SetStatus(d, k, s)
    BY SMT, <1>8 DEF CancelAwaiting, DeploymentExecutionMoves
  <2>2. QED
    BY <1>7, <2>1, StatusFacts
<1>9. ASSUME NEW d \in Ids, MinionManagerCalls(d)
      PROVE  Unlaunched(e)'
  <2>1. UNCHANGED <<manager, launching>>
    BY <1>9 DEF MinionManagerCalls
  <2>2. CASE UNCHANGED <<deployment, executions>>
    BY <1>3, <2>1, <2>2 DEF Attended
  <2>3. CASE /\ Len(executions[d]) = 1
             /\ \E s \in {"RUNNING", "ERROR_ALLOCATING_MINIONS"} : SetStatus(d, 1, s)
    <3>1. 1 \in DOMAIN executions[d]
      BY SMT, <2>3 DEF Typing
    <3>2. QED
      BY <1>7, <2>1, <2>3, <3>1, StatusFacts
  <2>4. QED
    BY <1>9, <2>2, <2>3 DEF MinionManagerCalls
<1>10. ASSUME NEW c \in calls, ConfirmDeployerCompleted(c)
       PROVE  Unlaunched(e)'
  <2>1. UNCHANGED <<deployment, executions, launching>>
    BY <1>10 DEF ConfirmDeployerCompleted, conductor
  <2>2. CASE UNCHANGED manager
    BY <1>3, <2>1, <2>2 DEF Attended
  <2>3. CASE Answer(c, FALSE)
    <3>1. /\ manager'.d = manager.d /\ manager'.todo \subseteq manager.todo
          /\ manager.at = "calling"
      BY <1>10, <2>3, ServesAnswer
      DEF Orderly, Serves, ConfirmDeployerCompleted, Typing
    <3>2. QED
      BY <1>3, <2>1, <3>1 DEF Attended
  <2>4. QED
    BY <1>10, <2>2, <2>3 DEF ConfirmDeployerCompleted
<1>11. ASSUME NEW c \in calls, ExecuteDeployment(c)
       PROVE  Unlaunched(e)'
  <2>1. /\ c.d \in Ids /\ c.d = manager.d /\ manager.at = "calling" /\ c.op = "launch"
        /\ c # Nothing /\ launching = Nothing
    BY SMT, <1>11 DEF ExecuteDeployment, Orderly, Serves, Typing, Calls, Nothing
  <2>2. CASE AddExecution(c.d) /\ launching' = c /\ UNCHANGED <<deployment, manager>>
    <3>1. CASE e = c.d
      BY <2>1, <2>2, <3>1 DEF Unlaunched
    <3>2. CASE e # c.d
      <4>1. executions'[e] = executions[e]
        BY SMT, <2>1, <2>2, <3>2, AddExecutionEffect DEF Typing
      <4>2. QED
        BY <1>1, <2>1, <2>2, <4>1 DEF Attended, Unlaunched
    <3>3. QED
      BY <3>1, <3>2
  <2>3. CASE /\ SetActionStatus(c.d, "ERROR") /\ Answer(c, FALSE)
             /\ UNCHANGED <<executions, launching>>
    <3>1. manager'.d = manager.d /\ manager'.todo \subseteq manager.todo
      BY ZenonT(40), <2>3, ServesAnswer DEF Orderly
    <3>2. deployment'[e] = "PENDING" => deployment[e] = "PENDING"
      BY <2>3 DEF SetActionStatus, Typing
    <3>3. QED
      BY ZenonT(40), <1>3, <2>1, <2>3, <3>1, <3>2 DEF Attended
  <2>4. QED
    BY <1>11, <2>2, <2>3 DEF ExecuteDeployment
<1>12. ASSUME NEW c \in calls, ReportDeployerFailure(c)
       PROVE  Unlaunched(e)'
  <2>1. /\ UNCHANGED <<executions, launching>> /\ c.op = "report"
        /\ SetActionStatus(c.d, "ERROR") /\ \E good \in BOOLEAN : Answer(c, good)
    BY <1>12 DEF ReportDeployerFailure
  <2>2. manager'.at \in {"loop", "idle"} /\ manager'.todo \subseteq manager.todo
    BY <2>1, ServesAnswer DEF Orderly
  <2>3. deployment'[e] = "PENDING" => deployment[e] = "PENDING"
    BY <2>1 DEF SetActionStatus, Typing
  <2>4. QED
    BY <1>3, <2>1, <2>2, <2>3 DEF Attended
<1>13. CASE BeginTasks \/ BeginDeleted
  <2>1. launching # Nothing /\ launching' = Nothing
    BY ZenonT(40), <1>13 DEF BeginTasks, BeginDeleted, Launched
  <2>2. PICK d \in Ids, k \in Nat :
          /\ d = launching.d /\ k = Len(executions[d]) /\ k \in DOMAIN executions[d]
    BY SMT, <2>1 DEF Typing
  <2>3. CASE BeginDeleted
    <3>1. UNCHANGED <<deployment, executions>> /\ deployment[d] = "deleted"
      BY <2>2, <2>3 DEF BeginDeleted
    <3>2. Answer(launching, FALSE)
      BY ZenonT(40), <2>3 DEF BeginDeleted, Launched
    <3>3. CASE launching.op = "launch"
      <4>1. launching \in calls
        BY <2>1, <3>3 DEF Orderly, Serves
      <4>2. manager'.d = manager.d /\ manager'.todo \subseteq manager.todo /\ manager.d = d
        BY ZenonT(40), <2>2, <3>2, <4>1, ServesAnswer DEF Orderly, Serves
      <4>3. QED
        BY <1>1, <2>2, <3>1, <4>2 DEF Attended, Unlaunched
    <3>4. CASE launching.op # "launch"
      <4>1. UNCHANGED manager
        BY <2>1, <3>2, <3>4 DEF Orderly, Serves, Answer
      <4>2. QED
        BY <1>1, <3>1, <3>4, <4>1 DEF Attended, Unlaunched
    <3>5. QED
      BY <3>3, <3>4
  <2>4. CASE BeginTasks
    <3>1. PICK s \in {Awaiting, "RUNNING"} : SetStatus(d, k, s)
      BY <2>2, <2>4 DEF BeginTasks
    <3>2. /\ \A f \in Ids : executions'[f] = <<>> <=> executions[f] = <<>>
          /\ \A f \in Ids : f # d => deployment'[f] = deployment[f]
          /\ deployment'[d] = s /\ s # "PENDING" /\ executions[d] # <<>>
      BY SMT, <2>2, <3>1, SetExecutionEffect, StatusFacts DEF SetStatus, Typing, Awaiting
    <3>3. Answer(launching, TRUE) /\ deployment[d] # "deleted"
      BY ZenonT(40), <2>2, <2>4 DEF BeginTasks, Launched
    <3>4. CASE launching.op = "launch"
      <4>1. launching \in calls
        BY <2>1, <3>4 DEF Orderly, Serves
      <4>2. /\ manager'.at = "waiting" /\ manager'.todo \subseteq manager.todo
            /\ manager.d = d /\ d \notin manager.todo
        BY <2>2, <3>3, <3>4, <4>1, ServesAnswer DEF Orderly, Serves
      <4>3. e # d
        BY <3>2, <4>2 DEF Attended
      <4>4. QED
        BY <1>1, <1>2, <2>2, <3>2, <4>2, <4>3 DEF Attended, Unlaunched
    <3>5. CASE launching.op # "launch"
      <4>1. UNCHANGED manager
        BY <2>1, <3>3, <3>5 DEF Orderly, Serves, Answer
      <4>2. QED
        BY <1>1, <1>2, <2>2, <3>2, <3>3, <3>5, <4>1 DEF Attended, Unlaunched
    <3>6. QED
      BY <3>4, <3>5
  <2>5. QED
    BY <1>13, <2>3, <2>4
<1>14. CASE ListPending \/ LoopEnds \/ WaitForStatusChange \/ ReportFailure
  <2>1. UNCHANGED <<deployment, executions, launching>>
    BY <1>14 DEF ListPending, LoopEnds, WaitForStatusChange, ReportFailure, conductor
  <2>2. Attended(e) \/ deployment'[e] = "deleted"
    <3>1. CASE ListPending \/ LoopEnds
      <4>1. /\ manager'.at \in {"idle", "loop"}
            /\ manager'.todo \in {manager.todo, Pending}
        BY <3>1 DEF ListPending, LoopEnds, Typing
      <4>2. QED
        BY <2>1, <4>1 DEF Attended, Pending
    <3>2. CASE WaitForStatusChange
      BY <2>1, <3>2 DEF WaitForStatusChange, Attended, Typing
    <3>3. CASE ReportFailure
      BY <2>1, <3>3 DEF ReportFailure, Sends, Attended, Typing
    <3>4. QED
      BY <1>14, <3>1, <3>2, <3>3
  <2>3. QED
    BY <1>3, <2>1, <2>2
<1>15. ASSUME NEW d \in Ids, CheckDeployerStatus(d)
       PROVE  Unlaunched(e)'
  <2>1. UNCHANGED <<deployment, executions, launching>> /\ d \in manager.todo
    BY <1>15 DEF CheckDeployerStatus, conductor
  <2>2. Attended(e)
    <3>1. manager'.todo = manager.todo \ {d} /\ (manager'.at # manager.at => manager'.d = d)
      BY SMT, <1>15 DEF CheckDeployerStatus, Sends, Typing
    <3>2. manager.at = "loop"
      BY <1>15 DEF CheckDeployerStatus
    <3>3. QED
      BY <2>1, <3>1, <3>2 DEF Attended
  <2>3. QED
    BY <1>3, <2>1, <2>2
<1>16. CASE UNCHANGED vars
  BY <1>3, <1>16 DEF vars, conductor, Attended
<1>17. QED
  BY <1>4, <1>5, <1>6, <1>8, <1>9, <1>10, <1>11, <1>12, <1>13, <1>14, <1>15, <1>16,
     FaultlessSteps DEF Next, Users, Ends, Handle, Launch, Manager

\* As long as nothing fails, the status of a deployment is set with that of its
\* execution, and to ERROR only where there is none in progress.
LEMMA TruthfulStep ==
  ASSUME Typing, Known, Exclusive, Orderly, [Next]_vars, faults' = MaxFaults
  PROVE  StatusTruthful'
<1> DEFINE True(e) == e \in Existing => \A k \in DOMAIN executions[e] :
                        executions[e][k] \in ACTIVE_EXECUTION_STATUSES
                          => deployment[e] = executions[e][k]
<1>1. SUFFICES ASSUME NEW e \in Ids
               PROVE  True(e)'
  BY DEF StatusTruthful, Existing
<1>2. True(e)
  BY DEF Orderly, StatusTruthful
<1>3. CASE /\ executions'[e] = executions[e]
           /\ deployment'[e] = deployment[e] \/ deployment'[e] = "deleted"
                \/ executions[e] = <<>>
  <2>1. CASE deployment'[e] = deployment[e]
    BY <1>2, <1>3, <2>1 DEF Existing
  <2>2. CASE deployment'[e] = "deleted" \/ executions[e] = <<>>
    BY SMT, <1>3, <2>2 DEF Existing
  <2>3. QED
    BY <1>3, <2>1, <2>2
<1>4. ASSUME NEW d \in Ids,
             \/ ExecuteTransferTasks(d) \/ TransferExecutionMoves(d)
             \/ DeleteTransferTasksExecution(d) \/ DeleteDeployment(d)
             \/ \E k \in 0..Len(executions[d]) : LeftTasksEnd(d, k)
      PROVE  True(e)'
  BY ZenonT(40), <1>3, <1>4 DEF ExecuteTransferTasks, TransferExecutionMoves,
     DeleteTransferTasksExecution, DeleteDeployment, LeftTasksEnd, Typing
<1>5. ASSUME NEW d \in Ids, DeployTransferInstances(d)
      PROVE  True(e)'
  <2>1. CASE e # d
    BY SMT, <1>3, <1>5, <2>1, AddExecutionEffect DEF DeployTransferInstances, Typing
  <2>2. CASE e = d
    <3>1. executions[d] = <<>>
      BY <1>5 DEF DeployTransferInstances, Unused, Known
    <3>2. \A k \in DOMAIN executions'[d] : executions'[d][k] = "UNEXECUTED"
      BY SMT, <1>5, <3>1, AddExecutionEffect DEF DeployTransferInstances, Typing
    <3>3. QED
      BY <2>2, <3>2, StatusFacts
  <2>3. QED
    BY <2>1, <2>2
<1>6. ASSUME NEW d \in Ids, ExecuteAutoDeployment(d)
      PROVE  True(e)'
  <2>1. executions[d] = <<>>
    BY <1>6 DEF ExecuteAutoDeployment, Known
  <2>2. QED
    BY <1>3, <1>6, <2>1 DEF ExecuteAutoDeployment, Typing
<1>7. ASSUME NEW d \in Ids, NEW k \in DOMAIN executions[d], NEW s \in ExecutionStatuses,
             SetStatus(d, k, s),
             \A j \in DOMAIN executions[d] :
               j # k => executions[d][j] \notin ACTIVE_EXECUTION_STATUSES
      PROVE  True(e)'
  <2>1. /\ e # d => executions'[e] = executions[e] /\ deployment'[e] = deployment[e]
        /\ deployment'[d] = s /\ DOMAIN executions'[d] = DOMAIN executions[d]
        /\ \A j \in DOMAIN executions[d] :
             executions'[d][j] = IF j = k THEN s ELSE executions[d][j]
    BY SMT, <1>7, SetExecutionEffect DEF SetStatus, Typing
  <2>2. CASE e # d
    BY <1>3, <2>1, <2>2
  <2>3. CASE e = d
    BY ZenonT(40), <1>7, <2>1, <2>3
  <2>4. QED
    BY <2>2, <2>3
<1>8. ASSUME NEW d \in Ids, NEW k \in DOMAIN executions[d], DeploymentExecutionMoves(d, k)
      PROVE  True(e)'
  <2>1. \E s \in {"CANCELLING", "COMPLETED", "CANCELED", "ERROR"} : SetStatus(d, k, s)
    BY ZenonT(40), <1>8 DEF DeploymentExecutionMoves
  <2>2. d \in Existing /\ Going(d, k) /\ DOMAIN executions[d] \subseteq Nat
    BY SMT, <1>8, StatusFacts DEF DeploymentExecutionMoves, Known, Going, Existing, Typing
  <2>3. \A j \in DOMAIN executions[d] :
          j # k => executions[d][j] \notin ACTIVE_EXECUTION_STATUSES
    <3>1. \A j \in DOMAIN executions[d] : Going(d, j) => j = k
      BY <2>2 DEF Exclusive
    <3>2. QED
      BY <2>2, <3>1 DEF Going
  <2>4. QED
    BY ZenonT(40), <1>7, <2>1, <2>3, StatusFacts
<1>9. ASSUME NEW d \in Ids, CancelAwaiting(d)
      PROVE  True(e)'
  <2>1. DOMAIN executions[d] = {1} /\ SetStatus(d, 1, "CANCELED")
    BY SMT, <1>9 DEF CancelAwaiting
  <2>2. QED
    BY <1>7, <2>1, StatusFacts
<1>10. ASSUME NEW d \in Ids, MinionManagerCalls(d)
       PROVE  True(e)'
  <2>1. CASE UNCHANGED <<deployment, executions>>
    BY <1>3, <2>1
  <2>2. CASE /\ Len(executions[d]) = 1
             /\ \E s \in {"RUNNING", "ERROR_ALLOCATING_MINIONS"} : SetStatus(d, 1, s)
    <3>1. DOMAIN executions[d] = {1}
      BY SMT, <2>2 DEF Typing
    <3>2. QED
      BY <1>7, <2>2, <3>1, StatusFacts
  <2>3. QED
    BY <1>10, <2>1, <2>2 DEF MinionManagerCalls
<1>11. ASSUME NEW c \in calls, c.d \in Ids, SetActionStatus(c.d, "ERROR"),
              UNCHANGED executions, Unlaunched(c.d),
              ~(launching # Nothing /\ launching.op = "launch" /\ launching.d = c.d)
       PROVE  True(e)'
  BY <1>3, <1>11 DEF Unlaunched, SetActionStatus, Typing
<1>12. ASSUME NEW c \in calls, ExecuteDeployment(c)
       PROVE  True(e)'
  <2>1. /\ c.d \in Ids /\ launching = Nothing /\ Attended(c.d)
    BY <1>12 DEF ExecuteDeployment, Orderly, Serves, Attended, Typing, Calls
  <2>2. CASE AddExecution(c.d) /\ UNCHANGED deployment
    <3>1. CASE e # c.d
      BY SMT, <1>3, <2>1, <2>2, <3>1, AddExecutionEffect DEF Typing
    <3>2. CASE e = c.d
      <4>1. \A k \in DOMAIN executions'[e] :
              \/ executions'[e][k] = "UNEXECUTED"
              \/ k \in DOMAIN executions[e] /\ executions'[e][k] = executions[e][k]
        BY SMT, <2>1, <2>2, <3>2, AddExecutionEffect DEF Typing
      <4>2. QED
        BY ZenonT(40), <1>2, <2>2, <4>1, StatusFacts DEF Existing
    <3>3. QED
      BY <3>1, <3>2
  <2>3. CASE SetActionStatus(c.d, "ERROR") /\ UNCHANGED executions
    BY <1>11, <2>1, <2>3 DEF Orderly
  <2>4. QED
    BY ZenonT(40), <1>12, <2>2, <2>3 DEF ExecuteDeployment
<1>13. ASSUME NEW c \in calls, ReportDeployerFailure(c)
       PROVE  True(e)'
  <2>1. /\ c.d \in Ids /\ Attended(c.d) /\ SetActionStatus(c.d, "ERROR")
        /\ UNCHANGED executions /\ c.op = "report"
    BY <1>13 DEF ReportDeployerFailure, Orderly, Serves, Attended, Typing, Calls
  <2>2. ~(launching # Nothing /\ launching.op = "launch")
    BY <2>1 DEF Orderly, Serves
  <2>3. Unlaunched(c.d)
    BY <2>1 DEF Orderly
  <2>4. QED
    BY <1>11, <2>1, <2>2, <2>3
<1>14. CASE BeginTasks
  <2>1. launching # Nothing
    BY <1>14 DEF BeginTasks
  <2>2. PICK d \in Ids, k \in Nat :
          /\ d = launching.d /\ k = Len(executions[d]) /\ k \in DOMAIN executions[d]
    BY SMT, <2>1 DEF Typing
  <2>3. d \in Existing /\ \E s \in {Awaiting, "RUNNING"} : SetStatus(d, k, s)
    BY <1>14, <2>2 DEF BeginTasks, Known, Existing
  <2>4. \A j \in DOMAIN executions[d] :
          executions[d][j] \notin ACTIVE_EXECUTION_STATUSES
    BY SMT, <2>1, <2>3 DEF Exclusive, Going, Typing
  <2>5. QED
    BY ZenonT(40), <1>7, <2>2, <2>3, <2>4, StatusFacts
<1>15. CASE BeginDeleted \/ UNCHANGED <<deployer, deployment, executions, working>>
  BY ZenonT(40), <1>3, <1>15 DEF BeginDeleted
<1>16. QED
  BY ZenonT(40), <1>4, <1>5, <1>6, <1>8, <1>9, <1>10, <1>12, <1>13, <1>14, <1>15, RecordSteps,
     FaultlessSteps

\* What holds of the conductor and the deployer manager in every state.
IInv ==
  /\ Typing
  /\ Known
  /\ Exclusive
  /\ Workings
  /\ faults = MaxFaults => Orderly

\* Nothing is asked for, in progress or launched when the services start.
LEMMA InitIInv == Init => IInv
<1> SUFFICES ASSUME Init
             PROVE  IInv
  OBVIOUS
<1>1. \A d \in Ids : deployment[d] = "none" /\ deployer[d] = "none" /\ executions[d] = <<>>
  BY DEF Init
<1>2. Typing
  BY SMT, FS_EmptySet, AutoDeploymentAssumption DEF Init, Typing, ManagerPlaces, Nothing
<1>3. Known
  BY <1>1 DEF Init, Known, WaitsForDeployer, Nothing
<1>4. \A d \in Ids, k \in Nat : ~Going(d, k)
  BY SMT, <1>1, StatusFacts DEF Going
<1>5. Exclusive
  BY <1>1, <1>4, StatusFacts DEF Init, Exclusive, Nothing
<1>6. Workings
  BY DEF Init, Workings
<1>7. Orderly
  <2>1. Serves
    BY DEF Init, Serves, Nothing
  <2>2. StatusTruthful
    BY <1>1 DEF StatusTruthful, Existing
  <2>3. QED
    BY <1>1, <2>1, <2>2 DEF Orderly, Unlaunched
<1>8. QED
  BY <1>2, <1>3, <1>5, <1>6, <1>7 DEF IInv

\* Every step keeps it.
LEMMA IInvStep == IInv /\ [Next]_vars => IInv'
<1> SUFFICES ASSUME IInv, [Next]_vars
             PROVE  IInv'
  OBVIOUS
<1>1. Typing /\ Known /\ Exclusive /\ Workings
  BY DEF IInv
<1>2. Typing'
  BY <1>1, TypingStep
<1>3. Known'
  BY <1>1, KnownStep
<1>4. Exclusive'
  BY <1>1, ExclusiveStep
<1>5. Workings'
  BY <1>1, WorkingsStep
<1>6. ASSUME faults' = MaxFaults
      PROVE  Orderly'
  <2>1. Orderly
    BY <1>1, <1>6, FaultsStep DEF IInv
  <2>2. Serves'
    BY <1>1, <1>6, <2>1, ServesStep DEF Orderly
  <2>3. \A d \in Ids : Attended(d)' => Unlaunched(d)'
    BY <1>1, <1>6, <2>1, UnlaunchedStep
  <2>4. StatusTruthful'
    BY <1>1, <1>6, <2>1, TruthfulStep
  <2>5. QED
    BY <2>2, <2>3, <2>4 DEF Orderly
<1>7. QED
  BY <1>2, <1>3, <1>4, <1>5, <1>6 DEF IInv

\* The inductive invariant of the conductor, the deployer manager and the calls between
\* them, through timeouts, restarts and launches which fail.
THEOREM Invariance == Spec => []IInv
BY InitIInv, IInvStep, PTL DEF Spec

\* A set all of whose elements are the same has at most one.
LEMMA AtMostOne ==
  ASSUME NEW S, \A x, y \in S : x = y
  PROVE  Cardinality(S) <= 1
<1>1. CASE S = {}
  BY SMT, <1>1, FS_EmptySet
<1>2. CASE S # {}
  <2>1. PICK x : S = {x}
    BY SMT, <1>2
  <2>2. Cardinality(S) = 1
    BY <2>1, FS_Singleton
  <2>3. QED
    BY SMT, <2>2
<1>3. QED
  BY <1>1, <1>2

\* What the disks of a transfer have from the invariant.
LEMMA OneUser == IInv => DisksHaveOneUser
<1> SUFFICES ASSUME IInv
             PROVE  DisksHaveOneUser
  OBVIOUS
<1>1. Typing /\ Exclusive /\ Workings
  BY DEF IInv
<1>2. TypeOK
  <2>1. \A d \in Ids : \A k \in DOMAIN executions[d] : executions[d][k] \in ExecutionStatuses
    BY SMT, <1>1 DEF Typing
  <2>2. \A w \in working : w[1] \in Ids /\ w[2] \in 0..Len(executions[w[1]])
    <3> SUFFICES ASSUME NEW w \in working
                 PROVE  w[1] \in Ids /\ w[2] \in 0..Len(executions[w[1]])
      OBVIOUS
    <3>1. w[1] \in Ids /\ w[2] \in Nat /\ w[2] <= Len(executions[w[1]])
      BY <1>1 DEF Workings
    <3>2. Len(executions[w[1]]) \in Nat
      BY SMT, <1>1, <3>1 DEF Typing
    <3>3. QED
      BY SMT, <3>1, <3>2
  <2>3. manager.at \in ManagerPlaces /\ manager.todo \subseteq Ids
    BY <1>1 DEF Typing
  <2>4. \A c \in calls : c.op \in Operations /\ c.d \in Ids
    BY <1>1 DEF Typing, Calls
  <2>5. QED
    BY <1>1, <2>1, <2>2, <2>3, <2>4 DEF TypeOK, Typing
<1>3. OneActive
  <2>1. \A x, y \in InProgress : x = y
    <3> SUFFICES ASSUME NEW x \in InProgress, NEW y \in InProgress
                 PROVE  x = y
      OBVIOUS
    <3>1. PICK d \in Ids, j \in Nat : x = <<d, j>> /\ Going(d, j)
      BY SMT, <1>1, GoingInProgress
    <3>2. PICK e \in Ids, k \in Nat : y = <<e, k>> /\ Going(e, k)
      BY SMT, <1>1, GoingInProgress
    <3>3. QED
      BY <1>1, <3>1, <3>2 DEF Exclusive
  <2>2. QED
    BY <2>1, AtMostOne DEF OneActive
<1>4. ASSUME Undisturbed
      PROVE  OneAtATime
  <2>1. \A x, y \in working : x = y
    <3> SUFFICES ASSUME NEW x \in working, NEW y \in working
                 PROVE  x = y
      OBVIOUS
    <3>1. x \in Ids \X Nat /\ Started(x[1], x[2]) /\ y \in Ids \X Nat /\ Started(y[1], y[2])
      BY <1>1, <1>4 DEF Workings
    <3>2. Going(x[1], x[2]) /\ Going(y[1], y[2])
      BY <3>1, StatusFacts DEF Started, Going
    <3>3. x[1] = y[1] /\ x[2] = y[2]
      BY <1>1, <3>1, <3>2 DEF Exclusive
    <3>4. QED
      BY SMT, <3>1, <3>3
  <2>2. QED
    BY <2>1, AtMostOne DEF OneAtATime
<1>5. QED
  BY <1>2, <1>3, <1>4 DEF DisksHaveOneUser

\* For any number of deployments and faults: no two executions of a transfer are in
\* progress by their statuses (_check_transfer_running_executions), and none shares the
\* disks with the tasks of another unless something fails or is deleted under its launch.
THEOREM OneUserOfDisks == Spec => []DisksHaveOneUser
BY Invariance, OneUser, PTL

\* Until something fails, a deployment in progress shows the status of its execution:
\* report_deployer_failure and a confirmation which fails meet none that has one.
THEOREM StatusIsTruthful == Spec => []TruthfulUntilFault
<1>1. IInv => TruthfulUntilFault
  BY DEF IInv, Orderly, TruthfulUntilFault
<1>2. QED
  BY <1>1, Invariance, PTL

\* Whatever is lost, repeated or fails, a deployment which waits for a transfer has an
\* execution only when that transfer has completed (execute_deployment).
THEOREM DeploymentsWait == Spec => []WaitsForDeployer
<1>1. IInv => WaitsForDeployer
  BY DEF IInv, Known
<1>2. QED
  BY <1>1, Invariance, PTL
=============================================================================

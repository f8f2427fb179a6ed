----------------------------- MODULE Licensing -----------------------------
(***************************************************************************)
(* The licensing of a transfer: the reservation which the conductor has    *)
(* for it on the licensing server, from the creation of the transfer over  *)
(* its executions and deployments to its deletion.                         *)
(*                                                                         *)
(* Every request to the server is sent again when it raises (retry_on_error*)
(* of LicensingClient._do_req), whether the server has done its work or    *)
(* not.  The server (external) may forget a reservation, and may answer    *)
(* that it cannot show or refresh one: whatever error it answers with, the *)
(* client raises it as a Conflict, whose code is always 409.               *)
(***************************************************************************)
EXTENDS Integers, Sequences, FiniteSets

CONSTANTS MaxAttempts,       \* of retry_on_error
          MaxReservations,   \* bound: reservations on the server
          MaxLost,           \* bound: requests which raise, and rows not saved
          MaxDeployments,    \* bound: deployments which complete
          MaxForgotten       \* bound: reservations which the server drops or refuses

ASSUME LicensingAssumption == MaxAttempts \in Nat /\ MaxReservations \in Nat

VARIABLES
  scenario,       \* of the transfer
  transfer_row,   \* in the database: "none", "stored" or "deleted"
  reservation_id, \* of the transfer in the database, 0 if none
  server,         \* the server's reservations: "open", "fulfilled" or "gone"
  handler,        \* what the conductor does: "idle", "create", ...
  call,           \* the request it is at
  in_memory,      \* reservation_id of the transfer object it works on
  attempts,       \* times the request was sent
  replicated,     \* an execution of the transfer has completed
  deployed,       \* deployments of it which have completed
  unsaved,        \* deployments which went on past a fulfilled reservation with a new
                  \* one which was not saved
  lost, forgotten \* what has gone wrong, for the bounds

licensingVars == <<scenario, transfer_row, reservation_id, server, handler, call,
                   in_memory, attempts, replicated, deployed, unsaved, lost,
                   forgotten>>
recorded == <<transfer_row, reservation_id, replicated, deployed, unsaved>>

LicensingInit ==
  /\ scenario \in {"replica", "live_migration"}
  /\ transfer_row = "none" /\ reservation_id = 0
  /\ server = <<>>
  /\ handler = "idle" /\ call = "none" /\ in_memory = 0 /\ attempts = 0
  /\ replicated = FALSE /\ deployed = 0 /\ unsaved = 0
  /\ lost = 0 /\ forgotten = 0

\* A reservation which is not there, and every other error of the server, told from ids
\* by their sign.
NotFound == -404

Conflict == -409

Known(r) == r \in DOMAIN server /\ server[r] # "gone"

Fulfilled(r) == r \in DOMAIN server /\ server[r] = "fulfilled"

-----------------------------------------------------------------------------
(* The handlers up to their first request.                                 *)

Start(h, c) ==
  /\ handler = "idle"
  /\ handler' = h /\ call' = c /\ attempts' = 0
  /\ UNCHANGED <<scenario, recorded, server, lost, forgotten>>

create_instances_transfer ==
  /\ transfer_row = "none"
  /\ in_memory' = 0
  /\ Start("create", "add")

\* _check_reservation_for_transfer begins with the reservation which the transfer
\* has, and makes one if it has none.
_check_reservation_for_transfer(h) ==
  /\ in_memory' = reservation_id
  /\ Start(h, IF reservation_id = 0 THEN "add" ELSE "get")

\* handler = "idle": neither an execution nor a deployment of the transfer runs.
execute_transfer_tasks ==
  /\ transfer_row = "stored"
  /\ _check_reservation_for_transfer("execute")

\* A deployment which waited for its deployer is validated when it is executed.
deploy_transfer_instances ==
  /\ transfer_row = "stored" /\ replicated /\ deployed < MaxDeployments
  /\ \/ _check_reservation_for_transfer("deploy")
     \/ _check_reservation_for_transfer("auto deploy")

delete_transfer ==
  /\ transfer_row = "stored"
  /\ in_memory' = reservation_id
  /\ Start("delete", IF reservation_id = 0 THEN "none" ELSE "delete")

\* The tasks of an execution or a deployment have completed.  Replicas are charged
\* for executions, live migrations for deployments, with the reservation which the
\* database has.
_update_reservation_fulfillment_for_execution ==
  /\ handler \in {"executing", "deploying"} /\ call = "none"
  /\ in_memory' = reservation_id
  /\ attempts' = 0
  /\ IF <<scenario, handler>> \in {<<"replica", "executing">>,
                                   <<"live_migration", "deploying">>}
       THEN call' = "find"
       ELSE call' = "fulfilled"
  /\ UNCHANGED <<scenario, recorded, server, handler, lost, forgotten>>

-----------------------------------------------------------------------------
(* The requests.                                                           *)

\* One try is around the two requests about the reservation which the transfer has, and
\* makes a new one for an error with the code 404 or 409.
Errors == {NotFound, Conflict}

\* The next request of _check_reservation_for_transfer when the reservation was asked
\* for and the answer is r, its id or an error; a live migration whose reservation is
\* fulfilled is refused.
AfterGet(r) ==
  CASE r \in Errors -> "add"
    [] r \notin Errors /\ scenario = "live_migration" /\ Fulfilled(r) -> "refuse"
    [] OTHER -> "refresh"

AfterRefresh(r) == IF r \in Errors THEN "add" ELSE "save"

\* A mutant: a reservation which was found is taken for a fulfilled one.
ChargesNothing(r) == IF r = NotFound THEN "raise" ELSE "fulfilled"

\* _check_mark_reservation_fulfilled
AfterFind(r) ==
  CASE r = NotFound -> "raise"
    [] r # NotFound /\ server[r] = "fulfilled" -> "fulfilled"
    [] OTHER -> "fulfill"

\* The answer of the server is r, and the handler goes on.
Answer(r) ==
  LET next == CASE call = "add" -> "save"
                [] call = "get" -> AfterGet(r)
                [] call = "refresh" -> AfterRefresh(r)
                [] call = "find" -> AfterFind(r)
                [] call = "fulfill" -> IF r = NotFound THEN "raise" ELSE "fulfilled"
                [] call = "delete" -> "none"
  IN /\ attempts' = 0
     /\ in_memory' = IF call = "add" THEN r ELSE in_memory
     /\ call' = IF next \in {"refuse", "raise"} THEN "none" ELSE next
     /\ handler' = CASE next = "refuse" -> "idle"
                     [] next = "raise" -> "stuck"
                     [] OTHER -> handler

Requests == {"add", "get", "refresh", "find", "fulfill", "delete"}

\* What the server does with the request.
Effect ==
  CASE call = "add" -> Append(server, "open")
    [] call = "fulfill" -> IF Known(in_memory)
                             THEN [server EXCEPT ![in_memory] = "fulfilled"]
                             ELSE server
    [] call = "delete" -> IF Known(in_memory)
                            THEN [server EXCEPT ![in_memory] = "gone"] ELSE server
    [] OTHER -> server

CanServe == call = "add" => Len(server) < MaxReservations

\* What it answers: the id, or an error.
Answers ==
  CASE call = "add" -> {Len(server) + 1}
    [] call \in {"get", "refresh"} /\ Known(in_memory) /\ forgotten < MaxForgotten ->
         {in_memory, Conflict}
    [] call # "add" /\ Known(in_memory) -> {in_memory}
    [] OTHER -> {NotFound}

\* _do_req: the answer comes.
DoRequest ==
  /\ call \in Requests /\ CanServe
  /\ server' = Effect
  /\ \E r \in Answers : /\ Answer(r)
                         /\ forgotten' = IF r = Conflict THEN forgotten + 1 ELSE forgotten
  /\ UNCHANGED <<scenario, recorded, lost>>

\* What a request which has failed for the last time does to its handler.
Raises ==
  /\ attempts' = 0
  /\ call' = "none"
  /\ handler' = IF call \in {"find", "fulfill"} THEN "stuck"
                ELSE IF call = "delete" THEN handler ELSE "idle"
  /\ UNCHANGED in_memory

\* The request or its answer is lost, and retry_on_error sends it again.
LoseRequest ==
  /\ call \in Requests /\ CanServe /\ lost < MaxLost
  /\ lost' = lost + 1
  /\ server' \in {server, Effect}
  /\ IF attempts + 1 < MaxAttempts
       THEN attempts' = attempts + 1 /\ UNCHANGED <<handler, call, in_memory>>
       ELSE Raises
  /\ UNCHANGED <<scenario, recorded, forgotten>>

Forget ==
  /\ forgotten < MaxForgotten
  /\ \E r \in DOMAIN server : /\ server[r] # "gone"
                              /\ server' = [server EXCEPT ![r] = "gone"]
  /\ forgotten' = forgotten + 1
  /\ UNCHANGED <<scenario, recorded, handler, call, in_memory, attempts, lost>>

-----------------------------------------------------------------------------
(* What the handlers do with the answers.                                  *)

\* The new row of the transfer, and of an execution with the changes to the transfer
\* which it refers to; the transfer of a deployment which waited for its deployer is
\* not saved.
Save ==
  /\ call = "save"
  /\ transfer_row' = "stored"
  /\ IF handler = "auto deploy"
       THEN /\ UNCHANGED reservation_id
            /\ unsaved' = IF in_memory # reservation_id /\ Fulfilled(reservation_id)
                            THEN unsaved + 1 ELSE unsaved
       ELSE reservation_id' = in_memory /\ UNCHANGED unsaved
  /\ handler' = CASE handler = "create" -> "idle"
                  [] handler = "execute" -> "executing"
                  [] OTHER -> "deploying"
  /\ call' = "none"
  /\ UNCHANGED <<scenario, server, in_memory, attempts, replicated, deployed, lost,
                 forgotten>>

\* What was reserved is not given back if the row cannot be saved.
SaveFails ==
  /\ call = "save" /\ lost < MaxLost
  /\ lost' = lost + 1
  /\ handler' = "idle" /\ call' = "none"
  /\ UNCHANGED <<scenario, recorded, server, in_memory, attempts, forgotten>>

\* The status COMPLETED is saved once the reservation is marked.
_set_tasks_execution_status ==
  /\ handler \in {"executing", "deploying"} /\ call = "fulfilled"
  /\ IF handler = "executing" THEN replicated' = TRUE /\ UNCHANGED deployed
     ELSE deployed' = deployed + 1 /\ UNCHANGED replicated
  /\ handler' = "idle" /\ call' = "none"
  /\ UNCHANGED <<scenario, transfer_row, reservation_id, server, in_memory, attempts,
                 unsaved, lost, forgotten>>

\* An execution which has failed, or has been canceled because its COMPLETED status
\* could not be set, is over.
EndsInError ==
  /\ handler \in {"executing", "deploying", "stuck"} /\ call = "none"
  /\ handler' = "idle"
  /\ UNCHANGED <<scenario, recorded, server, call, in_memory, attempts, lost, forgotten>>

\* delete_transfer goes on whether the reservation could be deleted or not.
DeleteRow ==
  /\ handler = "delete" /\ call = "none"
  /\ transfer_row' = "deleted" /\ handler' = "idle"
  /\ UNCHANGED <<scenario, reservation_id, server, call, in_memory, attempts,
                 replicated, deployed, unsaved, lost, forgotten>>

LicensingNext ==
  \/ create_instances_transfer \/ execute_transfer_tasks
  \/ deploy_transfer_instances \/ delete_transfer
  \/ _update_reservation_fulfillment_for_execution
  \/ DoRequest \/ LoseRequest \/ Forget
  \/ Save \/ SaveFails \/ _set_tasks_execution_status \/ EndsInError \/ DeleteRow

LicensingSpec == LicensingInit /\ [][LicensingNext]_licensingVars

-----------------------------------------------------------------------------
LicensingTypeOK ==
  /\ reservation_id \in 0..MaxReservations /\ in_memory \in 0..MaxReservations
  /\ server \in Seq({"open", "fulfilled", "gone"})
  /\ attempts \in 0..MaxAttempts

\* Every completed deployment of a live migration was charged to a reservation of its
\* own, whatever requests were lost and sent again or answered with an error: a
\* fulfilled reservation is good for no other deployment.  The exception are those
\* deployments which waited for their deployer, had an error for an answer about the
\* fulfilled reservation of the transfer, and reserved anew: the new reservation is not
\* in the row of the transfer, so at its end such a deployment finds the fulfilled one
\* again.  A reservation which is gone may have been one of those charged.
DeploymentsAreCharged ==
  scenario = "live_migration" =>
    deployed <= Cardinality({r \in DOMAIN server : server[r] # "open"}) + unsaved

\* (Does not hold.)  The same without exception: an error of the licensing server lets a
\* live migration be deployed again, and nothing is charged for it.
EveryDeploymentIsCharged ==
  scenario = "live_migration" =>
    deployed <= Cardinality({r \in DOMAIN server : server[r] # "open"})

\* No replica has a completed execution which was not charged.
ReplicasAreCharged ==
  scenario = "replica" /\ replicated =>
    \E r \in DOMAIN server : server[r] # "open"

\* While nothing was lost and the server has not dropped anything, a transfer holds
\* one reservation which is not charged, and a deleted one none.
NothingHeldInVain ==
  (lost = 0 /\ forgotten = 0 /\ handler = "idle") =>
    \A r \in DOMAIN server :
      server[r] = "open" => r = reservation_id /\ transfer_row = "stored"

\* "Live migration transfers are marked as fulfilled as soon as they are deployed for
\* the first (and only) time."
DeployedOnce == scenario = "live_migration" => deployed <= 1
=============================================================================

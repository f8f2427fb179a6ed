--------------------------- MODULE RegistryProofs ---------------------------
(***************************************************************************)
(* What the services around the executions keep account of: which workers  *)
(* there are, and which of them a task is given, for any number of         *)
(* workers, endpoints and regions, of administrators' changes, restarts of *)
(* workers and lost calls; and what is charged to a licence, for any       *)
(* number of reservations, of lost and late calls and of reservations      *)
(* which the server drops.                                                 *)
(***************************************************************************)
EXTENDS Scheduler, Licensing, FiniteSetTheorems, SequenceTheorems, TLAPS

-----------------------------------------------------------------------------
(***************************************************************************)
(* The registration of workers                                             *)
(*                                                                         *)
(* Its promises are not inductive: a worker which registers itself enables *)
(* the service, so a service which is not there must not count as          *)
(* disabled; and a transaction which is about to disable a service must    *)
(* not outlive it.                                                         *)
(***************************************************************************)

Services == [stored : BOOLEAN, enabled : BOOLEAN, providers : SUBSET Endpoints]

Txns == [at : {"none", "begin", "commit"}, desired : SUBSET Regions,
         map : SUBSET Regions, unmap : SUBSET Regions, enabled : BOOLEAN,
         created : BOOLEAN]

RegistrationType ==
  /\ service \in [Hosts -> Services]
  /\ installed \in [Hosts -> SUBSET Endpoints]
  /\ worker \in [Hosts -> {"off", "done", "check", "update", "register"}]
  /\ shut \in [Hosts -> BOOLEAN]
  /\ txn \in [Targets -> Txns]
  /\ mappings \in [Targets -> SUBSET Regions]

\* A service which is not there is neither disabled nor being updated.
GoneIsForgotten ==
  \A h \in Hosts : ~service[h].stored => ~service[h].enabled /\ ~shut[h]
                                         /\ txn[h].at = "none"

RegInv == RegistrationType /\ GoneIsForgotten /\ DisabledStays /\ KnownAsItIs

\* What the invariant is about.
registration == <<service, txn, mappings, installed, worker, shut>>

-----------------------------------------------------------------------------
(* Steps which leave the services of workers as they are.                  *)

\* Most steps below are first-order consequences of a few facts: Zenon is tried first, and
\* the steps which need records, functions or arithmetic name SMT.
USE Zenon

\* A step which changes none of it keeps the invariant.
LEMMA SameRegistration ==
  ASSUME RegInv, UNCHANGED registration
  PROVE  RegInv'
BY DEF RegInv, RegistrationType, GoneIsForgotten, DisabledStays, KnownAsItIs,
   registration

\* Regions come and go with their mappings.
LEMMA RegionSteps ==
  ASSUME RegInv, NEW r \in Regions,
         create_region(r) \/ update_region(r) \/ delete_region(r)
  PROVE  RegInv'
<1>1. UNCHANGED <<service, txn, installed, worker, shut>>
  BY DEF create_region, update_region, delete_region, workers
<1>2. mappings' \in [Targets -> SUBSET Regions]
  BY DEF RegInv, RegistrationType, create_region, update_region, delete_region
<1> QED
  BY <1>1, <1>2 DEF RegInv, RegistrationType, GoneIsForgotten, DisabledStays,
     KnownAsItIs

\* An endpoint is no host, so what happens to it changes no service.
LEMMA EndpointSteps ==
  ASSUME Endpoints \cap Hosts = {}, RegInv, NEW e \in Endpoints,
         NEW rs \in SUBSET Regions,
         create_endpoint(e, rs) \/ update_endpoint(e, rs) \/ delete_endpoint(e)
  PROVE  RegInv'
<1>1. UNCHANGED <<service, installed, worker, shut>>
  BY DEF create_endpoint, update_endpoint, delete_endpoint, workers, tables
<1>2. mappings' \in [Targets -> SUBSET Regions]
  BY DEF RegInv, RegistrationType, create_endpoint, update_endpoint,
     delete_endpoint, tables, Targets
<1>3. txn' \in [Targets -> Txns]
  <2>1. /\ NoTxn \in Txns
        /\ [NoTxn EXCEPT !.at = "begin", !.desired = rs, !.created = TRUE] \in Txns
        /\ [NoTxn EXCEPT !.at = "begin", !.desired = rs] \in Txns
    BY DEF NoTxn, Txns
  <2> QED
    BY <2>1 DEF RegInv, RegistrationType, create_endpoint, update_endpoint,
       delete_endpoint, tables, Targets
<1>4. \A h \in Hosts : txn'[h] = txn[h]
  BY DEF RegInv, RegistrationType, create_endpoint, update_endpoint,
     delete_endpoint, Targets
<1> QED
  BY <1>1, <1>2, <1>3, <1>4 DEF RegInv, RegistrationType, GoneIsForgotten,
     DisabledStays, KnownAsItIs

-----------------------------------------------------------------------------
(* The services.                                                           *)

LEMMA ServiceSteps ==
  ASSUME RegInv, NEW h \in Hosts, NEW on \in BOOLEAN, NEW rs \in SUBSET Regions,
         \/ register_service(h, on, rs) \/ update_service(h, on, rs)
         \/ delete_service(h) \/ refresh_service_status(h)
  PROVE  RegInv'
<1> USE DEF RegInv, RegistrationType, Services, Txns, NoTxn, NoService, Targets
<1>1. CASE register_service(h, on, rs)
  <2>1. RegistrationType'
    BY <1>1 DEF register_service, workers
  <2>2. GoneIsForgotten' /\ DisabledStays' /\ KnownAsItIs'
    BY <1>1 DEF register_service, workers, GoneIsForgotten, DisabledStays,
       KnownAsItIs
  <2> QED
    BY <2>1, <2>2
<1>2. CASE update_service(h, on, rs)
  <2>1. RegistrationType'
    BY <1>2 DEF update_service, workers, tables
  <2>2. GoneIsForgotten' /\ DisabledStays' /\ KnownAsItIs'
    BY <1>2 DEF update_service, workers, tables, GoneIsForgotten, DisabledStays,
       KnownAsItIs
  <2> QED
    BY <2>1, <2>2
<1>3. CASE delete_service(h)
  <2>1. RegistrationType'
    BY <1>3 DEF delete_service, workers
  <2>2. GoneIsForgotten' /\ DisabledStays' /\ KnownAsItIs'
    BY SMT, <1>3 DEF delete_service, workers, GoneIsForgotten, DisabledStays,
       KnownAsItIs
  <2> QED
    BY <2>1, <2>2
<1>4. CASE refresh_service_status(h)
  <2>1. [service[h] EXCEPT !.providers = installed[h]] \in Services
    BY SMT DEF RegistrationType, Services
  <2>2. RegistrationType'
    BY <1>4, <2>1 DEF refresh_service_status, workers, RegistrationType
  <2>3. GoneIsForgotten' /\ DisabledStays' /\ KnownAsItIs'
    BY SMT, <1>4 DEF refresh_service_status, workers, GoneIsForgotten, DisabledStays,
       KnownAsItIs
  <2> QED
    BY <2>2, <2>3
<1> QED
  BY <1>1, <1>2, <1>3, <1>4

\* The transaction of a target changes no other target's, and that of a service no
\* other service: it is over when the service is gone, and what it writes is what
\* the administrator wants.
LEMMA TransactionSteps ==
  ASSUME RegInv, NEW t \in Targets, BeginUpdate(t) \/ CommitUpdate(t)
  PROVE  RegInv'
<1> USE DEF RegInv, RegistrationType, Services, Txns, NoTxn, NoService, Targets
<1>1. CASE BeginUpdate(t)
  <2>1. UNCHANGED <<mappings, installed, worker>>
    BY <1>1 DEF BeginUpdate, workers
  <2>2. CASE txn[t].created /\ ~\A r \in txn[t].desired : Exists(r)
    <3>1. /\ txn' = [txn EXCEPT ![t] = NoTxn]
          /\ service' = [h \in Hosts |-> IF h = t THEN NoService ELSE service[h]]
          /\ shut' = [h \in Hosts |-> h # t /\ shut[h]]
      BY <1>1, <2>2 DEF BeginUpdate
    <3>2. RegistrationType'
      BY <2>1, <3>1
    <3>3. GoneIsForgotten' /\ DisabledStays' /\ KnownAsItIs'
      BY <2>1, <3>1 DEF GoneIsForgotten, DisabledStays, KnownAsItIs
    <3> QED
      BY <3>2, <3>3
  <2>3. CASE ~(txn[t].created /\ ~\A r \in txn[t].desired : Exists(r))
    <3>1. UNCHANGED <<service, shut>>
      BY <1>1, <2>3 DEF BeginUpdate
    <3>2. txn[t].at = "begin"
      BY <1>1 DEF BeginUpdate
    <3>3. PICK x \in Txns : txn' = [txn EXCEPT ![t] = x]
      <4>1. [txn[t] EXCEPT !.at = "commit", !.map = txn[t].desired \ mappings[t],
                           !.unmap = mappings[t] \ txn[t].desired] \in Txns
        <5>1. txn[t] \in Txns /\ mappings[t] \subseteq Regions
          OBVIOUS
        <5>2. txn[t].desired \subseteq Regions
          BY <5>1
        <5> QED
          BY <5>1, <5>2
      <4>2. NoTxn \in Txns
        OBVIOUS
      <4> QED
        BY <1>1, <4>1, <4>2 DEF BeginUpdate
    <3>4. RegistrationType'
      BY <2>1, <3>1, <3>3
    <3>5. GoneIsForgotten' /\ DisabledStays' /\ KnownAsItIs'
      BY <2>1, <3>1, <3>2, <3>3 DEF GoneIsForgotten, DisabledStays, KnownAsItIs
    <3> QED
      BY <3>4, <3>5
  <2> QED
    BY <2>2, <2>3
<1>2. CASE CommitUpdate(t)
  <2>1. /\ UNCHANGED <<installed, worker>>
        /\ txn' = [txn EXCEPT ![t] = NoTxn]
        /\ mappings' = [mappings EXCEPT ![t] = (@ \cup txn[t].map) \ txn[t].unmap]
        /\ shut' = [h \in Hosts |-> IF h = t THEN ~txn[t].enabled ELSE shut[h]]
    BY <1>2 DEF CommitUpdate, workers
  <2>2. service' = [h \in Hosts |-> IF h = t /\ service[h].stored
                                   THEN [service[h] EXCEPT !.enabled = txn[t].enabled]
                                   ELSE service[h]]
    BY <1>2 DEF CommitUpdate
  <2>3. service' \in [Hosts -> Services]
    <3>1. service \in [Hosts -> Services] /\ txn[t].enabled \in BOOLEAN
      OBVIOUS
    <3>2. ASSUME NEW row \in Services, NEW b \in BOOLEAN
          PROVE  [row EXCEPT !.enabled = b] \in Services
      BY SMT
    <3> QED
      BY <2>2, <3>1, <3>2
  <2>4. RegistrationType'
    BY <2>1, <2>3
  <2>5. GoneIsForgotten' /\ DisabledStays' /\ KnownAsItIs'
    BY SMT, <1>2 DEF CommitUpdate, workers, GoneIsForgotten, DisabledStays, KnownAsItIs
  <2> QED
    BY <2>4, <2>5
<1> QED
  BY <1>1, <1>2

\* A worker which registers itself never enables a service which is there.
LEMMA WorkerSteps ==
  ASSUME RegInv, NEW h \in Hosts, StartWorker(h) \/ Registration(h) \/ LoseCall(h)
  PROVE  RegInv'
<1> USE DEF RegInv, RegistrationType, Services, Targets
<1>1. UNCHANGED <<txn, mappings, shut>>
  BY DEF StartWorker, Registration, check_service_registered, UpdateRegistration,
     RegisterSelf, LoseCall, tables
<1>2. CASE StartWorker(h)
  BY SMT, <1>1, <1>2 DEF StartWorker, tables, GoneIsForgotten, DisabledStays, KnownAsItIs
<1>3. CASE check_service_registered(h)
  BY <1>1, <1>3 DEF check_service_registered, tables, GoneIsForgotten, DisabledStays,
     KnownAsItIs
<1>4. CASE UpdateRegistration(h)
  <2>1. installed' = installed
    BY <1>4 DEF UpdateRegistration
  <2>2. CASE service[h].stored
    <3>1. /\ service' = [service EXCEPT ![h].providers = installed[h]]
          /\ worker' = [worker EXCEPT ![h] = "done"]
      BY <1>4, <2>2 DEF UpdateRegistration
    <3>2. RegistrationType'
      BY <1>1, <2>1, <3>1
    <3> QED
      BY SMT, <1>1, <2>1, <2>2, <3>1, <3>2 DEF GoneIsForgotten, DisabledStays, KnownAsItIs
  <2>3. CASE ~service[h].stored
    <3>1. service' = service /\ worker' = [worker EXCEPT ![h] = "check"]
      BY <1>4, <2>3 DEF UpdateRegistration
    <3> QED
      BY <1>1, <2>1, <3>1 DEF GoneIsForgotten, DisabledStays, KnownAsItIs
  <2> QED
    BY <2>2, <2>3
<1>5. ASSUME NEW x \in {"done", "check"},
             ~service[h].stored,
             installed' = installed,
             service' = [service EXCEPT ![h] = [stored |-> TRUE, enabled |-> TRUE,
                                                providers |-> installed[h]]],
             worker' = [worker EXCEPT ![h] = x]
      PROVE  RegInv'
  <2>1. RegistrationType'
    BY <1>1, <1>5
  <2> QED
    BY <1>1, <1>5, <2>1 DEF GoneIsForgotten, DisabledStays, KnownAsItIs
<1>6. ASSUME UNCHANGED <<installed, service>>,
             worker' = [worker EXCEPT ![h] = "check"]
      PROVE  RegInv'
  BY <1>1, <1>6 DEF GoneIsForgotten, DisabledStays, KnownAsItIs
<1>7. CASE RegisterSelf(h)
  BY <1>5, <1>6, <1>7 DEF RegisterSelf
<1>8. CASE LoseCall(h)
  BY <1>5, <1>6, <1>8 DEF LoseCall
<1> QED
  BY <1>2, <1>3, <1>4, <1>7, <1>8 DEF Registration

-----------------------------------------------------------------------------
LEMMA InitRegInv ==
  ASSUME SchedInit
  PROVE  RegInv
<1>1. RegistrationType
  BY DEF SchedInit, RegistrationType, Services, Txns, NoTxn, NoService
<1>2. GoneIsForgotten /\ DisabledStays /\ KnownAsItIs
  BY DEF SchedInit, GoneIsForgotten, DisabledStays, KnownAsItIs, NoTxn, NoService,
     Targets
<1> QED
  BY <1>1, <1>2 DEF RegInv

LEMMA NextRegInv ==
  ASSUME Endpoints \cap Hosts = {}, RegInv, [SchedNext]_schedVars
  PROVE  RegInv'
<1>1. CASE UNCHANGED schedVars
  BY <1>1, SameRegistration DEF schedVars, registration
<1>2. CASE SchedNext
  <2>1. CASE \E r \in Regions : create_region(r) \/ update_region(r) \/ delete_region(r)
    BY <2>1, RegionSteps
  <2>2. CASE \E e \in Endpoints, rs \in SUBSET Regions :
               create_endpoint(e, rs) \/ update_endpoint(e, rs)
    BY <2>2, EndpointSteps
  <2>3. CASE \E e \in Endpoints : delete_endpoint(e) \/ ReadEndpoint(e)
    <3>1. PICK e \in Endpoints : delete_endpoint(e) \/ ReadEndpoint(e)
      BY <2>3
    <3>2. CASE delete_endpoint(e)
      <4>1. {} \in SUBSET Regions
        OBVIOUS
      <4> QED
        BY <3>2, <4>1, EndpointSteps
    <3>3. CASE ReadEndpoint(e)
      BY <3>3, SameRegistration DEF ReadEndpoint, registration, tables, workers
    <3> QED
      BY <3>1, <3>2, <3>3
  <2>4. CASE \E h \in Hosts, on \in BOOLEAN, rs \in SUBSET Regions :
               register_service(h, on, rs) \/ update_service(h, on, rs)
    BY <2>4, ServiceSteps
  <2>5. CASE \E h \in Hosts :
               \/ delete_service(h) \/ refresh_service_status(h)
               \/ StartWorker(h) \/ Registration(h) \/ LoseCall(h)
    <3>1. PICK h \in Hosts :
               \/ delete_service(h) \/ refresh_service_status(h)
               \/ StartWorker(h) \/ Registration(h) \/ LoseCall(h)
      BY <2>5
    <3>2. {} \in SUBSET Regions /\ TRUE \in BOOLEAN
      OBVIOUS
    <3>3. CASE delete_service(h) \/ refresh_service_status(h)
      BY <3>2, <3>3, ServiceSteps
    <3>4. CASE StartWorker(h) \/ Registration(h) \/ LoseCall(h)
      BY <3>4, WorkerSteps
    <3> QED
      BY <3>1, <3>3, <3>4
  <2>6. CASE \E t \in Targets : BeginUpdate(t) \/ CommitUpdate(t)
    BY <2>6, TransactionSteps
  <2>7. CASE \/ AddTransfer
             \/ \E needs \in SUBSET Endpoints \ {{}} : get_worker_service_for_task(needs)
             \/ ReadServices \/ ChooseWorker
    <3>1. UNCHANGED registration
      BY <2>7 DEF AddTransfer, get_worker_service_for_task, ReadServices,
         ChooseWorker, registration, tables, workers
    <3> QED
      BY <3>1, SameRegistration
  <2> QED
    BY <1>2, <2>1, <2>2, <2>3, <2>4, <2>5, <2>6, <2>7 DEF SchedNext
<1> QED
  BY <1>1, <1>2

\* The invariant of the registration of workers, where endpoints and hosts have
\* different names, as the rows of their tables have different ids.
THEOREM RegistrationInvariant ==
  Endpoints \cap Hosts = {} /\ SchedSpec => []RegInv
<1>1. SchedInit => RegInv
  BY InitRegInv
<1>2. Endpoints \cap Hosts = {} /\ RegInv /\ [SchedNext]_schedVars => RegInv'
  BY NextRegInv
<1>3. CASE Endpoints \cap Hosts = {}
  <2>1. RegInv /\ [SchedNext]_schedVars => RegInv'
    BY <1>2, <1>3
  <2> QED
    BY <1>1, <2>1, PTL DEF SchedSpec
<1> QED
  BY <1>3

\* A service which an administrator has disabled is never enabled by its worker's
\* registration, whatever calls of it are lost or sent again
\* (check_create_registration_for_service, register_service, update_service).
THEOREM DisabledServiceNeverEnabled ==
  Endpoints \cap Hosts = {} /\ SchedSpec => []DisabledStays
<1>1. RegInv => DisabledStays
  BY DEF RegInv
<1> QED
  BY <1>1, RegistrationInvariant, PTL

\* A worker which has registered itself is known with the providers it has, whoever
\* else has registered, refreshed or deleted its service meanwhile.
THEOREM RegisteredProvidersCurrent ==
  Endpoints \cap Hosts = {} /\ SchedSpec => []KnownAsItIs
<1>1. RegInv => KnownAsItIs
  BY DEF RegInv
<1> QED
  BY <1>1, RegistrationInvariant, PTL

-----------------------------------------------------------------------------
(***************************************************************************)
(* The choice of a worker                                                  *)
(*                                                                         *)
(* What a task has read of the endpoints and the services is what is       *)
(* there, as long as nothing was changed since it was begun.               *)
(***************************************************************************)

TaskType ==
  /\ task = [at |-> task.at, needs |-> task.needs, sets |-> task.sets,
             offers |-> task.offers, tries |-> task.tries, granted |-> task.granted]
  /\ task.needs \subseteq Endpoints
  /\ task.granted \subseteq Hosts

ReadAsItIs ==
  ~changed =>
    /\ task.at \in {"services", "regions"} =>
         task.sets = [e \in task.needs |-> mappings[e]]
    /\ task.at = "regions" =>
         task.offers = [h \in Hosts |-> [is |-> service[h], regions |-> mappings[h]]]

ChoiceInv == SchedTypeOK /\ TaskType /\ ReadAsItIs /\ GrantedFits

\* The tables keep their types.
LEMMA TableTypes ==
  ASSUME Endpoints \cap Hosts = {}, RegInv', ChoiceInv, [SchedNext]_schedVars
  PROVE  /\ region' \in [Regions -> {"none", "enabled", "disabled", "deleted"}]
         /\ endpoint' \in [Endpoints -> {"none", "stored", "deleted"}]
         /\ mappings' \in [Targets -> SUBSET Regions]
<1>1. mappings' \in [Targets -> SUBSET Regions]
  BY DEF RegInv, RegistrationType
<1>2. \/ UNCHANGED region
      \/ \E r \in Regions, status \in {"enabled", "disabled", "deleted"} :
           region' = [region EXCEPT ![r] = status]
  <2>1. ASSUME NEW r \in Regions, update_region(r)
        PROVE  \E status \in {"enabled", "disabled", "deleted"} :
                 region' = [region EXCEPT ![r] = status]
    BY <2>1 DEF update_region
  <2> QED
    BY <2>1 DEF SchedNext, schedVars, create_region, delete_region, create_endpoint,
       update_endpoint, delete_endpoint, ReadEndpoint, register_service, update_service,
       delete_service, refresh_service_status, StartWorker, Registration,
       check_service_registered, UpdateRegistration, RegisterSelf, LoseCall, BeginUpdate,
       CommitUpdate, AddTransfer, get_worker_service_for_task, ReadServices,
       ChooseWorker, tables
<1>3. \/ UNCHANGED endpoint
      \/ \E e \in Endpoints, status \in {"stored", "deleted"} :
           endpoint' = [endpoint EXCEPT ![e] = status]
      \/ \E t \in Targets : BeginUpdate(t)
  BY DEF SchedNext, schedVars, create_region, update_region, delete_region,
     create_endpoint, update_endpoint, delete_endpoint, ReadEndpoint, register_service,
     update_service, delete_service, refresh_service_status, StartWorker, Registration,
     check_service_registered, UpdateRegistration, RegisterSelf, LoseCall, CommitUpdate,
     AddTransfer, get_worker_service_for_task, ReadServices, ChooseWorker, tables
<1>4. ASSUME NEW t \in Targets, BeginUpdate(t)
      PROVE  endpoint' \in [Endpoints -> {"none", "stored", "deleted"}]
  BY <1>4 DEF BeginUpdate, ChoiceInv, SchedTypeOK
<1>5. region' \in [Regions -> {"none", "enabled", "disabled", "deleted"}]
  BY <1>2 DEF ChoiceInv, SchedTypeOK
<1>6. endpoint' \in [Endpoints -> {"none", "stored", "deleted"}]
  BY <1>3, <1>4 DEF ChoiceInv, SchedTypeOK
<1> QED
  BY <1>1, <1>5, <1>6

\* Whatever changes what a task reads is noticed.
LEMMA ChangesAreNoticed ==
  ASSUME [SchedNext]_schedVars
  PROVE  \/ UNCHANGED task /\ changed'
         \/ UNCHANGED <<task, service, mappings, changed>>
         \/ \E needs \in SUBSET Endpoints \ {{}} : get_worker_service_for_task(needs)
         \/ ReadServices \/ ChooseWorker
<1>1. ASSUME NEW t \in Targets, BeginUpdate(t)
      PROVE  \/ UNCHANGED task /\ changed'
             \/ UNCHANGED <<task, service, mappings, changed>>
  BY <1>1 DEF BeginUpdate
<1> QED
  BY <1>1 DEF SchedNext, schedVars, create_region, update_region, delete_region,
     create_endpoint, update_endpoint, delete_endpoint, ReadEndpoint, register_service,
     update_service, delete_service, refresh_service_status, StartWorker, Registration,
     check_service_registered, UpdateRegistration, RegisterSelf, LoseCall, CommitUpdate,
     AddTransfer, tables, Change

\* A worker which was suitable by what was read of it is suitable, if that is as it was.
LEMMA ChoiceFits ==
  ASSUME ChoiceInv, NEW h \in Hosts, Suitable(h), task.at = "regions", ~changed
  PROVE  /\ service[h].stored /\ service[h].enabled
         /\ task.needs \subseteq service[h].providers
         /\ \A e \in task.needs : mappings[e] # {} => mappings[e] \cap mappings[h] # {}
<1>1. /\ task.sets = [e \in task.needs |-> mappings[e]]
      /\ task.offers[h] = [is |-> service[h], regions |-> mappings[h]]
  BY DEF ChoiceInv, ReadAsItIs
<1> QED
  BY SMT, <1>1 DEF Suitable, RegionsRated

LEMMA ChoiceSteps ==
  ASSUME ChoiceInv,
         \/ \E needs \in SUBSET Endpoints \ {{}} : get_worker_service_for_task(needs)
         \/ ReadServices \/ ChooseWorker
  PROVE  TaskType' /\ ReadAsItIs' /\ GrantedFits'
<1> USE DEF ChoiceInv
<1>1. UNCHANGED <<service, mappings>>
  BY DEF get_worker_service_for_task, ReadServices, ChooseWorker, tables
<1>2. CASE \E needs \in SUBSET Endpoints \ {{}} : get_worker_service_for_task(needs)
  <2>1. PICK needs \in SUBSET Endpoints : get_worker_service_for_task(needs)
    BY <1>2
  <2>2. task' = [at |-> "services", needs |-> needs, sets |-> [e \in needs |-> mappings[e]],
                 offers |-> <<>>, tries |-> 0, granted |-> {}]
    BY <2>1 DEF get_worker_service_for_task, NoTask
  <2> QED
    BY <1>1, <2>2 DEF TaskType, ReadAsItIs, GrantedFits
<1>3. CASE ReadServices
  <2>1. /\ task' = [at |-> "regions", needs |-> task.needs, sets |-> task.sets,
                    offers |-> [h \in Hosts |-> [is |-> service[h], regions |-> mappings[h]]],
                    tries |-> task.tries, granted |-> task.granted]
        /\ task.at = "services" /\ UNCHANGED changed
    BY <1>3 DEF ReadServices, TaskType
  <2> QED
    BY <1>1, <2>1 DEF TaskType, ReadAsItIs, GrantedFits
<1>4. ASSUME NEW h \in Hosts, Suitable(h), ChooseWorker,
             task' = [NoTask EXCEPT !.at = "granted", !.granted = {h},
                                    !.needs = task.needs]
      PROVE  TaskType' /\ ReadAsItIs' /\ GrantedFits'
  <2>1. task' = [at |-> "granted", needs |-> task.needs, sets |-> <<>>,
                 offers |-> <<>>, tries |-> 0, granted |-> {h}]
    BY <1>4 DEF NoTask
  <2>2. task.at = "regions" /\ UNCHANGED changed
    BY <1>4 DEF ChooseWorker
  <2>3. TaskType' /\ ReadAsItIs'
    BY <2>1 DEF TaskType, ReadAsItIs
  <2>4. GrantedFits'
    BY SMT, <1>1, <1>4, <2>1, <2>2, ChoiceFits DEF GrantedFits
  <2> QED
    BY <2>3, <2>4
<1>5. ASSUME task' = [NoTask EXCEPT !.at = "failed"]
      PROVE  TaskType' /\ ReadAsItIs' /\ GrantedFits'
  BY <1>5 DEF NoTask, TaskType, ReadAsItIs, GrantedFits
<1>6. ASSUME ChooseWorker,
             task' = [task EXCEPT !.tries = @ + 1, !.at = "services", !.offers = <<>>]
      PROVE  TaskType' /\ ReadAsItIs' /\ GrantedFits'
  <2>1. task' = [at |-> "services", needs |-> task.needs, sets |-> task.sets,
                 offers |-> <<>>, tries |-> task.tries + 1, granted |-> task.granted]
    <3>1. PICK a, n, s, o, t, g :
            task = [at |-> a, needs |-> n, sets |-> s, offers |-> o, tries |-> t, granted |-> g]
      BY DEF TaskType
    <3>2. task.needs = n /\ task.sets = s /\ task.tries = t /\ task.granted = g
      BY <3>1
    <3>3. DOMAIN task' = {"at", "needs", "sets", "offers", "tries", "granted"}
      BY <1>6, <3>1
    <3>4. /\ task'.at = "services" /\ task'.needs = n /\ task'.sets = s
          /\ task'.offers = <<>> /\ task'.tries = t + 1 /\ task'.granted = g
      BY <1>6, <3>1, <3>2
    <3>5. task' = [f \in DOMAIN task' |-> task'[f]]
      BY <1>6
    <3> QED
      BY <3>2, <3>3, <3>4, <3>5
  <2>2. task.at = "regions" /\ UNCHANGED changed
    BY <1>6 DEF ChooseWorker
  <2> QED
    BY <1>1, <2>1, <2>2 DEF TaskType, ReadAsItIs, GrantedFits
<1>7. CASE ChooseWorker
  BY <1>4, <1>5, <1>6, <1>7 DEF ChooseWorker
<1> QED
  BY <1>2, <1>3, <1>7

LEMMA NextChoiceInv ==
  ASSUME Endpoints \cap Hosts = {}, RegInv', ChoiceInv, [SchedNext]_schedVars
  PROVE  ChoiceInv'
<1>1. ASSUME UNCHANGED task /\ changed'
      PROVE  TaskType' /\ ReadAsItIs' /\ GrantedFits'
  BY <1>1 DEF ChoiceInv, TaskType, ReadAsItIs, GrantedFits
<1>2. ASSUME UNCHANGED <<task, service, mappings, changed>>
      PROVE  TaskType' /\ ReadAsItIs' /\ GrantedFits'
  BY SMT, <1>2 DEF ChoiceInv, TaskType, ReadAsItIs, GrantedFits
<1>3. TaskType' /\ ReadAsItIs' /\ GrantedFits'
  BY <1>1, <1>2, ChangesAreNoticed, ChoiceSteps
<1> QED
  BY <1>3, TableTypes DEF ChoiceInv, SchedTypeOK, TaskType

LEMMA InitChoiceInv ==
  ASSUME SchedInit
  PROVE  ChoiceInv
BY DEF SchedInit, ChoiceInv, SchedTypeOK, TaskType, ReadAsItIs, GrantedFits, NoTask
-----------------------------------------------------------------------------
(***************************************************************************)
(* The licence                                                             *)
(*                                                                         *)
(* Every completed deployment of a live migration is charged to a          *)
(* reservation of its own.                                                 *)
(*                                                                         *)
(* The invariant has to know that the reservation with which a deployment  *)
(* goes on is not yet fulfilled when its tasks start, which is what        *)
(* _check_reservation_for_transfer is for, that the row of the transfer    *)
(* has another one only if the new one of a deployment which waited for    *)
(* its deployer was not saved, and that a deployment whose request to      *)
(* fulfill it was lost on the way back has charged it all the same.        *)
(***************************************************************************)

States == {"open", "fulfilled", "gone"}

Charged(s) == {r \in DOMAIN s : s[r] # "open"}

LType ==
  /\ server \in Seq(States)
  /\ reservation_id \in Int /\ in_memory \in Int
  /\ deployed \in Nat /\ unsaved \in Nat
  /\ call \in {"get", "add", "refresh", "save"} =>
       handler \in {"create", "execute", "deploy", "auto deploy"}
  /\ handler \in {"deploy", "auto deploy"} => call \in {"get", "add", "refresh", "save"}
  /\ handler = "deploying" => call \in {"none", "find", "fulfill", "fulfilled"}
  /\ call \in {"find", "fulfill"} => handler \in {"executing", "deploying"}
  /\ handler = "executing" /\ scenario = "live_migration" => call \in {"none", "fulfilled"}

\* What a deployment knows of the reservation at each of its requests.
Follows ==
  /\ handler \in {"deploy", "auto deploy"} /\ call \in {"refresh", "save"} =>
       ~Fulfilled(in_memory)
  /\ handler = "deploying" =>
       /\ call \in {"find", "fulfill"} => in_memory = reservation_id
       /\ Fulfilled(reservation_id) \/ call = "fulfilled" =>
            deployed < Cardinality(Charged(server)) + unsaved

LInv ==
  /\ LType
  /\ scenario = "live_migration" =>
       Follows /\ deployed <= Cardinality(Charged(server)) + unsaved

-----------------------------------------------------------------------------
(* The reservations which are charged.                                     *)

LEMMA ChargedFinite ==
  ASSUME NEW s \in Seq(States)
  PROVE  IsFiniteSet(Charged(s)) /\ Cardinality(Charged(s)) \in Nat
<1>1. DOMAIN s = 1..Len(s) /\ Len(s) \in Nat
  BY SMT
<1>2. IsFiniteSet(1..Len(s))
  BY SMT, <1>1, FS_Interval
<1>3. IsFiniteSet(Charged(s))
  BY <1>1, <1>2, FS_Subset DEF Charged
<1> QED
  BY <1>3, FS_CardinalityType

\* A reservation which is made is not charged.
LEMMA ChargedAppend ==
  ASSUME NEW s \in Seq(States)
  PROVE  Charged(Append(s, "open")) = Charged(s) /\ Append(s, "open") \in Seq(States)
BY SMT DEF Charged, States

\* One which is fulfilled or dropped is charged from then on, and no other one is
\* less so.
LEMMA ChargedExcept ==
  ASSUME NEW s \in Seq(States), NEW r \in DOMAIN s, NEW v \in {"fulfilled", "gone"}
  PROVE  LET t == [s EXCEPT ![r] = v]
         IN /\ t \in Seq(States) /\ DOMAIN t = DOMAIN s
            /\ Cardinality(Charged(s)) <= Cardinality(Charged(t))
            /\ s[r] = "open" => Cardinality(Charged(t)) = Cardinality(Charged(s)) + 1
<1> DEFINE t == [s EXCEPT ![r] = v]
<1>1. t \in Seq(States) /\ DOMAIN t = DOMAIN s
  BY SMT DEF States
<1>2. Charged(t) = Charged(s) \cup {r}
  BY <1>1 DEF Charged, States
<1>3. IsFiniteSet(Charged(s)) /\ IsFiniteSet(Charged(t))
  BY <1>1, ChargedFinite
<1>4. Cardinality(Charged(s)) \in Nat /\ Cardinality(Charged(t)) \in Nat
  BY <1>1, ChargedFinite
<1>5. Cardinality(Charged(s)) <= Cardinality(Charged(t))
  BY <1>2, <1>3, FS_Subset
<1>6. s[r] = "open" => Cardinality(Charged(t)) = Cardinality(Charged(s)) + 1
  <2>1. s[r] = "open" => r \notin Charged(s)
    BY DEF Charged
  <2> QED
    BY <1>2, <1>3, <2>1, FS_AddElement
<1> QED
  BY <1>1, <1>5, <1>6

-----------------------------------------------------------------------------
(* The steps.                                                              *)

\* What the server does to a request: only a request to fulfill a reservation
\* fulfills one, that one, and charges it unless it is charged already.
LEMMA EffectFacts ==
  ASSUME LType
  PROVE  /\ Effect \in Seq(States)
         /\ Cardinality(Charged(server)) \in Nat
         /\ Cardinality(Charged(Effect)) \in Nat
         /\ Cardinality(Charged(server)) <= Cardinality(Charged(Effect))
         /\ \A r \in Int : r \in DOMAIN Effect /\ Effect[r] = "fulfilled" =>
              Fulfilled(r) \/ (call = "fulfill" /\ r = in_memory)
         /\ call = "add" => Effect[Len(server) + 1] = "open"
         /\ call = "fulfill" /\ Known(in_memory) /\ ~Fulfilled(in_memory) =>
              Cardinality(Charged(server)) < Cardinality(Charged(Effect))
<1>s. server \in Seq(States) /\ in_memory \in Int
  BY DEF LType
<1>d. DOMAIN server = 1..Len(server) /\ Len(server) \in Nat
  BY SMT, <1>s
<1>1. Cardinality(Charged(server)) \in Nat
  BY <1>s, ChargedFinite
<1>2. CASE call = "add"
  <2>1. Effect = Append(server, "open")
    BY <1>2 DEF Effect
  <2>2. Charged(Effect) = Charged(server) /\ Effect \in Seq(States)
    BY <1>s, <2>1, ChargedAppend
  <2>3. DOMAIN Effect = 1..(Len(server) + 1) /\ DOMAIN server = 1..Len(server)
    BY SMT, <1>s, <1>d, <2>1
  <2>4. \A r \in DOMAIN Effect :
          Effect[r] = IF r = Len(server) + 1 THEN "open" ELSE server[r]
    BY SMT, <1>s, <2>1, <2>3
  <2>5. \A r \in Int : r \in DOMAIN Effect /\ Effect[r] = "fulfilled" => Fulfilled(r)
    BY SMT, <1>d, <2>3, <2>4 DEF Fulfilled
  <2>6. Effect[Len(server) + 1] = "open"
    BY SMT, <1>d, <2>3, <2>4
  <2> QED
    BY SMT, <1>1, <1>2, <2>2, <2>5, <2>6
<1>3. CASE call \in {"fulfill", "delete"} /\ Known(in_memory)
  <2> DEFINE v == IF call = "fulfill" THEN "fulfilled" ELSE "gone"
  <2>1. v \in {"fulfilled", "gone"} /\ in_memory \in DOMAIN server
    BY <1>3 DEF Known
  <2>2. Effect = [server EXCEPT ![in_memory] = v]
    BY <1>3 DEF Effect
  <2>3. /\ Effect \in Seq(States) /\ DOMAIN Effect = DOMAIN server
        /\ Cardinality(Charged(server)) <= Cardinality(Charged(Effect))
        /\ server[in_memory] = "open" =>
             Cardinality(Charged(Effect)) = Cardinality(Charged(server)) + 1
    BY <1>s, <2>1, <2>2, ChargedExcept
  <2>4. Cardinality(Charged(Effect)) \in Nat
    BY <2>3, ChargedFinite
  <2>5. \A r \in Int : r \in DOMAIN Effect /\ Effect[r] = "fulfilled" =>
          Fulfilled(r) \/ (call = "fulfill" /\ r = in_memory)
    BY <1>3, <2>1, <2>2, <2>3 DEF Fulfilled
  <2>6. call = "fulfill" /\ ~Fulfilled(in_memory) => server[in_memory] = "open"
    <3>1. server[in_memory] \in States
      BY SMT, <1>s, <2>1
    <3> QED
      BY <1>3, <2>1, <3>1 DEF Known, Fulfilled, States
  <2> QED
    BY SMT, <1>1, <1>3, <2>3, <2>4, <2>5, <2>6
<1>4. CASE ~(call = "add" \/ (call \in {"fulfill", "delete"} /\ Known(in_memory)))
  <2>1. Effect = server
    BY <1>4 DEF Effect
  <2> QED
    BY SMT, <1>s, <1>1, <1>4, <2>1 DEF Fulfilled
<1> QED
  BY <1>2, <1>3, <1>4

\* A handler begins: what it finds of the reservation is yet to be seen.
LEMMA BeginSteps ==
  ASSUME LInv, \/ create_instances_transfer \/ execute_transfer_tasks
               \/ deploy_transfer_instances \/ delete_transfer
  PROVE  LInv'
<1>1. UNCHANGED <<scenario, reservation_id, server, deployed, unsaved>>
  BY DEF create_instances_transfer, execute_transfer_tasks,
     deploy_transfer_instances, delete_transfer, _check_reservation_for_transfer,
     Start, recorded
<1>2. reservation_id \in Int /\ server \in Seq(States)
  BY DEF LInv, LType
<1>3. in_memory' \in Int
  <2>1. in_memory' = 0 \/ in_memory' = reservation_id
    BY DEF create_instances_transfer, execute_transfer_tasks,
       deploy_transfer_instances, delete_transfer, _check_reservation_for_transfer
  <2> QED
    BY SMT, <1>2, <2>1
<1>4. \/ handler' \in {"create", "execute"} /\ call' \in {"add", "get"}
      \/ handler' = "delete" /\ call' \in {"none", "delete"}
      \/ /\ handler' \in {"deploy", "auto deploy"}
         /\ call' \in {"add", "get"}
  BY DEF create_instances_transfer, execute_transfer_tasks,
     deploy_transfer_instances, delete_transfer, _check_reservation_for_transfer,
     Start
<1> QED
  BY <1>1, <1>3, <1>4 DEF LInv, LType, Follows, Fulfilled

\* The tasks are over, and the reservation of the row is asked for; or the execution
\* ends in an error.
LEMMA OverSteps ==
  ASSUME LInv, \/ _update_reservation_fulfillment_for_execution
               \/ EndsInError \/ SaveFails \/ DeleteRow
  PROVE  LInv'
<1>1. UNCHANGED <<scenario, reservation_id, server, deployed, unsaved>>
  BY DEF _update_reservation_fulfillment_for_execution, EndsInError, SaveFails,
     DeleteRow, recorded
<1>2. CASE _update_reservation_fulfillment_for_execution
  BY <1>1, <1>2 DEF _update_reservation_fulfillment_for_execution, LInv, LType,
     Follows, Fulfilled
<1>3. CASE EndsInError \/ SaveFails \/ DeleteRow
  <2>1. handler' = "idle" /\ call' = "none" /\ in_memory' = in_memory
    BY <1>3 DEF EndsInError, SaveFails, DeleteRow
  <2> QED
    BY <1>1, <2>1 DEF LInv, LType, Follows, Fulfilled
<1> QED
  BY <1>2, <1>3

\* A row is saved, and the tasks start, with a reservation which is not fulfilled or
\* next to one which is; or the status COMPLETED is saved, which counts a deployment.
LEMMA SaveSteps ==
  ASSUME LInv, Save \/ _set_tasks_execution_status
  PROVE  LInv'
<1>1. UNCHANGED <<scenario, server, in_memory>>
  BY DEF Save, _set_tasks_execution_status
<1>2. CASE Save
  <2>1. deployed' = deployed /\ call' = "none"
    BY <1>2 DEF Save
  <2>2. /\ unsaved \in Nat /\ deployed \in Nat /\ Cardinality(Charged(server)) \in Nat
        /\ unsaved' \in {unsaved, unsaved + 1}
    BY <1>2, ChargedFinite DEF Save, LInv, LType
  <2>3. unsaved' \in Nat /\ unsaved <= unsaved'
    BY SMT, <2>2
  <2>4. LType'
    BY <1>1, <1>2, <2>1, <2>3 DEF Save, LInv, LType
  <2>5. ASSUME scenario = "live_migration"
        PROVE  deployed <= Cardinality(Charged(server)) + unsaved'
    <3>1. deployed <= Cardinality(Charged(server)) + unsaved
      BY <2>5 DEF LInv
    <3> QED
      BY SMT, <2>2, <2>3, <3>1
  <2>6. ASSUME scenario = "live_migration", handler' = "deploying",
               Fulfilled(reservation_id)'
        PROVE  deployed < Cardinality(Charged(server)) + unsaved'
    <3>1. handler \in {"deploy", "auto deploy"}
      BY <1>2, <2>6 DEF Save, LInv, LType
    <3>2. ~Fulfilled(in_memory)
      BY <1>2, <2>6, <3>1 DEF Save, LInv, Follows
    <3>3. reservation_id' # in_memory
      BY <1>1, <2>6, <3>2 DEF Fulfilled
    <3>4. unsaved' = unsaved + 1
      BY <1>1, <1>2, <2>6, <3>3 DEF Save, Fulfilled
    <3>5. deployed <= Cardinality(Charged(server)) + unsaved
      BY <2>6 DEF LInv
    <3> QED
      BY SMT, <2>2, <3>4, <3>5
  <2>7. scenario = "live_migration" => Follows'
    <3>1. handler' \notin {"deploy", "auto deploy"}
      BY <1>2 DEF Save
    <3> QED
      BY <1>1, <2>1, <2>6, <3>1 DEF Follows
  <2> QED
    BY <1>1, <2>1, <2>4, <2>5, <2>7 DEF LInv
<1>3. CASE _set_tasks_execution_status
  <2>1. /\ handler' = "idle" /\ call' = "none" /\ reservation_id' = reservation_id
        /\ deployed' = IF handler = "deploying" THEN deployed + 1 ELSE deployed
        /\ unsaved' = unsaved
    BY <1>3 DEF _set_tasks_execution_status
  <2>2. LType'
    <3>1. deployed \in Nat
      BY DEF LInv, LType
    <3>2. deployed' \in Nat
      BY SMT, <2>1, <3>1
    <3> QED
      BY <1>1, <2>1, <3>2 DEF LInv, LType
  <2>3. scenario = "live_migration" => deployed' <= Cardinality(Charged(server)) + unsaved
    <3>1. server \in Seq(States) /\ deployed \in Nat /\ unsaved \in Nat
      BY DEF LInv, LType
    <3>2. Cardinality(Charged(server)) \in Nat
      BY <3>1, ChargedFinite
    <3>3. handler = "deploying" /\ scenario = "live_migration" =>
            deployed < Cardinality(Charged(server)) + unsaved
      BY <1>3 DEF _set_tasks_execution_status, LInv, Follows
    <3> QED
      BY SMT, <2>1, <3>1, <3>2, <3>3 DEF LInv
  <2>4. Follows'
    BY <2>1 DEF Follows
  <2> QED
    BY <1>1, <2>1, <2>2, <2>3, <2>4 DEF LInv
<1> QED
  BY <1>2, <1>3

\* A reservation which the server drops was not fulfilled in vain.
LEMMA ForgetStep ==
  ASSUME LInv, Forget
  PROVE  LInv'
<1>1. UNCHANGED <<scenario, reservation_id, deployed, unsaved, handler, call, in_memory>>
  BY DEF Forget, recorded
<1>2. PICK r \in DOMAIN server : server' = [server EXCEPT ![r] = "gone"]
  BY DEF Forget
<1>3. server \in Seq(States) /\ deployed \in Nat /\ unsaved \in Nat
  BY DEF LInv, LType
<1>4. /\ server' \in Seq(States) /\ DOMAIN server' = DOMAIN server
      /\ Cardinality(Charged(server)) <= Cardinality(Charged(server'))
  BY <1>2, <1>3, ChargedExcept
<1>5. Cardinality(Charged(server)) \in Nat /\ Cardinality(Charged(server')) \in Nat
  BY <1>3, <1>4, ChargedFinite
<1>6. \A x : x \in DOMAIN server' /\ server'[x] = "fulfilled" => Fulfilled(x)
  BY <1>2, <1>4 DEF Fulfilled
<1>7. LType'
  BY <1>1, <1>4 DEF LInv, LType
<1>8. scenario = "live_migration" => deployed' <= Cardinality(Charged(server')) + unsaved'
  BY SMT, <1>1, <1>3, <1>4, <1>5 DEF LInv
<1>9. scenario = "live_migration" => Follows'
  <2>1. Fulfilled(reservation_id)' => Fulfilled(reservation_id)
    BY <1>1, <1>6 DEF Fulfilled
  <2>2. Fulfilled(in_memory)' => Fulfilled(in_memory)
    BY <1>1, <1>6 DEF Fulfilled
  <2>3. ASSUME deployed < Cardinality(Charged(server)) + unsaved
        PROVE  deployed' < Cardinality(Charged(server')) + unsaved'
    BY SMT, <1>1, <1>3, <1>4, <1>5, <2>3
  <2> QED
    BY <1>1, <2>1, <2>2, <2>3 DEF LInv, Follows
<1> QED
  BY <1>1, <1>7, <1>8, <1>9 DEF LInv

\* The server's part of a request keeps the invariant up to where the handler goes.
LEMMA ServedKeeps ==
  ASSUME LInv, server' \in {server, Effect},
         UNCHANGED <<scenario, reservation_id, deployed, unsaved>>
  PROVE  /\ server' \in Seq(States)
         /\ \A r \in Int : Fulfilled(r)' =>
              Fulfilled(r) \/ (call = "fulfill" /\ r = in_memory)
         /\ deployed < Cardinality(Charged(server)) + unsaved =>
              deployed' < Cardinality(Charged(server')) + unsaved'
         /\ scenario = "live_migration" =>
              deployed' <= Cardinality(Charged(server')) + unsaved'
         /\ scenario = "live_migration" /\ handler = "deploying" /\ call = "fulfill"
              /\ Fulfilled(reservation_id)' =>
                 deployed' < Cardinality(Charged(server')) + unsaved'
<1>1. LType /\ server \in Seq(States) /\ deployed \in Nat /\ unsaved \in Nat
  BY DEF LInv, LType
<1>2. /\ Effect \in Seq(States)
      /\ Cardinality(Charged(server)) \in Nat
      /\ Cardinality(Charged(Effect)) \in Nat
      /\ Cardinality(Charged(server)) <= Cardinality(Charged(Effect))
      /\ \A r \in Int : r \in DOMAIN Effect /\ Effect[r] = "fulfilled" =>
           Fulfilled(r) \/ (call = "fulfill" /\ r = in_memory)
  BY <1>1, EffectFacts
<1>3. call = "fulfill" /\ Known(in_memory) /\ ~Fulfilled(in_memory) =>
        Cardinality(Charged(server)) < Cardinality(Charged(Effect))
  BY <1>1, EffectFacts
<1>4. \A r \in Int : Fulfilled(r)' =>
        Fulfilled(r) \/ (call = "fulfill" /\ r = in_memory)
  BY <1>2 DEF Fulfilled
<1>5. scenario = "live_migration" => deployed <= Cardinality(Charged(server)) + unsaved
  BY DEF LInv
<1>6. ASSUME scenario = "live_migration", handler = "deploying", call = "fulfill",
             Fulfilled(reservation_id)'
      PROVE  deployed' < Cardinality(Charged(server')) + unsaved'
  <2>1. /\ in_memory = reservation_id
        /\ Fulfilled(reservation_id) => deployed < Cardinality(Charged(server)) + unsaved
    BY <1>6 DEF LInv, Follows
  <2>2. CASE Fulfilled(reservation_id)
    BY SMT, <1>1, <1>2, <2>1, <2>2
  <2>3. CASE ~Fulfilled(reservation_id)
    <3>1. server' # server
      BY <1>6, <2>3 DEF Fulfilled
    <3>2. server' = Effect /\ Effect # server
      BY <3>1
    <3>3. Known(in_memory)
      BY <1>6, <3>2 DEF Effect
    <3> QED
      BY SMT, <1>1, <1>2, <1>3, <1>5, <1>6, <2>1, <2>3, <3>2, <3>3
  <2> QED
    BY <2>2, <2>3
<1> QED
  BY SMT, <1>1, <1>2, <1>4, <1>5, <1>6

\* A request which is lost is sent again, with what is known of the reservation, or
\* gives up the handler.
LEMMA LoseStep ==
  ASSUME LInv, LoseRequest
  PROVE  LInv'
<1>1. /\ UNCHANGED <<scenario, reservation_id, deployed, unsaved>>
      /\ server' \in {server, Effect} /\ call \in Requests
  BY DEF LoseRequest, recorded
<1>2. LType /\ reservation_id \in Int /\ in_memory \in Int
  BY DEF LInv, LType
<1>3. CASE UNCHANGED <<handler, call, in_memory>>
  <2>1. LType'
    BY <1>1, <1>3, ServedKeeps DEF LInv, LType
  <2>2. ASSUME scenario = "live_migration"
        PROVE  Follows'
    <3>1. Follows
      BY <2>2 DEF LInv
    <3>2. ASSUME handler \in {"deploy", "auto deploy"}
          PROVE  /\ Fulfilled(reservation_id)' => Fulfilled(reservation_id)
                 /\ Fulfilled(in_memory)' => Fulfilled(in_memory)
      <4>1. call # "fulfill"
        BY <1>2, <3>2 DEF LType
      <4>2. \A r \in Int : Fulfilled(r)' => Fulfilled(r)
        BY <1>1, <4>1, ServedKeeps
      <4> QED
        BY <1>1, <1>2, <1>3, <4>2 DEF Fulfilled
    <3>3. ASSUME handler = "deploying", Fulfilled(reservation_id)'
          PROVE  deployed' < Cardinality(Charged(server')) + unsaved'
      <4>1. CASE call = "fulfill"
        BY <1>1, <2>2, <3>3, <4>1, ServedKeeps
      <4>2. CASE call # "fulfill"
        <5>1. \A r \in Int : Fulfilled(r)' => Fulfilled(r)
          BY <1>1, <4>2, ServedKeeps
        <5>2. Fulfilled(reservation_id)
          BY <1>1, <1>2, <3>3, <5>1 DEF Fulfilled
        <5> QED
          BY <1>1, <3>1, <3>3, <5>2, ServedKeeps DEF Follows
      <4> QED
        BY <4>1, <4>2
    <3>4. call # "fulfilled"
      BY <1>1 DEF Requests
    <3> QED
      BY <1>1, <1>3, <3>1, <3>2, <3>3, <3>4 DEF Follows
  <2> QED
    BY <1>1, <2>1, <2>2, ServedKeeps DEF LInv
<1>4. CASE Raises
  <2>1. /\ in_memory' = in_memory /\ call' = "none"
        /\ handler' \in {"stuck", "idle"} \/ (call = "delete" /\ handler' = handler)
    BY <1>4 DEF Raises
  <2>2. handler' \notin {"deploy", "auto deploy", "deploying"}
    BY <1>2, <2>1 DEF LType
  <2>3. LType'
    BY <1>1, <2>1, <2>2, ServedKeeps DEF LInv, LType
  <2>4. Follows'
    BY <2>2 DEF Follows
  <2> QED
    BY <1>1, <2>3, <2>4, ServedKeeps DEF LInv
<1> QED
  BY <1>3, <1>4 DEF LoseRequest

\* A request of a handler other than a deployment's, or one which ends the handler.
LEMMA AnsweredElsewhere ==
  ASSUME LInv, server' = Effect, UNCHANGED <<scenario, reservation_id, deployed, unsaved>>,
         in_memory' \in Int,
         handler' \notin {"deploy", "auto deploy", "deploying"},
         call' \in {"get", "add", "refresh", "save"} =>
           handler' \in {"create", "execute"},
         call' \in {"find", "fulfill"} => handler' = "executing",
         handler' = "executing" /\ scenario = "live_migration" =>
           call' \in {"none", "fulfilled"}
  PROVE  LInv'
<1>1. LType'
  BY ServedKeeps DEF LInv, LType
<1>2. Follows'
  BY DEF Follows
<1> QED
  BY <1>1, <1>2, ServedKeeps DEF LInv

\* Where an answer leads the handler.
LEMMA AnswerFacts ==
  ASSUME LInv, NEW r \in Answers, Answer(r), call \in Requests
  PROVE  /\ call = "add" => /\ in_memory' = Len(server) + 1
                             /\ call' = "save" /\ handler' = handler
         /\ call # "add" => in_memory' = in_memory
         /\ call = "get" =>
              \/ call' = "add" /\ handler' = handler
              \/ call' = "none" /\ handler' = "idle"
              \/ /\ call' = "refresh" /\ handler' = handler
                 /\ scenario = "live_migration" => ~Fulfilled(in_memory)
         /\ call = "refresh" => call' \in {"add", "save"} /\ handler' = handler
         /\ call = "find" =>
              \/ call' = "none" /\ handler' = "stuck"
              \/ call' = "fulfilled" /\ handler' = handler /\ Fulfilled(in_memory)
              \/ call' = "fulfill" /\ handler' = handler
         /\ call = "fulfill" =>
              \/ call' = "none" /\ handler' = "stuck"
              \/ call' = "fulfilled" /\ handler' = handler /\ Known(in_memory)
         /\ call = "delete" => call' = "none" /\ handler' = handler
<1>1. server \in Seq(States) /\ in_memory \in Int
  BY DEF LInv, LType
<1>2. Known(in_memory) => in_memory \in DOMAIN server /\ in_memory > 0
  BY SMT, <1>1 DEF Known
<1>3. call # "add" => (r = in_memory /\ Known(in_memory)) \/ r = NotFound \/ r = Conflict
  BY DEF Answers
<1>4. call \notin {"add", "get", "refresh"} => r # Conflict
  BY SMT, <1>1, <1>2 DEF Answers, NotFound, Conflict
<1>5. Known(in_memory) => in_memory # NotFound /\ in_memory # Conflict
  BY SMT, <1>1, <1>2 DEF NotFound, Conflict
<1>6. CASE call = "add"
  BY <1>6 DEF Answers, Answer
<1>7. CASE call = "get"
  BY <1>3, <1>5, <1>7 DEF Answer, AfterGet, Errors
<1>8. CASE call = "refresh"
  BY <1>8 DEF Answer, AfterRefresh
<1>9. CASE call = "find"
  BY <1>2, <1>3, <1>4, <1>5, <1>9 DEF Answer, AfterFind, Fulfilled
<1>10. CASE call = "fulfill"
  BY <1>3, <1>4, <1>10 DEF Answer
<1>11. CASE call = "delete"
  BY <1>11 DEF Answer
<1> QED
  BY <1>6, <1>7, <1>8, <1>9, <1>10, <1>11 DEF Requests

LEMMA RequestStep ==
  ASSUME LInv, DoRequest
  PROVE  LInv'
<1>1. /\ UNCHANGED <<scenario, reservation_id, deployed, unsaved>>
      /\ server' = Effect /\ call \in Requests
  BY DEF DoRequest, recorded
<1>2. PICK r \in Answers : Answer(r)
  BY DEF DoRequest
<1>3. /\ LType /\ server \in Seq(States)
      /\ reservation_id \in Int /\ in_memory \in Int
  BY DEF LInv, LType
<1>4. in_memory' \in Int
  <2>1. Len(server) + 1 \in Int
    BY SMT, <1>3
  <2> QED
    BY <1>1, <1>2, <1>3, <2>1, AnswerFacts
<1>5. CASE handler' \notin {"deploy", "auto deploy", "deploying"}
  <2>1. call' \in {"get", "add", "refresh", "save"} => handler' \in {"create", "execute"}
    BY <1>1, <1>2, <1>3, <1>5, AnswerFacts DEF LType, Requests
  <2>2. call' \in {"find", "fulfill"} => handler' = "executing"
    BY <1>1, <1>2, <1>3, <1>5, AnswerFacts DEF LType, Requests
  <2>3. handler' = "executing" /\ scenario = "live_migration" =>
          call' \in {"none", "fulfilled"}
    BY <1>1, <1>2, <1>3, <1>5, AnswerFacts DEF LType, Requests
  <2> QED
    BY <1>1, <1>4, <1>5, <2>1, <2>2, <2>3, AnsweredElsewhere
<1>6. CASE handler' \in {"deploy", "auto deploy"}
  <2>1. handler' = handler /\ call \in {"get", "add", "refresh"}
    BY <1>1, <1>2, <1>3, <1>6, AnswerFacts DEF LType, Requests
  <2>2. call' \in {"add", "refresh", "save"}
    BY <1>1, <1>2, <1>6, <2>1, AnswerFacts
  <2>3. LType'
    BY <1>1, <1>4, <1>6, <2>2, ServedKeeps DEF LInv, LType
  <2>4. ASSUME scenario = "live_migration", call' # "add"
        PROVE  ~Fulfilled(in_memory)'
    <3>1. Follows
      BY <2>4 DEF LInv
    <3>2. CASE call = "add"
      <4>1. server'[Len(server) + 1] = "open"
        BY <1>1, <1>3, <3>2, EffectFacts
      <4>2. in_memory' = Len(server) + 1
        BY <1>1, <1>2, <3>2, AnswerFacts
      <4> QED
        BY <4>1, <4>2 DEF Fulfilled
    <3>3. CASE call # "add"
      <4>1. in_memory' = in_memory
        BY <1>1, <1>2, <3>3, AnswerFacts
      <4>2. ~Fulfilled(in_memory)
        BY <1>1, <1>2, <1>6, <2>1, <2>4, <3>1, <3>3, AnswerFacts DEF Follows
      <4>3. \A x \in Int : Fulfilled(x)' => Fulfilled(x)
        BY <1>1, <2>1, ServedKeeps
      <4> QED
        BY <1>3, <4>1, <4>2, <4>3 DEF Fulfilled
    <3> QED
      BY <3>2, <3>3
  <2>5. scenario = "live_migration" => Follows'
    BY <1>6, <2>2, <2>4 DEF Follows
  <2> QED
    BY <1>1, <2>3, <2>5, ServedKeeps DEF LInv
<1>7. CASE handler' = "deploying"
  <2>1. handler' = handler /\ call \in {"find", "fulfill"}
    BY <1>1, <1>2, <1>3, <1>7, AnswerFacts DEF LType, Requests
  <2>2. call' \in {"fulfill", "fulfilled"} /\ in_memory' = in_memory
    BY <1>1, <1>2, <1>7, <2>1, AnswerFacts
  <2>3. LType'
    BY <1>1, <1>4, <1>7, <2>2, ServedKeeps DEF LInv, LType
  <2>4. ASSUME scenario = "live_migration",
               Fulfilled(reservation_id)' \/ call' = "fulfilled"
        PROVE  deployed' < Cardinality(Charged(server')) + unsaved'
    <3>1. Follows
      BY <2>4 DEF LInv
    <3>2. in_memory = reservation_id
      BY <1>7, <2>1, <3>1 DEF Follows
    <3>3. CASE call = "find"
      <4>1. server' = server
        BY <1>1, <3>3 DEF Effect
      <4>2. Fulfilled(reservation_id)
        <5>1. call' = "fulfilled" => Fulfilled(in_memory)
          BY <1>1, <1>2, <1>7, <3>3, AnswerFacts
        <5> QED
          BY <1>1, <2>4, <3>2, <4>1, <5>1 DEF Fulfilled
      <4> QED
        BY <1>1, <1>7, <2>1, <3>1, <4>1, <4>2 DEF Follows
    <3>4. CASE call = "fulfill"
      <4>1. call' = "fulfilled" => Fulfilled(reservation_id)'
        <5>1. call' = "fulfilled" => Known(in_memory)
          BY <1>1, <1>2, <1>7, <3>4, AnswerFacts
        <5>2. Known(in_memory) => server' = [server EXCEPT ![in_memory] = "fulfilled"]
          BY <1>1, <3>4 DEF Effect
        <5>3. Known(in_memory) => in_memory \in DOMAIN server
          BY DEF Known
        <5> QED
          BY <1>1, <1>3, <3>2, <5>1, <5>2, <5>3 DEF Fulfilled
      <4> QED
        BY <1>1, <1>7, <2>1, <2>4, <3>4, <4>1, ServedKeeps
    <3> QED
      BY <2>1, <3>3, <3>4
  <2>5. scenario = "live_migration" => Follows'
    <3>1. scenario = "live_migration" => in_memory' = reservation_id'
      BY <1>1, <1>7, <2>1, <2>2 DEF LInv, Follows
    <3> QED
      BY <1>7, <2>2, <2>4, <3>1 DEF Follows
  <2> QED
    BY <1>1, <2>3, <2>5, ServedKeeps DEF LInv
<1> QED
  BY <1>5, <1>6, <1>7

-----------------------------------------------------------------------------
LEMMA InitLInv ==
  ASSUME LicensingInit
  PROVE  LInv
<1>1. /\ server = <<>> /\ handler = "idle" /\ call = "none"
      /\ reservation_id = 0 /\ in_memory = 0 /\ deployed = 0 /\ unsaved = 0
  BY DEF LicensingInit
<1>2. LType
  BY SMT, <1>1 DEF LType
<1>3. Follows
  BY <1>1 DEF Follows
<1>4. deployed <= Cardinality(Charged(server)) + unsaved
  <2>1. Cardinality(Charged(server)) \in Nat
    BY <1>2, ChargedFinite DEF LType
  <2> QED
    BY SMT, <1>1, <2>1
<1> QED
  BY <1>2, <1>3, <1>4 DEF LInv

LEMMA NextLInv ==
  ASSUME LInv, [LicensingNext]_licensingVars
  PROVE  LInv'
<1>1. CASE UNCHANGED licensingVars
  BY <1>1 DEF licensingVars, LInv, LType, Follows, Fulfilled
<1>2. CASE LicensingNext
  BY <1>2, BeginSteps, OverSteps, SaveSteps, ForgetStep, LoseStep, RequestStep
     DEF LicensingNext
<1> QED
  BY <1>1, <1>2

\* The invariant of the licensing of a transfer holds for any number of
\* reservations, retries, lost requests and deployments.
THEOREM LicensingInvariant == LicensingSpec => []LInv
<1>1. LicensingInit => LInv
  BY InitLInv
<1>2. LInv /\ [LicensingNext]_licensingVars => LInv'
  BY NextLInv
<1> QED
  BY <1>1, <1>2, PTL DEF LicensingSpec

\* Every completed deployment of a live migration was charged to a reservation of its
\* own, whatever is lost, sent again, dropped or answered with an error, but for those
\* whose new reservation was not saved next to a fulfilled one
\* (_check_reservation_for_transfer, _check_mark_reservation_fulfilled,
\* retry_on_error, _execute_deployment).
THEOREM EveryDeploymentCharged == LicensingSpec => []DeploymentsAreCharged
<1>1. LInv => DeploymentsAreCharged
  BY DEF LInv, DeploymentsAreCharged, Charged
<1> QED
  BY <1>1, LicensingInvariant, PTL

-----------------------------------------------------------------------------
(***************************************************************************)
(* Replicas are charged, and nothing is held in vain                       *)
(*                                                                         *)
(* What is charged stays so.  While nothing was lost and nothing dropped,  *)
(* the reservation of a transfer which is there is known to the server, so *)
(* none but its creation makes one.                                        *)
(***************************************************************************)

LBounds ==
  /\ Len(server) <= MaxReservations
  /\ reservation_id \in 0..MaxReservations /\ in_memory \in 0..MaxReservations
  /\ attempts \in 0..MaxAttempts
  /\ lost \in Nat /\ forgotten \in Nat

\* An execution of a replica completes with something charged.
ReplicaInv ==
  scenario = "replica" /\ (replicated \/ (handler = "executing" /\ call = "fulfilled")) =>
    Charged(server) # {}

CheckHandlers == {"execute", "deploy", "auto deploy"}

TaskHandlers == {"executing", "deploying", "stuck"}

\* What there is before the transfer is: nothing, or the reservation which is about to
\* be saved with it.
NothingYet ==
  \/ handler = "idle" /\ call = "none" /\ server = <<>>
  \/ handler = "create" /\ call = "add" /\ server = <<>>
  \/ handler = "create" /\ call = "save" /\ server = <<"open">> /\ in_memory = 1

\* What there is once it is.
OnlyItsOwn ==
  /\ handler \in {"idle", "delete"} \cup CheckHandlers \cup TaskHandlers
  /\ handler = "idle" => call = "none"
  /\ handler \in CheckHandlers => call \in {"get", "refresh", "save"}
  /\ handler \in TaskHandlers => call \in {"none", "find", "fulfill", "fulfilled"}
  /\ handler = "delete" => call \in {"delete", "none"}
  /\ call # "none" => in_memory = reservation_id
  /\ \A r \in DOMAIN server : server[r] = "open" => r = reservation_id
  /\ transfer_row = "deleted" \/ (handler = "delete" /\ call = "none") =>
       \A r \in DOMAIN server : server[r] # "open"
  /\ transfer_row = "stored" /\ ~(handler = "delete" /\ call = "none") =>
       Known(reservation_id)
  /\ transfer_row = "deleted" => handler = "idle"

HeldOnce ==
  /\ transfer_row \in {"none", "stored", "deleted"}
  /\ (lost = 0 /\ forgotten = 0) =>
       IF transfer_row = "none" THEN NothingYet ELSE OnlyItsOwn

ChargeInv == LBounds /\ ReplicaInv /\ HeldOnce

\* What was charged stays charged, and only a request to add a reservation adds one.
LEMMA EffectKeeps ==
  ASSUME LType
  PROVE  /\ Charged(server) \subseteq Charged(Effect)
         /\ Len(Effect) = IF call = "add" THEN Len(server) + 1 ELSE Len(server)
<1>1. server \in Seq(States)
  BY DEF LType
<1>2. CASE call = "add"
  <2>1. Effect = Append(server, "open")
    BY <1>2 DEF Effect
  <2> QED
    BY SMT, <1>1, <1>2, <2>1, ChargedAppend
<1>3. CASE call # "add"
  <2>1. \/ Effect = server
        \/ \E v \in {"fulfilled", "gone"} : /\ Effect = [server EXCEPT ![in_memory] = v]
                                            /\ in_memory \in DOMAIN server
    BY <1>3 DEF Effect, Known
  <2>2. Len(Effect) = Len(server) /\ DOMAIN Effect = DOMAIN server
    BY SMT, <1>1, <2>1
  <2>3. \A r \in DOMAIN server : server[r] # "open" => Effect[r] # "open"
    BY <1>1, <2>1
  <2> QED
    BY <1>3, <2>2, <2>3 DEF Charged
<1> QED
  BY <1>2, <1>3

\* What may happen to the server's reservations.
LEMMA ServerSteps ==
  ASSUME LInv, [LicensingNext]_licensingVars
  PROVE  /\ Charged(server) \subseteq Charged(server')
         /\ \/ Len(server') = Len(server)
            \/ /\ call = "add" /\ CanServe
               /\ Len(server') = Len(server) + 1
<1>1. LType /\ server \in Seq(States)
  BY DEF LInv, LType
<1>2. CASE Forget
  <2>1. PICK r \in DOMAIN server : server' = [server EXCEPT ![r] = "gone"]
    BY <1>2 DEF Forget
  <2>2. Len(server') = Len(server) /\ DOMAIN server' = DOMAIN server
    BY SMT, <1>1, <2>1
  <2> QED
    BY <1>1, <2>1, <2>2 DEF Charged
<1>3. CASE UNCHANGED server
  BY <1>3 DEF Charged
<1>4. CASE DoRequest \/ LoseRequest
  <2>1. server' \in {server, Effect} /\ CanServe
    BY <1>4 DEF DoRequest, LoseRequest
  <2> QED
    BY <1>1, <2>1, EffectKeeps
<1> QED
  BY <1>2, <1>3, <1>4 DEF LicensingNext, licensingVars, create_instances_transfer,
     execute_transfer_tasks, deploy_transfer_instances, delete_transfer,
     _check_reservation_for_transfer, Start,
     _update_reservation_fulfillment_for_execution, Save, SaveFails,
     _set_tasks_execution_status, EndsInError, DeleteRow

\* The counters and the ids stay within their bounds.
LEMMA BoundsStep ==
  ASSUME LInv, LBounds, [LicensingNext]_licensingVars
  PROVE  LBounds'
<1>1. Len(server) \in Nat /\ MaxReservations \in Nat /\ MaxAttempts \in Nat
  <2>1. server \in Seq(States)
    BY DEF LInv, LType
  <2> QED
    BY SMT, <2>1, LicensingAssumption
<1>2. Len(server') <= MaxReservations
  BY SMT, <1>1, ServerSteps DEF LBounds, CanServe
<1>3. reservation_id' \in {reservation_id, in_memory}
  BY DEF LicensingNext, licensingVars, create_instances_transfer, recorded,
     execute_transfer_tasks, deploy_transfer_instances, delete_transfer,
     _check_reservation_for_transfer, Start, DoRequest, LoseRequest, Forget,
     _update_reservation_fulfillment_for_execution, Save, SaveFails,
     _set_tasks_execution_status, EndsInError, DeleteRow
<1>4. \/ in_memory' \in {in_memory, 0, reservation_id}
      \/ in_memory' = Len(server) + 1 /\ Len(server) < MaxReservations
  <2>1. CASE DoRequest
    <3>1. PICK r \in Answers : Answer(r)
      BY <2>1 DEF DoRequest
    <3>2. call \in Requests /\ CanServe
      BY <2>1 DEF DoRequest
    <3> QED
      BY <3>1, <3>2, AnswerFacts DEF CanServe
  <2>2. CASE LoseRequest
    BY <2>2 DEF LoseRequest, Raises
  <2> QED
    BY <2>1, <2>2 DEF LicensingNext, licensingVars, create_instances_transfer,
       execute_transfer_tasks, deploy_transfer_instances, delete_transfer,
       _check_reservation_for_transfer, Start, Forget,
       _update_reservation_fulfillment_for_execution, Save, SaveFails,
       _set_tasks_execution_status, EndsInError, DeleteRow
<1>5. attempts' \in {0, attempts} \/ (attempts' = attempts + 1 /\ attempts + 1 < MaxAttempts)
  BY DEF LicensingNext, licensingVars, create_instances_transfer, recorded, Answer, Raises,
     execute_transfer_tasks, deploy_transfer_instances, delete_transfer,
     _check_reservation_for_transfer, Start, DoRequest, LoseRequest, Forget,
     _update_reservation_fulfillment_for_execution, Save, SaveFails,
     _set_tasks_execution_status, EndsInError, DeleteRow
<1>6. lost' \in {lost, lost + 1} /\ forgotten' \in {forgotten, forgotten + 1}
  BY DEF LicensingNext, licensingVars, create_instances_transfer, recorded,
     execute_transfer_tasks, deploy_transfer_instances, delete_transfer,
     _check_reservation_for_transfer, Start, DoRequest, LoseRequest, Forget,
     _update_reservation_fulfillment_for_execution, Save, SaveFails,
     _set_tasks_execution_status, EndsInError, DeleteRow
<1>7. reservation_id' \in 0..MaxReservations /\ in_memory' \in 0..MaxReservations
  BY SMT, <1>1, <1>3, <1>4 DEF LBounds
<1>8. attempts' \in 0..MaxAttempts /\ lost' \in Nat /\ forgotten' \in Nat
  BY SMT, <1>1, <1>5, <1>6 DEF LBounds
<1> QED
  BY <1>2, <1>7, <1>8 DEF LBounds

\* An execution of a replica is not completed before something is charged.
LEMMA ReplicaStep ==
  ASSUME LInv, ReplicaInv, [LicensingNext]_licensingVars
  PROVE  ReplicaInv'
<1> SUFFICES ASSUME scenario' = "replica",
                    replicated' \/ (handler' = "executing" /\ call' = "fulfilled"),
                    Charged(server) = {}
             PROVE  Charged(server') # {}
  BY ServerSteps DEF ReplicaInv
<1>1. scenario = "replica" /\ ~replicated /\ ~(handler = "executing" /\ call = "fulfilled")
  BY DEF ReplicaInv, LicensingNext, licensingVars, create_instances_transfer, recorded,
     execute_transfer_tasks, deploy_transfer_instances, delete_transfer,
     _check_reservation_for_transfer, Start, DoRequest, LoseRequest, Forget,
     _update_reservation_fulfillment_for_execution, Save, SaveFails,
     _set_tasks_execution_status, EndsInError, DeleteRow
<1>2. CASE DoRequest
  <2>1. PICK r \in Answers : Answer(r)
    BY <1>2 DEF DoRequest
  <2>2. call \in Requests /\ server' = Effect /\ replicated' = replicated
    BY <1>2 DEF DoRequest, recorded
  <2>3. call \in {"find", "fulfill"} /\ call' = "fulfilled"
    BY <1>1, <2>1, <2>2, AnswerFacts DEF Requests
  <2>4. call = "fulfill" /\ Known(in_memory)
    BY <2>1, <2>2, <2>3, AnswerFacts DEF Charged, Fulfilled
  <2>5. server' = [server EXCEPT ![in_memory] = "fulfilled"] /\ in_memory \in DOMAIN server
    BY <2>2, <2>4 DEF Effect, Known
  <2>6. in_memory \in DOMAIN server' /\ server'[in_memory] = "fulfilled"
    BY <2>5 DEF LInv, LType
  <2> QED
    BY <2>6 DEF Charged
<1>3. CASE LoseRequest
  BY <1>1, <1>3 DEF LoseRequest, Raises, Requests, recorded
<1>4. CASE _update_reservation_fulfillment_for_execution
  BY <1>1, <1>4 DEF _update_reservation_fulfillment_for_execution, recorded
<1>5. CASE Forget \/ SaveFails \/ EndsInError \/ DeleteRow \/ UNCHANGED licensingVars
  <2>1. CASE Forget \/ SaveFails
    BY <1>1, <2>1 DEF Forget, SaveFails, recorded
  <2>2. CASE EndsInError \/ DeleteRow
    BY <1>1, <2>2 DEF EndsInError, DeleteRow, recorded
  <2>3. CASE UNCHANGED licensingVars
    BY <1>1, <2>3 DEF licensingVars
  <2> QED
    BY <1>5, <2>1, <2>2, <2>3
<1>6. CASE \/ create_instances_transfer \/ execute_transfer_tasks
           \/ deploy_transfer_instances \/ delete_transfer
  BY <1>1, <1>6 DEF create_instances_transfer, execute_transfer_tasks,
     deploy_transfer_instances, delete_transfer, _check_reservation_for_transfer, Start,
     recorded
<1>7. CASE Save \/ _set_tasks_execution_status
  BY <1>1, <1>7 DEF Save, _set_tasks_execution_status
<1> QED
  BY <1>2, <1>3, <1>4, <1>5, <1>6, <1>7 DEF LicensingNext

-----------------------------------------------------------------------------
\* The answer to a request about a reservation which the server knows is not an error,
\* unless it cannot show or refresh it.
LEMMA KnownAnswers ==
  ASSUME LInv, DoRequest, Known(in_memory), call # "add", forgotten \in Nat,
         forgotten' = forgotten
  PROVE  /\ in_memory' = in_memory
         /\ call = "get" => \/ call' = "none" /\ handler' = "idle"
                            \/ call' = "refresh" /\ handler' = handler
         /\ call = "refresh" => call' = "save" /\ handler' = handler
         /\ call = "find" => call' \in {"fulfilled", "fulfill"} /\ handler' = handler
         /\ call = "fulfill" => call' = "fulfilled" /\ handler' = handler
         /\ call = "delete" => call' = "none" /\ handler' = handler
<1>1. PICK r \in Answers : /\ Answer(r)
                           /\ forgotten' = IF r = Conflict THEN forgotten + 1 ELSE forgotten
  BY DEF DoRequest
<1>2. call \in Requests
  BY DEF DoRequest
<1>3. server \in Seq(States) /\ in_memory \in Int
  BY DEF LInv, LType
<1>4. in_memory > 0
  BY SMT, <1>3 DEF Known
<1>5. in_memory # NotFound /\ in_memory # Conflict
  BY SMT, <1>3, <1>4 DEF NotFound, Conflict
<1>6. r # Conflict
  BY SMT, <1>1
<1>7. r = in_memory
  BY <1>6 DEF Answers
<1>8. in_memory' = in_memory
  BY <1>1, <1>2, AnswerFacts
<1>9. CASE call = "get"
  BY <1>1, <1>5, <1>7, <1>8, <1>9 DEF Answer, AfterGet, Errors
<1>10. CASE call = "refresh"
  BY <1>1, <1>5, <1>7, <1>8, <1>10 DEF Answer, AfterRefresh, Errors
<1>11. CASE call = "find"
  BY <1>1, <1>5, <1>7, <1>8, <1>11 DEF Answer, AfterFind
<1>12. CASE call = "fulfill"
  BY <1>1, <1>5, <1>7, <1>8, <1>12 DEF Answer
<1>13. CASE call = "delete"
  BY <1>1, <1>8, <1>13 DEF Answer
<1> QED
  BY <1>2, <1>8, <1>9, <1>10, <1>11, <1>12, <1>13 DEF Requests

\* What the server does to the reservation of a transfer which it knows.
LEMMA KnownEffect ==
  ASSUME LInv, Known(in_memory), call # "add"
  PROVE  /\ DOMAIN Effect = DOMAIN server
         /\ \A r \in DOMAIN server : r # in_memory => Effect[r] = server[r]
         /\ call = "delete" => Effect[in_memory] = "gone"
         /\ call # "delete" => Effect[in_memory] # "gone"
         /\ Effect[in_memory] = "open" => server[in_memory] = "open"
<1>1. server \in Seq(States) /\ in_memory \in DOMAIN server
  BY DEF LInv, LType, Known
<1>2. CASE call = "fulfill"
  <2>1. Effect = [server EXCEPT ![in_memory] = "fulfilled"]
    BY <1>2 DEF Effect
  <2> QED
    BY <1>1, <1>2, <2>1
<1>3. CASE call = "delete"
  <2>1. Effect = [server EXCEPT ![in_memory] = "gone"]
    BY <1>3 DEF Effect
  <2> QED
    BY <1>1, <1>3, <2>1
<1>4. CASE call \notin {"fulfill", "delete"}
  <2>1. Effect = server
    BY <1>4 DEF Effect
  <2> QED
    BY <1>4, <2>1 DEF Known
<1> QED
  BY <1>2, <1>3, <1>4

\* A transfer is created with the only reservation there is.
LEMMA CreationHolds ==
  ASSUME LInv, HeldOnce, transfer_row = "none", lost = 0, forgotten = 0, LicensingNext,
         lost' = 0, forgotten' = 0
  PROVE  HeldOnce'
<1>1. NothingYet
  BY DEF HeldOnce
<1>2. CASE create_instances_transfer
  <2>1. handler' = "create" /\ call' = "add" /\ handler = "idle"
        /\ UNCHANGED <<transfer_row, server>>
    BY <1>2 DEF create_instances_transfer, Start, recorded
  <2> QED
    BY <1>1, <2>1 DEF NothingYet, HeldOnce
<1>3. CASE DoRequest
  <2>1. handler = "create" /\ call = "add" /\ server = <<>>
    BY <1>1, <1>3 DEF NothingYet, DoRequest, Requests
  <2>2. PICK r \in Answers : Answer(r)
    BY <1>3 DEF DoRequest
  <2>3. in_memory' = 1 /\ call' = "save" /\ handler' = "create"
    BY SMT, <1>3, <2>1, <2>2, AnswerFacts DEF DoRequest
  <2>4. server' = <<"open">> /\ transfer_row' = "none"
    BY SMT, <1>3, <2>1 DEF DoRequest, Effect, recorded
  <2> QED
    BY <2>3, <2>4 DEF NothingYet, HeldOnce
<1>4. CASE Save
  <2>1. server = <<"open">> /\ in_memory = 1 /\ handler = "create"
    BY <1>1, <1>4 DEF NothingYet, Save
  <2>2. /\ server' = <<"open">> /\ reservation_id' = 1 /\ handler' = "idle"
        /\ call' = "none" /\ transfer_row' = "stored"
    BY <1>4, <2>1 DEF Save
  <2>3. OnlyItsOwn'
    BY SMT, <2>2 DEF OnlyItsOwn, CheckHandlers, TaskHandlers, Known
  <2> QED
    BY <2>2, <2>3 DEF HeldOnce
<1>5. ~LoseRequest /\ ~SaveFails /\ ~Forget
  BY SMT DEF LoseRequest, SaveFails, Forget
<1>6. CASE \/ execute_transfer_tasks \/ deploy_transfer_instances \/ delete_transfer
           \/ _update_reservation_fulfillment_for_execution
           \/ _set_tasks_execution_status \/ EndsInError \/ DeleteRow
  BY <1>1, <1>6 DEF NothingYet, execute_transfer_tasks, deploy_transfer_instances,
     delete_transfer, _update_reservation_fulfillment_for_execution,
     _set_tasks_execution_status, EndsInError, DeleteRow
<1> QED
  BY <1>2, <1>3, <1>4, <1>5, <1>6 DEF LicensingNext

\* No other reservation is made while the server knows that of the transfer.
LEMMA TransferHolds ==
  ASSUME LInv, HeldOnce, transfer_row # "none", lost = 0, forgotten = 0, LicensingNext,
         lost' = 0, forgotten' = 0
  PROVE  HeldOnce'
<1> USE DEF CheckHandlers, TaskHandlers
<1>1. OnlyItsOwn /\ transfer_row \in {"stored", "deleted"}
  BY DEF HeldOnce
<1>2. reservation_id \in Int /\ server \in Seq(States)
  BY DEF LInv, LType
<1>3. Known(reservation_id) => reservation_id # 0
  BY SMT, <1>2 DEF Known
<1>4. SUFFICES OnlyItsOwn' /\ transfer_row' \in {"stored", "deleted"}
  BY DEF HeldOnce
<1>5. CASE execute_transfer_tasks \/ deploy_transfer_instances
  <2>1. /\ handler = "idle" /\ transfer_row = "stored" /\ handler' \in CheckHandlers
        /\ call' = IF reservation_id = 0 THEN "add" ELSE "get"
        /\ in_memory' = reservation_id
        /\ UNCHANGED <<transfer_row, reservation_id, server>>
    BY <1>5 DEF execute_transfer_tasks, deploy_transfer_instances,
       _check_reservation_for_transfer, Start, recorded
  <2>2. Known(reservation_id)
    BY <1>1, <2>1 DEF OnlyItsOwn
  <2> QED
    BY <1>1, <1>3, <2>1, <2>2 DEF OnlyItsOwn, Known
<1>6. CASE delete_transfer
  <2>1. /\ handler = "idle" /\ transfer_row = "stored" /\ handler' = "delete"
        /\ call' = IF reservation_id = 0 THEN "none" ELSE "delete"
        /\ in_memory' = reservation_id
        /\ UNCHANGED <<transfer_row, reservation_id, server>>
    BY <1>6 DEF delete_transfer, Start, recorded
  <2>2. Known(reservation_id)
    BY <1>1, <2>1 DEF OnlyItsOwn
  <2> QED
    BY <1>1, <1>3, <2>1, <2>2 DEF OnlyItsOwn, Known
<1>7. CASE _update_reservation_fulfillment_for_execution
  <2>1. /\ handler' = handler /\ handler \in TaskHandlers /\ call = "none"
        /\ call' \in {"find", "fulfilled"} /\ in_memory' = reservation_id
        /\ UNCHANGED <<transfer_row, reservation_id, server>>
    BY <1>7 DEF _update_reservation_fulfillment_for_execution, recorded
  <2> QED
    BY <1>1, <2>1 DEF OnlyItsOwn, Known
<1>8. CASE DoRequest
  <2>1. /\ call \in Requests /\ server' = Effect
        /\ UNCHANGED <<transfer_row, reservation_id>>
    BY <1>8 DEF DoRequest, recorded
  <2>2. call \in {"get", "refresh", "find", "fulfill", "delete"}
    BY <1>1, <2>1 DEF OnlyItsOwn, Requests
  <2>3. transfer_row = "stored" /\ Known(reservation_id) /\ in_memory = reservation_id
    BY <1>1, <2>2 DEF OnlyItsOwn
  <2>4. /\ in_memory' = in_memory
        /\ call = "get" => \/ call' = "none" /\ handler' = "idle"
                           \/ call' = "refresh" /\ handler' = handler
        /\ call = "refresh" => call' = "save" /\ handler' = handler
        /\ call = "find" => call' \in {"fulfilled", "fulfill"} /\ handler' = handler
        /\ call = "fulfill" => call' = "fulfilled" /\ handler' = handler
        /\ call = "delete" => call' = "none" /\ handler' = handler
    BY <1>8, <2>2, <2>3, KnownAnswers
  <2>5. /\ DOMAIN server' = DOMAIN server
        /\ \A r \in DOMAIN server : r # in_memory => server'[r] = server[r]
        /\ call = "delete" => server'[in_memory] = "gone"
        /\ call # "delete" => server'[in_memory] # "gone"
    BY <2>1, <2>2, <2>3, KnownEffect
  <2>6. \A r \in DOMAIN server' : server'[r] = "open" => r = reservation_id'
    BY <1>1, <2>1, <2>3, <2>5 DEF OnlyItsOwn
  <2>7. call # "delete" => Known(reservation_id)'
    BY <2>1, <2>3, <2>5 DEF Known
  <2>8. call = "delete" => \A r \in DOMAIN server' : server'[r] # "open"
    BY <1>1, <2>3, <2>5 DEF OnlyItsOwn
  <2> QED
    BY <1>1, <2>1, <2>2, <2>3, <2>4, <2>6, <2>7, <2>8 DEF OnlyItsOwn
<1>9. CASE Save
  <2>1. handler \in CheckHandlers /\ in_memory = reservation_id /\ transfer_row = "stored"
        /\ Known(reservation_id)
    BY <1>1, <1>9 DEF OnlyItsOwn, Save
  <2>2. /\ reservation_id' = reservation_id /\ handler' \in TaskHandlers
        /\ call' = "none" /\ transfer_row' = "stored" /\ server' = server
    BY <1>9, <2>1 DEF Save
  <2> QED
    BY <1>1, <2>1, <2>2 DEF OnlyItsOwn, Known
<1>10. CASE _set_tasks_execution_status \/ EndsInError
  <2>1. /\ handler \in TaskHandlers /\ handler' = "idle" /\ call' = "none"
        /\ UNCHANGED <<transfer_row, reservation_id, server>>
    BY <1>10 DEF _set_tasks_execution_status, EndsInError, recorded
  <2> QED
    BY <1>1, <2>1 DEF OnlyItsOwn, Known
<1>11. CASE DeleteRow
  <2>1. /\ handler = "delete" /\ call = "none" /\ handler' = "idle" /\ call' = "none"
        /\ transfer_row' = "deleted" /\ UNCHANGED <<reservation_id, server>>
    BY <1>11 DEF DeleteRow
  <2> QED
    BY <1>1, <2>1 DEF OnlyItsOwn
<1>12. ~LoseRequest /\ ~SaveFails /\ ~Forget /\ ~create_instances_transfer
  BY SMT DEF LoseRequest, SaveFails, Forget, create_instances_transfer
<1> QED
  BY <1>5, <1>6, <1>7, <1>8, <1>9, <1>10, <1>11, <1>12 DEF LicensingNext

LEMMA HoldsStep ==
  ASSUME LInv, LBounds, HeldOnce, [LicensingNext]_licensingVars
  PROVE  HeldOnce'
<1>1. transfer_row' \in {transfer_row, "stored", "deleted"}
  BY DEF LicensingNext, licensingVars, create_instances_transfer, recorded,
     execute_transfer_tasks, deploy_transfer_instances, delete_transfer,
     _check_reservation_for_transfer, Start, DoRequest, LoseRequest, Forget,
     _update_reservation_fulfillment_for_execution, Save, SaveFails,
     _set_tasks_execution_status, EndsInError, DeleteRow
<1>2. lost' \in {lost, lost + 1} /\ forgotten' \in {forgotten, forgotten + 1}
  BY DEF LicensingNext, licensingVars, create_instances_transfer, recorded,
     execute_transfer_tasks, deploy_transfer_instances, delete_transfer,
     _check_reservation_for_transfer, Start, DoRequest, LoseRequest, Forget,
     _update_reservation_fulfillment_for_execution, Save, SaveFails,
     _set_tasks_execution_status, EndsInError, DeleteRow
<1>3. CASE UNCHANGED licensingVars
  BY <1>3 DEF licensingVars, HeldOnce, NothingYet, OnlyItsOwn, Known
<1>4. CASE LicensingNext /\ lost' = 0 /\ forgotten' = 0
  <2>1. lost = 0 /\ forgotten = 0
    BY SMT, <1>2, <1>4 DEF LBounds
  <2> QED
    BY <1>4, <2>1, CreationHolds, TransferHolds
<1>5. CASE ~(lost' = 0 /\ forgotten' = 0)
  BY <1>1, <1>5 DEF HeldOnce
<1> QED
  BY <1>3, <1>4, <1>5

\* A replica is charged, and a transfer holds its own reservation only.
LEMMA ChargeStep ==
  ASSUME LInv, ChargeInv, [LicensingNext]_licensingVars
  PROVE  ChargeInv'
BY BoundsStep, ReplicaStep, HoldsStep DEF ChargeInv

LEMMA InitChargeInv ==
  ASSUME LicensingInit
  PROVE  ChargeInv
<1>1. LBounds
  BY SMT, LicensingAssumption DEF LicensingInit, LBounds
<1>2. ReplicaInv
  BY DEF LicensingInit, ReplicaInv
<1>3. HeldOnce
  BY DEF LicensingInit, HeldOnce, NothingYet
<1> QED
  BY <1>1, <1>2, <1>3 DEF ChargeInv

\* Together they are what is promised of the licences.
LEMMA ChargedAndHeld ==
  ASSUME LInv, ChargeInv
  PROVE  /\ LicensingTypeOK /\ DeploymentsAreCharged /\ ReplicasAreCharged
         /\ NothingHeldInVain
<1>1. LicensingTypeOK
  BY DEF LInv, LType, ChargeInv, LBounds, LicensingTypeOK, States
<1>2. DeploymentsAreCharged
  BY DEF LInv, DeploymentsAreCharged, Charged
<1>3. ReplicasAreCharged
  BY DEF ChargeInv, ReplicaInv, ReplicasAreCharged, Charged
<1>4. NothingHeldInVain
  <2> SUFFICES ASSUME lost = 0, forgotten = 0, handler = "idle",
                      NEW r \in DOMAIN server, server[r] = "open"
               PROVE  r = reservation_id /\ transfer_row = "stored"
    BY DEF NothingHeldInVain
  <2>1. transfer_row # "none"
    BY SMT DEF ChargeInv, HeldOnce, NothingYet
  <2> QED
    BY <2>1 DEF ChargeInv, HeldOnce, OnlyItsOwn
<1> QED
  BY <1>1, <1>2, <1>3, <1>4
=============================================================================

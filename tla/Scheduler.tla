----------------------------- MODULE Scheduler -----------------------------
(***************************************************************************)
(* The endpoints, regions and worker services which the conductor keeps,   *)
(* the registration of a worker, and the scheduler's choice of a worker    *)
(* for a task.  An update of an endpoint or of a service is a database     *)
(* transaction: it reads when it begins, and what it writes is there when  *)
(* it commits; the lock it holds is that of the endpoint or the service,   *)
(* never that of a region.  An endpoint or a service which is being        *)
(* created is left alone by the users until that is done.                  *)
(***************************************************************************)
EXTENDS Integers, FiniteSets

CONSTANTS Endpoints,   \* one per platform
          Hosts,       \* of workers
          Regions,
          MaxTries,    \* retry_count of get_worker_service_for_task
          MaxChanges   \* bound: what administrators do, starts of workers, failed calls

VARIABLES
  region,    \* region -> "none", "enabled", "disabled", "deleted"
  endpoint,  \* endpoint -> "none", "stored", "deleted"
  service,   \* host -> [stored, enabled, providers]
  mappings,  \* endpoint or host -> the regions of its rows in the mapping table
  txn,       \* endpoint or host -> the transaction which maps its regions
  installed, \* host -> the endpoints whose platform its providers are for
  worker,    \* host -> what its registration is about to do
  shut,      \* host -> an administrator has disabled the service
  transfer,  \* "none", the endpoints read so far, or "added"
  task,      \* the task to be scheduled
  changed,   \* the administrator has done something since the task was begun
  changes

schedVars == <<region, endpoint, service, mappings, txn, installed, worker, shut,
               transfer, task, changed, changes>>
tables == <<region, endpoint, service, mappings>>
workers == <<installed, worker>>

Targets == Endpoints \cup Hosts

NoTxn == [at |-> "none", desired |-> {}, map |-> {}, unmap |-> {}, enabled |-> TRUE,
          created |-> FALSE]

NoService == [stored |-> FALSE, enabled |-> FALSE, providers |-> {}]

NoTask == [at |-> "none", needs |-> {}, sets |-> <<>>, offers |-> <<>>, tries |-> 0,
           granted |-> {}]

\* The endpoints and the regions are still to be created, or are there already; a worker
\* which has a service runs.
SchedInit ==
  /\ \E status \in {"none", "enabled"} : region = [r \in Regions |-> status]
  /\ \E status \in {"none", "stored"} : endpoint = [e \in Endpoints |-> status]
  /\ installed \in [Hosts -> SUBSET Endpoints \ {{}}]
  /\ worker \in [Hosts -> {"off", "done"}]
  /\ service = [h \in Hosts |-> IF worker[h] = "off" THEN NoService
                                ELSE [stored |-> TRUE, enabled |-> TRUE,
                                      providers |-> installed[h]]]
  /\ mappings \in [Targets -> SUBSET {r \in Regions : region[r] = "enabled"}]
  /\ \A e \in Endpoints : endpoint[e] = "none" => mappings[e] = {}
  /\ \A h \in Hosts : worker[h] = "off" => mappings[h] = {}
  /\ txn = [t \in Targets |-> NoTxn]
  /\ shut = [h \in Hosts |-> FALSE]
  /\ transfer = [at |-> "none", read |-> {}]
  /\ task = NoTask
  /\ changed = FALSE /\ changes = 0

-----------------------------------------------------------------------------
(* Regions, endpoints and services.                                        *)

Change == changes < MaxChanges /\ changes' = changes + 1 /\ changed' = TRUE

Exists(r) == region[r] \in {"enabled", "disabled"}

create_region(r) ==
  /\ Change /\ region[r] = "none"
  /\ region' = [region EXCEPT ![r] = "enabled"]
  /\ UNCHANGED <<endpoint, service, mappings, txn, workers, shut, transfer, task>>

update_region(r) ==
  /\ Change /\ Exists(r)
  /\ region' = [region EXCEPT ![r] = IF @ = "enabled" THEN "disabled" ELSE "enabled"]
  /\ UNCHANGED <<endpoint, service, mappings, txn, workers, shut, transfer, task>>

\* The row, and the mappings which are there: the ones of a transaction under way
\* are not.
delete_region(r) ==
  /\ Change /\ Exists(r)
  /\ region' = [region EXCEPT ![r] = "deleted"]
  /\ mappings' = [t \in Targets |-> mappings[t] \ {r}]
  /\ UNCHANGED <<endpoint, service, txn, workers, shut, transfer, task>>

create_endpoint(e, regions) ==
  /\ Change /\ endpoint[e] = "none"
  /\ endpoint' = [endpoint EXCEPT ![e] = "stored"]
  /\ txn' = [txn EXCEPT ![e] = IF regions = {} THEN NoTxn
               ELSE [NoTxn EXCEPT !.at = "begin", !.desired = regions, !.created = TRUE]]
  /\ UNCHANGED <<region, service, mappings, workers, shut, transfer, task>>

update_endpoint(e, regions) ==
  /\ Change /\ endpoint[e] = "stored" /\ txn[e] = NoTxn
  /\ txn' = [txn EXCEPT ![e] = [NoTxn EXCEPT !.at = "begin", !.desired = regions]]
  /\ UNCHANGED <<tables, workers, shut, transfer, task>>

\* "%s transfers would be orphaned!"
delete_endpoint(e) ==
  /\ Change /\ endpoint[e] = "stored" /\ txn[e] = NoTxn
  /\ transfer.at # "added"
  /\ endpoint' = [endpoint EXCEPT ![e] = "deleted"]
  /\ mappings' = [mappings EXCEPT ![e] = {}]
  /\ UNCHANGED <<region, service, txn, workers, shut, transfer, task>>

\* A user registers a service: the worker is asked for its providers.  No two services
\* have one host.
register_service(h, enabled, regions) ==
  /\ Change /\ worker[h] # "off" /\ ~service[h].stored
  /\ service' = [service EXCEPT ![h] =
                   [stored |-> TRUE, enabled |-> enabled, providers |-> installed[h]]]
  /\ shut' = [shut EXCEPT ![h] = ~enabled]
  /\ txn' = [txn EXCEPT ![h] = IF regions = {} THEN NoTxn
               ELSE [NoTxn EXCEPT !.at = "begin", !.desired = regions, !.created = TRUE,
                                  !.enabled = enabled]]
  /\ UNCHANGED <<region, endpoint, mappings, workers, transfer, task>>

update_service(h, enabled, regions) ==
  /\ Change /\ service[h].stored /\ txn[h] = NoTxn
  /\ txn' = [txn EXCEPT ![h] = [NoTxn EXCEPT !.at = "begin", !.desired = regions,
                                             !.enabled = enabled]]
  /\ UNCHANGED <<tables, workers, shut, transfer, task>>

delete_service(h) ==
  /\ Change /\ service[h].stored /\ txn[h] = NoTxn
  /\ service' = [service EXCEPT ![h] = NoService]
  /\ mappings' = [mappings EXCEPT ![h] = {}]
  /\ shut' = [shut EXCEPT ![h] = FALSE]
  /\ UNCHANGED <<region, endpoint, txn, workers, transfer, task>>

\* The worker is asked for its providers again.
refresh_service_status(h) ==
  /\ Change /\ service[h].stored /\ txn[h] = NoTxn /\ worker[h] # "off"
  /\ service' = [service EXCEPT ![h].providers = installed[h]]
  /\ UNCHANGED <<region, endpoint, mappings, txn, workers, shut, transfer, task>>

\* The transaction finds that the regions exist and reads the mappings there are.  If
\* one does not, what was being created is deleted.
BeginUpdate(t) ==
  /\ txn[t].at = "begin"
  /\ IF \A r \in txn[t].desired : Exists(r)
       THEN /\ txn' = [txn EXCEPT ![t] = [@ EXCEPT !.at = "commit",
                                            !.map = txn[t].desired \ mappings[t],
                                            !.unmap = mappings[t] \ txn[t].desired]]
            /\ UNCHANGED <<endpoint, service, shut, changed>>
       ELSE /\ txn' = [txn EXCEPT ![t] = NoTxn]
            /\ IF txn[t].created
                 THEN /\ endpoint' = [e \in Endpoints |->
                                        IF e = t THEN "deleted" ELSE endpoint[e]]
                      /\ service' = [h \in Hosts |->
                                       IF h = t THEN NoService ELSE service[h]]
                      /\ shut' = [h \in Hosts |-> h # t /\ shut[h]]
                      /\ changed' = TRUE
                 ELSE UNCHANGED <<endpoint, service, shut, changed>>
  /\ UNCHANGED <<region, mappings, workers, transfer, task, changes>>

\* The new mappings, the fields, and the old mappings, if they are still there.
CommitUpdate(t) ==
  /\ txn[t].at = "commit"
  /\ mappings' = [mappings EXCEPT ![t] = (@ \cup txn[t].map) \ txn[t].unmap]
  /\ service' = [h \in Hosts |-> IF h = t /\ service[h].stored
                                   THEN [service[h] EXCEPT !.enabled = txn[t].enabled]
                                   ELSE service[h]]
  /\ shut' = [h \in Hosts |-> IF h = t THEN ~txn[t].enabled ELSE shut[h]]
  /\ txn' = [txn EXCEPT ![t] = NoTxn]
  /\ changed' = TRUE
  /\ UNCHANGED <<region, endpoint, workers, transfer, task, changes>>

\* create_instances_transfer reads the endpoints, each with its lock ...
ReadEndpoint(e) ==
  /\ transfer.at = "none" /\ e \notin transfer.read /\ endpoint[e] = "stored"
  /\ transfer' = [transfer EXCEPT !.read = @ \cup {e}]
  /\ UNCHANGED <<tables, txn, workers, shut, task, changed, changes>>

\* ... and adds the transfer later on.
AddTransfer ==
  /\ transfer.at = "none" /\ transfer.read = Endpoints
  /\ transfer' = [transfer EXCEPT !.at = "added"]
  /\ UNCHANGED <<tables, txn, workers, shut, task, changed, changes>>

-----------------------------------------------------------------------------
(* A worker registers itself when it starts: check_create_registration_... *)

StartWorker(h) ==
  /\ worker[h] \in {"off", "done"} /\ Change
  /\ worker' = [worker EXCEPT ![h] = "check"]
  /\ \E platforms \in SUBSET Endpoints \ {{}} :
       installed' = [installed EXCEPT ![h] = platforms]
  /\ UNCHANGED <<tables, txn, shut, transfer, task>>

check_service_registered(h) ==
  /\ worker[h] = "check"
  /\ worker' = [worker EXCEPT ![h] = IF service[h].stored THEN "update" ELSE "register"]
  /\ UNCHANGED <<tables, txn, installed, shut, transfer, task, changed, changes>>

\* A mutant: a service which is registered is left as it is.
UpdateSkipped(h) ==
  /\ worker[h] = "update"
  /\ worker' = [worker EXCEPT ![h] = IF service[h].stored THEN "done" ELSE "check"]
  /\ changed' = TRUE
  /\ UNCHANGED <<tables, txn, installed, shut, transfer, task, changes>>

\* The service is there, unless it has been deleted since the check: then again.
UpdateRegistration(h) ==
  /\ worker[h] = "update"
  /\ IF service[h].stored
       THEN /\ service' = [service EXCEPT ![h].providers = installed[h]]
            /\ worker' = [worker EXCEPT ![h] = "done"]
       ELSE worker' = [worker EXCEPT ![h] = "check"] /\ UNCHANGED service
  /\ changed' = TRUE
  /\ UNCHANGED <<region, endpoint, mappings, txn, installed, shut, transfer, task,
                 changes>>

\* The service is not there, unless it has been registered since the check: then again.
RegisterSelf(h) ==
  /\ worker[h] = "register"
  /\ IF ~service[h].stored
       THEN /\ service' = [service EXCEPT ![h] = [stored |-> TRUE, enabled |-> TRUE,
                                                  providers |-> installed[h]]]
            /\ worker' = [worker EXCEPT ![h] = "done"]
       ELSE worker' = [worker EXCEPT ![h] = "check"] /\ UNCHANGED service
  /\ changed' = TRUE
  /\ UNCHANGED <<region, endpoint, mappings, txn, installed, shut, transfer, task,
                 changes>>

\* A call raises, before or after the conductor has done what it asks.
LoseCall(h) ==
  /\ worker[h] \in {"check", "update", "register"} /\ Change
  /\ worker' = [worker EXCEPT ![h] = "check"]
  /\ IF worker[h] = "register" /\ ~service[h].stored
       THEN \E done \in BOOLEAN :
              service' = IF done
                THEN [service EXCEPT ![h] = [stored |-> TRUE, enabled |-> TRUE,
                                             providers |-> installed[h]]]
                ELSE service
       ELSE UNCHANGED service
  /\ UNCHANGED <<region, endpoint, mappings, txn, installed, shut, transfer, task>>

-----------------------------------------------------------------------------
(* The choice of a worker for a task of the transfer.                      *)

\* get_worker_service_for_task: the regions and the platforms which the task needs are
\* those of the endpoints as the conductor has read them.
get_worker_service_for_task(needs) ==
  /\ task.at = "none" /\ transfer.at = "added"
  /\ \A e \in Endpoints : endpoint[e] = "stored"
  /\ task' = [NoTask EXCEPT !.at = "services", !.needs = needs,
                            !.sets = [e \in needs |-> mappings[e]]]
  /\ changed' = FALSE
  /\ UNCHANGED <<tables, txn, workers, shut, transfer, changes>>

\* get_workers_for_specs reads the services first ...
ReadServices ==
  /\ task.at = "services"
  /\ task' = [task EXCEPT !.at = "regions",
                          !.offers = [h \in Hosts |->
                                        [is |-> service[h], regions |-> mappings[h]]]]
  /\ UNCHANGED <<tables, txn, workers, shut, transfer, changed, changes>>

\* _filter_regions: every region exists, and one of each set is enabled.
RegionsUsable ==
  \A e \in DOMAIN task.sets :
    /\ \A r \in task.sets[e] : Exists(r)
    /\ task.sets[e] # {} => \E r \in task.sets[e] : region[r] = "enabled"

\* RegionsFilter.rate_service: the set is not the filtered one.
RegionsRated(h) ==
  \A e \in DOMAIN task.sets :
    task.sets[e] # {} => task.sets[e] \cap task.offers[h].regions # {}

Suitable(h) ==
  /\ task.offers[h].is.stored /\ task.offers[h].is.enabled
  /\ RegionsRated(h)
  /\ task.needs \subseteq task.offers[h].is.providers

\* ... and the regions next; a failure is tried again, with the sets of before.
ChooseWorker ==
  /\ task.at = "regions"
  /\ \/ /\ RegionsUsable
        /\ \E h \in Hosts :
             /\ Suitable(h)
             /\ task' = [NoTask EXCEPT !.at = "granted", !.granted = {h},
                                       !.needs = task.needs]
     \/ /\ ~RegionsUsable \/ ~\E h \in Hosts : Suitable(h)
        /\ task' = IF task.tries + 1 = MaxTries
                     THEN [NoTask EXCEPT !.at = "failed"]
                     ELSE [task EXCEPT !.tries = @ + 1, !.at = "services", !.offers = <<>>]
  /\ UNCHANGED <<tables, txn, workers, shut, transfer, changed, changes>>

Registration(h) ==
  check_service_registered(h) \/ UpdateRegistration(h) \/ RegisterSelf(h)

SchedNext ==
  \/ \E r \in Regions : create_region(r) \/ update_region(r) \/ delete_region(r)
  \/ \E e \in Endpoints, rs \in SUBSET Regions :
       create_endpoint(e, rs) \/ update_endpoint(e, rs)
  \/ \E e \in Endpoints : delete_endpoint(e) \/ ReadEndpoint(e)
  \/ \E h \in Hosts, on \in BOOLEAN, rs \in SUBSET Regions :
       register_service(h, on, rs) \/ update_service(h, on, rs)
  \/ \E h \in Hosts :
       \/ delete_service(h) \/ refresh_service_status(h)
       \/ StartWorker(h) \/ Registration(h) \/ LoseCall(h)
  \/ \E t \in Targets : BeginUpdate(t) \/ CommitUpdate(t)
  \/ AddTransfer
  \/ \E needs \in SUBSET Endpoints \ {{}} : get_worker_service_for_task(needs)
  \/ ReadServices \/ ChooseWorker

SchedSpec == SchedInit /\ [][SchedNext]_schedVars

-----------------------------------------------------------------------------
SchedTypeOK ==
  /\ region \in [Regions -> {"none", "enabled", "disabled", "deleted"}]
  /\ endpoint \in [Endpoints -> {"none", "stored", "deleted"}]
  /\ mappings \in [Targets -> SUBSET Regions]
  /\ task.granted \subseteq Hosts

\* A worker which is granted when nothing was changed since the task was begun is
\* enabled, has the providers, and is in a region of every endpoint it has to reach
\* which has regions at all.
GrantedFits ==
  (task.at = "granted" /\ ~changed) => \A h \in task.granted :
    /\ service[h].stored /\ service[h].enabled
    /\ task.needs \subseteq service[h].providers
    /\ \A e \in task.needs : mappings[e] # {} => mappings[e] \cap mappings[h] # {}

\* A service which an administrator has disabled stays so, whatever its worker does,
\* until an administrator enables or deletes it.
DisabledStays == \A h \in Hosts : shut[h] => ~service[h].enabled

\* A worker which has registered itself is known with the providers it has now, not with
\* those of an earlier start, whoever else has registered or deleted its service.
KnownAsItIs ==
  \A h \in Hosts :
    (worker[h] = "done" /\ service[h].stored) => service[h].providers = installed[h]

\* "None of the selected Regions (%s) are enabled or otherwise usable.": the worker of a
\* task is in a region which is enabled.
GrantedInEnabledRegion ==
  (task.at = "granted" /\ ~changed) => \A h \in task.granted : \A e \in task.needs :
    mappings[e] # {} => \E r \in mappings[e] \cap mappings[h] : region[r] = "enabled"

\* "%s transfers would be orphaned!": the endpoints of a transfer are there.
NoOrphan == transfer.at = "added" => \A e \in Endpoints : endpoint[e] = "stored"

\* No endpoint and no service is mapped to a region which is not there.
NoDanglingMapping == \A t \in Targets : \A r \in mappings[t] : Exists(r)
=============================================================================

---------------------------- MODULE WorkerSetup ----------------------------
(***************************************************************************)
(* How a worker VM is prepared over SSH: Replicator.init_replicator on the *)
(* source's side, HTTPBackupWriterBootstrapper.setup_writer on the         *)
(* destination's.  A command may fail, up to MaxFailures times, and what   *)
(* contains it is tried again by utils.retry_on_error; a step which was    *)
(* done is recognised by what it left on the worker.  The worker is fresh, *)
(* or was set up for an earlier execution and its services still run.      *)
(*                                                                         *)
(* A step of the model is a command which changes the worker, or the local *)
(* copies of the certificates.                                             *)
(***************************************************************************)
EXTENDS Integers, Sequences, FiniteSets

CONSTANTS MaxAttempts,   \* max_attempts of retry_on_error
          MaxFailures    \* bound: commands which fail

VARIABLES
  program,   \* "replicator" or "writer"
  at,        \* the command which is next, "done" or "failed"
  worker,    \* what is on the worker
  init_system, \* that of the worker: "systemd", "upstart" or "none" of them
  ssh,       \* the client _setup_replicator works with: the one it was "given", a
             \* "fresh" one, or the given one after it was "closed"
  member,    \* the SSH session has the replicator's group
  local,     \* ca_crt, client_crt, client_key in _cert_dir
  attempts,  \* of what is tried again as a whole
  certAttempts, \* of _setup_certificates
  reconnected,  \* init_replicator has reconnected SSH
  reused,    \* the worker was set up before
  failures

vars == <<program, at, worker, init_system, ssh, member, local, attempts,
          certAttempts, reconnected, reused, failures>>

Files == <<"ca_crt", "client_crt", "client_key">>

\* state and running: the state file of this execution is number 2; running is
\* the number of that which the running service has read, 0 if none runs.
Fresh == [state |-> 0, binary |-> "none", group |-> FALSE, user |-> FALSE,
          inGroup |-> FALSE, inDisk |-> FALSE, certs |-> "none",
          unit |-> FALSE, running |-> 0]

Used == [state |-> 1, binary |-> "executable", group |-> TRUE, user |-> TRUE,
         inGroup |-> TRUE, inDisk |-> TRUE, certs |-> "readable",
         unit |-> TRUE, running |-> 1]

Init ==
  /\ program \in {"replicator", "writer"}
  /\ at = IF program = "replicator" THEN "copy_state" ELSE "copy_writer"
  /\ reused \in BOOLEAN
  /\ worker = IF reused THEN Used ELSE Fresh
  /\ init_system \in {"systemd", "upstart", "none"}
  /\ ssh = "given" /\ member = reused
  /\ local = [f \in 1..Len(Files) |-> "none"]
  /\ attempts = 0 /\ certAttempts = 0
  /\ reconnected = FALSE /\ failures = 0

Ended == at \in {"done", "failed"}

-----------------------------------------------------------------------------
(***************************************************************************)
(* utils                                                                   *)
(***************************************************************************)

\* What is run again after a failure, while it has attempts left.
InCertificates == at \in {"certs", "chown", "chmod_certs", "fetch"}

\* _setup_certificates of the replicator is retried by itself, and is part of
\* _setup_replicator, which is retried, and with another client once more.  Retries
\* are given the same client, although _reconnect_ssh has closed it.
ReplicatorFails ==
  /\ program = "replicator"
  /\ \/ /\ InCertificates /\ certAttempts + 1 < MaxAttempts
        /\ certAttempts' = certAttempts + 1 /\ at' = "certs"
        /\ UNCHANGED <<attempts, ssh>>
     \/ /\ ~(InCertificates /\ certAttempts + 1 < MaxAttempts)
        /\ at \notin {"reconnect_given", "get_status"}
        /\ certAttempts' = 0
        /\ \/ /\ attempts + 1 < MaxAttempts
              /\ attempts' = attempts + 1 /\ at' = "copy_state"
              /\ ssh' = IF at = "reconnect" \/ ssh = "fresh" THEN "closed" ELSE ssh
           \/ /\ attempts + 1 = MaxAttempts
              /\ at' = IF reconnected THEN "failed" ELSE "reconnect_given"
              /\ UNCHANGED <<attempts, ssh>>
     \/ /\ at = "get_status"
        /\ \/ /\ attempts + 1 < MaxAttempts
              /\ attempts' = attempts + 1 /\ UNCHANGED at
           \/ /\ attempts + 1 = MaxAttempts
              /\ at' = "failed" /\ UNCHANGED attempts
        /\ UNCHANGED <<certAttempts, ssh>>
     \/ /\ at = "reconnect_given" /\ at' = "failed"
        /\ UNCHANGED <<attempts, certAttempts, ssh>>

\* _copy_writer, _setup_certificates and _init_writer are retried one by one.
WriterFails ==
  /\ program = "writer"
  /\ \/ /\ attempts + 1 < MaxAttempts
        /\ attempts' = attempts + 1
        /\ at' = CASE at \in {"copy_writer", "chmod_writer"} -> "copy_writer"
                   [] at = "certs" -> "certs"
                   [] OTHER -> "unit"
     \/ attempts + 1 = MaxAttempts /\ at' = "failed" /\ UNCHANGED attempts
  /\ UNCHANGED <<certAttempts, ssh>>

Fails ==
  /\ ReplicatorFails \/ WriterFails
  /\ UNCHANGED <<program, reused, init_system, reconnected, member>>

\* A command fails, and has changed nothing, or -- if it is gen-certs -- some
\* of the five files.  A file which is to be fetched is there before it is read.
CommandFails ==
  /\ ~Ended /\ failures < MaxFailures
  /\ failures' = failures + 1
  /\ \/ at = "certs" /\ worker.certs = "none"
        /\ worker' = [worker EXCEPT !.certs = "some"] /\ UNCHANGED local
     \/ at = "fetch" /\ UNCHANGED worker
        /\ \E f \in DOMAIN local :
             local' = [g \in DOMAIN local |->
                         IF g < f THEN "whole" ELSE IF g = f THEN "empty"
                         ELSE local[g]]
     \/ at # "fetch" /\ UNCHANGED <<worker, local>>
  /\ Fails

\* A command which cannot succeed on this worker.
Hopeless == Fails /\ UNCHANGED <<worker, local, failures>>

Step(next) ==
  /\ at' = next
  /\ UNCHANGED <<program, reused, init_system, ssh, member, reconnected, failures>>

\* systemctl start leaves a service which runs alone, start refuses it.
StartRefused == init_system = "upstart" /\ worker.running # 0

\* The service reads the state file when it starts, and exits if it cannot read
\* its certificates.
Started ==
  CASE worker.running # 0 -> worker.running
    [] worker.running = 0 /\ worker.binary # "executable" -> 0
    [] worker.running = 0 /\ worker.binary = "executable" ->
         IF program = "writer" THEN 2
         ELSE IF worker.user /\ worker.certs \in {"owned", "readable"}
              THEN worker.state ELSE 0

-----------------------------------------------------------------------------
(***************************************************************************)
(* Replicator._setup_replicator                                            *)
(***************************************************************************)

\* _copy_file of _get_replicator_state_file's
CopyState ==
  \/ /\ at = "copy_state" /\ ssh # "closed"
     /\ worker' = [worker EXCEPT !.state = 2]
     /\ Step("copy_binary")
     /\ UNCHANGED <<local, attempts, certAttempts>>
  \/ /\ at = "copy_state" /\ ssh = "closed"
     /\ Hopeless

\* _copy_replicator_cmd; _change_binary_se_context only logs its failure.
CopyBinary ==
  /\ at = "copy_binary"
  /\ worker' = [worker EXCEPT !.binary = "executable"]
  /\ Step("group")
  /\ UNCHANGED <<local, attempts, certAttempts>>

\* _setup_replicator_group
GroupAdd ==
  /\ at = "group"
  /\ worker' = [worker EXCEPT !.group = TRUE]
  /\ Step(IF worker.group THEN "user" ELSE "usermod")
  /\ UNCHANGED <<local, attempts, certAttempts>>

UserMod ==
  /\ at = "usermod"
  /\ worker' = [worker EXCEPT !.inGroup = TRUE]
  /\ Step("reconnect")
  /\ UNCHANGED <<local, attempts, certAttempts>>

\* _reconnect_ssh, since the group was not there; and that of init_replicator.
Reconnect ==
  /\ at = "reconnect"
  /\ at' = "user" /\ ssh' = "fresh" /\ member' = worker.inGroup
  /\ UNCHANGED <<program, worker, init_system, local, attempts, certAttempts,
                 reconnected, reused, failures>>

ReconnectGiven ==
  /\ at = "reconnect_given"
  /\ at' = "copy_state" /\ ssh' = "given" /\ member' = worker.inGroup
  /\ attempts' = 0 /\ reconnected' = TRUE
  /\ UNCHANGED <<program, worker, init_system, local, certAttempts, reused, failures>>

\* _setup_replicator_user
UserAdd ==
  /\ at = "user"
  /\ worker' = [worker EXCEPT !.user = TRUE]
  /\ certAttempts' = 0
  /\ Step(IF worker.user THEN "certs" ELSE "disk_group")
  /\ UNCHANGED <<local, attempts>>

UserModDisk ==
  /\ at = "disk_group"
  /\ worker' = [worker EXCEPT !.inDisk = TRUE]
  /\ Step("certs")
  /\ UNCHANGED <<local, attempts, certAttempts>>

\* _setup_certificates: the rest is skipped if the five files are there, and so
\* is the fetching if the three local ones are.
GenCerts ==
  /\ program = "replicator" /\ at = "certs"
  /\ IF worker.certs \in {"none", "some"}
     THEN worker' = [worker EXCEPT !.certs = "made"] /\ Step("chown")
     ELSE /\ UNCHANGED worker
          /\ Step(IF \A f \in DOMAIN local : local[f] # "none" THEN "unit"
                  ELSE "fetch")
  /\ UNCHANGED <<local, attempts, certAttempts>>

Chown ==
  /\ at = "chown"
  /\ worker' = [worker EXCEPT !.certs = "owned"]
  /\ Step("chmod_certs")
  /\ UNCHANGED <<local, attempts, certAttempts>>

ChmodCerts ==
  /\ at = "chmod_certs"
  /\ worker' = [worker EXCEPT !.certs = "readable"]
  /\ Step("fetch")
  /\ UNCHANGED <<local, attempts, certAttempts>>

\* _fetch_remote_file reads as the user of the session.
Fetch ==
  /\ at = "fetch"
  /\ IF member /\ worker.certs = "readable"
     THEN /\ local' = [f \in DOMAIN local |-> "whole"]
          /\ Step("unit")
          /\ UNCHANGED <<worker, attempts, certAttempts>>
     ELSE /\ local' = [local EXCEPT ![1] = "empty"]
          /\ Fails
          /\ UNCHANGED <<worker, failures>>

\* What follows create_service.
Launched == IF program = "writer" THEN "done" ELSE "start"

\* Mutant: a service whose unit is there is not started.
UnitFound ==
  /\ at = "unit" /\ init_system # "none"
  /\ worker' = [worker EXCEPT !.unit = TRUE]
  /\ Step(IF worker.unit THEN Launched ELSE "start_unit")
  /\ UNCHANGED <<local, attempts, certAttempts>>

\* create_service: the unit is written once, and the service started; by upstart only
\* if its unit was not there.
WriteUnit ==
  \/ /\ at = "unit" /\ init_system # "none"
     /\ worker' = [worker EXCEPT !.unit = TRUE]
     /\ Step(IF worker.unit /\ init_system = "upstart" THEN Launched
             ELSE "start_unit")
     /\ UNCHANGED <<local, attempts, certAttempts>>
  \/ /\ at = "unit" /\ init_system = "none"
     /\ Hopeless

StartUnit ==
  \/ /\ at = "start_unit" /\ ~StartRefused
     /\ worker' = [worker EXCEPT !.running = Started]
     /\ Step(Launched)
     /\ UNCHANGED <<local, attempts, certAttempts>>
  \/ /\ at = "start_unit" /\ StartRefused
     /\ Hopeless

\* Replicator.start
Start ==
  \/ /\ at = "start" /\ ~StartRefused
     /\ worker' = [worker EXCEPT !.running = Started]
     /\ attempts' = 0
     /\ Step("get_status")
     /\ UNCHANGED <<local, certAttempts>>
  \/ /\ at = "start" /\ StartRefused
     /\ Hopeless

\* _init_replicator_client connects to the port, through a tunnel if need be,
\* and get_status uses the certificates.
GetStatus ==
  /\ at = "get_status"
  /\ IF worker.running # 0 /\ \A f \in DOMAIN local : local[f] = "whole"
     THEN /\ Step("done")
          /\ UNCHANGED <<worker, local, attempts, certAttempts>>
     ELSE Hopeless

-----------------------------------------------------------------------------
(***************************************************************************)
(* HTTPBackupWriterBootstrapper.setup_writer                               *)
(***************************************************************************)

\* Nothing is copied if there is a file.
CopyWriter ==
  /\ at = "copy_writer"
  /\ IF worker.binary = "none"
     THEN /\ worker' = [worker EXCEPT !.binary = "copied"]
          /\ Step("chmod_writer") /\ UNCHANGED attempts
     ELSE /\ UNCHANGED worker
          /\ Step("certs") /\ attempts' = 0
  /\ UNCHANGED <<local, certAttempts>>

ChmodWriter ==
  /\ at = "chmod_writer"
  /\ worker' = [worker EXCEPT !.binary = "executable"]
  /\ attempts' = 0
  /\ Step("certs")
  /\ UNCHANGED <<local, certAttempts>>

\* The certificates are made by the binary.
WriterCerts ==
  /\ program = "writer" /\ at = "certs"
  /\ \/ /\ worker.certs \notin {"none", "some"}
        /\ attempts' = 0 /\ Step("unit") /\ UNCHANGED worker
     \/ /\ worker.certs \in {"none", "some"} /\ worker.binary = "executable"
        /\ worker' = [worker EXCEPT !.certs = "made"]
        /\ attempts' = 0 /\ Step("unit")
     \/ /\ worker.certs \in {"none", "some"} /\ worker.binary # "executable"
        /\ Hopeless
  /\ UNCHANGED <<local, certAttempts>>

-----------------------------------------------------------------------------
\* It is over.
Over == Ended /\ UNCHANGED vars

SetupNext ==
  \/ CommandFails
  \/ CopyState \/ CopyBinary \/ GroupAdd \/ UserMod \/ Reconnect \/ ReconnectGiven
  \/ UserAdd \/ UserModDisk \/ GenCerts \/ Chown \/ ChmodCerts \/ Fetch
  \/ WriteUnit \/ StartUnit \/ Start \/ GetStatus
  \/ CopyWriter \/ ChmodWriter \/ WriterCerts
  \/ Over

SetupSpec == Init /\ [][SetupNext]_vars /\ WF_vars(SetupNext)

-----------------------------------------------------------------------------
\* Type invariant: the counters stay below retry_on_error's max_attempts.
SetupTypeOK ==
  /\ worker.state \in 0..2 /\ worker.running \in 0..2
  /\ attempts \in 0..(MaxAttempts - 1) /\ certAttempts \in 0..(MaxAttempts - 1)
  /\ failures \in 0..MaxFailures

\* Once the worker is set up, a service runs on it, and on a fresh worker the
\* replicator has read the state file of this execution, whatever was retried.  There
\* is one exception: under upstart create_service leaves a service alone whose unit is
\* there, so that the writer's is not started again where starting it has failed.
ServiceReady ==
  at = "done" =>
    /\ worker.running = 0 =>
         program = "writer" /\ init_system = "upstart" /\ failures > 0
    /\ ~reused => worker.running \in {0, 2}

\* The retries end, whatever it is that fails.
SetupEnds == <>Ended

\* The user which the replicator runs as is in the group "disk" once the worker
\* is set up: it can read the disks.
CanReadDisks == program = "replicator" /\ at = "done" => worker.inDisk

\* "NOTE: this is required in order for the user we connected as to be able to
\* read the certs": a command which fails once does not make the setup of the
\* worker fail, since it is retried.
RetriedSucceeds == failures < MaxAttempts => at # "failed"
=============================================================================

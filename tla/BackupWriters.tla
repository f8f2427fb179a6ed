--------------------------- MODULE BackupWriters ----------------------------
(***************************************************************************)
(* The backup writers of providers/backup_writers.py: one pass over a disk *)
(* by the thread which replicates it, inside `with writer.open(...)', and  *)
(* by the threads the writer starts.  Chunks go through a bounded queue to *)
(* the encoders (compressors, for HTTP), and through another one to the    *)
(* sender, which writes them on the target.                                *)
(*                                                                         *)
(* The SSH and the HTTP writer have the same threads and differ in how     *)
(* they open, fail and close; the file writer has none.  A queue's get     *)
(* with its timeout, in a loop, is a get which waits.                      *)
(***************************************************************************)
EXTENDS Integers, Sequences, FiniteSets

CONSTANTS
  NChunks,      \* the chunks to write, known by their order
  Encoders,     \* encoder_count, compressor_count
  Capacity,     \* maxsize of both queues
  MaxFailures   \* bound on failures

\* open:     the device cannot be acquired, the helper not started
\* body:     a chunk cannot be downloaded, inside the context
\* encode:   an encoder raises
\* send:     the sender has exhausted its retries
\* checksum: the checksum job fails or takes too long
\* wait:     the queues are not emptied within ten minutes
\* close:    the device cannot be released, the end of data not sent
Failures == {"open", "body", "encode", "send", "checksum", "wait", "close"}

ASSUME WriterAssumption ==
  /\ NChunks \in Nat /\ Capacity \in Nat \ {0}
  /\ IsFiniteSet(Encoders)
  /\ MaxFailures \in Nat

Chunks == 1..NChunks

VARIABLES
  kind,        \* "ssh", "http" or "file"
  failing,     \* the one kind of failure of this behaviour
  failures,    \* failures left
  caller,      \* where the thread in the context stands
  next,        \* the chunk it is about to write
  encQ,        \* _enc_q, _comp_q
  encTasks,    \* its unfinished_tasks
  encoder,     \* what each encoder does, and with which chunk
  senderQ,     \* _sender_q
  senderTasks, \* its unfinished_tasks
  sender,      \* what the sender does, and with which chunk
  exception,   \* is _exception set?
  closing,     \* _closing
  stopped,     \* _stopped
  raised,      \* has the context raised already?
  held,        \* is the connection open, or the device acquired?
  disk,        \* the chunks on the target's disk
  checksum     \* what the checksum job read; {}: none has

queues == <<encQ, encTasks, senderQ, senderTasks>>
threads == <<encoder, sender>>
setting == <<kind, failing>>
vars == <<setting, failures, caller, next, queues, threads, exception, closing,
          stopped, raised, held, disk, checksum>>

\* "put": past the checks of write, waiting for a place in the queue.
Places == {"open", "write", "put", "verify", "job", "handle", "close", "wait",
           "end", "done", "failed"}

Idle == [at |-> "get", c |-> 0]

TypeOK ==
  /\ kind \in {"ssh", "http", "file"} /\ failing \in Failures
  /\ failures \in 0..MaxFailures
  /\ caller \in Places
  /\ next \in 1..(NChunks + 1)
  /\ \A q \in {encQ, senderQ} :
       Len(q) <= Capacity /\ \A k \in DOMAIN q : q[k] \in Chunks
  /\ encTasks \in 0..NChunks /\ senderTasks \in 0..NChunks
  /\ \A e \in Encoders : /\ encoder[e].at \in {"get", "encode", "put", "dead"}
                         /\ encoder[e].c \in 0..NChunks
  /\ sender.at \in {"get", "send", "dead"} /\ sender.c \in 0..NChunks
  /\ {exception, closing, stopped, raised, held} \subseteq BOOLEAN
  /\ disk \subseteq Chunks /\ checksum \subseteq Chunks

Init ==
  /\ kind \in {"ssh", "http", "file"} /\ failing \in Failures
  /\ failures = MaxFailures
  /\ caller = "open" /\ next = 1
  /\ encQ = <<>> /\ encTasks = 0 /\ senderQ = <<>> /\ senderTasks = 0
  /\ encoder = [e \in Encoders |-> Idle] /\ sender = Idle
  /\ exception = FALSE /\ closing = FALSE /\ stopped = FALSE
  /\ raised = FALSE
  /\ held = (kind = "ssh")  \* _get_impl connects
  /\ disk = {} /\ checksum = {}

Fails(f) == failing = f /\ failures > 0 /\ failures' = failures - 1

Goto(place) == caller' = place
-----------------------------------------------------------------------------
(* The thread in the context: BaseBackupWriter.open and what it calls.     *)

\* _open: _acquire, or _exec_helper_cmd, or the file.
Open ==
  /\ caller = "open"
  /\ held' = TRUE
  /\ Goto("write")
  /\ UNCHANGED <<setting, failures, next, queues, threads, exception, closing,
                 stopped, raised, disk, checksum>>

\* An HTTP writer goes on to close; the _handle_exception of the SSH writer and
\* then its close fail, as there is no helper, and leave the connection.
OpenFails ==
  /\ caller = "open"
  /\ Fails("open")
  /\ raised' = TRUE
  /\ Goto(IF kind = "http" THEN "close" ELSE "failed")
  /\ UNCHANGED <<setting, next, queues, threads, exception, closing, stopped,
                 held, disk, checksum>>

\* The checks of write; they come before the put, which may wait.
Write ==
  /\ caller = "write" /\ next \in Chunks /\ kind # "file"
  /\ Goto(IF exception THEN "handle" ELSE "put")
  /\ UNCHANGED <<setting, failures, next, queues, threads, exception, closing,
                 stopped, raised, held, disk, checksum>>

Put ==
  /\ caller = "put" /\ Len(encQ) < Capacity
  /\ encQ' = Append(encQ, next) /\ encTasks' = encTasks + 1
  /\ next' = next + 1
  /\ Goto("write")
  /\ UNCHANGED <<setting, failures, senderQ, senderTasks, threads, exception,
                 closing, stopped, raised, held, disk, checksum>>

WriteFile ==
  /\ caller = "write" /\ next \in Chunks /\ kind = "file"
  /\ disk' = disk \cup {next}
  /\ next' = next + 1
  /\ UNCHANGED <<setting, failures, caller, queues, threads, exception, closing,
                 stopped, raised, held, checksum>>

BodyFails ==
  /\ caller = "write" /\ next \in Chunks
  /\ Fails("body")
  /\ Goto("handle")
  /\ UNCHANGED <<setting, next, queues, threads, exception, closing, stopped, raised, held,
                 disk, checksum>>

\* The chunks are written; if asked to, replicate_disks compares checksums, which
\* only the HTTP writer has.
Written ==
  /\ caller = "write" /\ next \notin Chunks
  /\ \E verify \in BOOLEAN : Goto(IF verify /\ kind = "http" THEN "verify"
                                  ELSE "close")
  /\ UNCHANGED <<setting, failures, next, queues, threads, exception, closing,
                 stopped, raised, held, disk, checksum>>

\* The loop of _wait_for_queues ends.
QueuesEmptied == (encTasks = 0 /\ senderTasks = 0) \/ exception

\* get_disk_checksum, up to the job.
Verify ==
  /\ caller = "verify" /\ QueuesEmptied
  /\ Goto(IF exception THEN "handle" ELSE "job")
  /\ UNCHANGED <<setting, failures, next, queues, threads, exception, closing,
                 stopped, raised, held, disk, checksum>>

\* The job is done, and deleted.
ChecksumJob ==
  /\ caller = "job"
  /\ checksum' = disk
  /\ Goto("close")
  /\ UNCHANGED <<setting, failures, next, queues, threads, exception, closing,
                 stopped, raised, held, disk>>

ChecksumFails ==
  /\ caller \in {"verify", "job"}
  /\ Fails("checksum")
  /\ Goto("handle")
  /\ UNCHANGED <<setting, next, queues, threads, exception, closing, stopped, raised, held,
                 disk, checksum>>

\* _handle_exception: only the SSH writer does something, and raises.
HandleException ==
  /\ caller = "handle"
  /\ held' = (held /\ kind # "ssh")
  /\ raised' = TRUE
  /\ Goto("close")
  /\ UNCHANGED <<setting, failures, next, queues, threads, exception, closing,
                 stopped, disk, checksum>>

\* _wait_for_queues gives up: in close this leaves the threads running and the
\* device held.
WaitFails ==
  /\ caller \in {"verify", "wait"} /\ ~QueuesEmptied
  /\ Fails("wait")
  /\ Goto(IF caller = "verify" THEN "handle" ELSE "failed")
  /\ UNCHANGED <<setting, next, queues, threads, exception, closing, stopped,
                 raised, held, disk, checksum>>

\* close, in the finally clause of open.
Close ==
  /\ caller = "close"
  /\ closing' = TRUE
  /\ Goto("wait")
  /\ UNCHANGED <<setting, failures, next, queues, threads, exception, stopped,
                 raised, held, disk, checksum>>

Stop ==
  /\ caller = "wait" /\ QueuesEmptied
  /\ stopped' = TRUE
  /\ Goto("end")
  /\ UNCHANGED <<setting, failures, next, queues, threads, exception, closing,
                 raised, held, disk, checksum>>

\* The rest of close: an exception of the threads is raised, after the device has
\* been released; otherwise the end of data is sent, or the device released.
End ==
  /\ caller = "end"
  /\ held' = (held /\ kind = "ssh" /\ exception)
  /\ Goto(IF exception \/ raised THEN "failed" ELSE "done")
  /\ UNCHANGED <<setting, failures, next, queues, threads, exception, closing,
                 stopped, raised, disk, checksum>>

EndFails ==
  /\ caller = "end" /\ held /\ kind # "file"
  /\ Fails("close")
  /\ Goto("failed")
  /\ UNCHANGED <<setting, next, queues, threads, exception, closing, stopped,
                 raised, held, disk, checksum>>

-----------------------------------------------------------------------------
(* The threads.  They are only joined when close succeeds.                 *)

Threaded == kind # "file" /\ caller # "open"

\* The loop ends when _stopped is set, but a thread which waits in get already may
\* still be given something.
Again == [at |-> IF stopped THEN "dead" ELSE "get", c |-> 0]

EncoderGets(e) ==
  /\ Threaded
  /\ encoder[e].at = "get" /\ encQ # <<>>
  /\ encoder' = [encoder EXCEPT ![e] = [at |-> "encode", c |-> Head(encQ)]]
  /\ encQ' = Tail(encQ)
  /\ UNCHANGED <<setting, failures, caller, next, encTasks, senderQ, senderTasks,
                 sender, exception, closing, stopped, raised, held, disk,
                 checksum>>

\* Mutant: the encoder is done with a chunk before it has passed it on.
DoneBeforePut(e) ==
  \/ /\ encoder[e].at = "encode"
     /\ encoder' = [encoder EXCEPT ![e].at = "put"]
     /\ encTasks' = encTasks - 1
     /\ UNCHANGED <<setting, failures, caller, next, encQ, senderQ, senderTasks,
                    sender, exception, closing, stopped, raised, held, disk,
                    checksum>>
  \/ /\ encoder[e].at = "put" /\ Len(senderQ) < Capacity
     /\ senderQ' = Append(senderQ, encoder[e].c)
     /\ senderTasks' = senderTasks + 1
     /\ encoder' = [encoder EXCEPT ![e] = Idle]
     /\ UNCHANGED <<setting, failures, caller, next, encQ, encTasks, sender,
                    exception, closing, stopped, raised, held, disk, checksum>>

\* The chunk is encoded and put in the sender's queue, which may have to be waited
\* for, whatever happens to the sender meanwhile; then it is done.
EncoderPuts(e) ==
  \/ /\ encoder[e].at = "encode" /\ Len(senderQ) < Capacity
     /\ senderQ' = Append(senderQ, encoder[e].c)
     /\ senderTasks' = senderTasks + 1
     /\ encoder' = [encoder EXCEPT ![e].at = "put"]
     /\ UNCHANGED <<setting, failures, caller, next, encQ, encTasks, sender,
                    exception, closing, stopped, raised, held, disk, checksum>>
  \/ /\ encoder[e].at = "put"
     /\ encTasks' = encTasks - 1
     /\ encoder' = [encoder EXCEPT ![e] = Again]
     /\ UNCHANGED <<setting, failures, caller, next, encQ, senderQ, senderTasks,
                    sender, exception, closing, stopped, raised, held, disk,
                    checksum>>

\* Mutant: the exception ends the thread.
EncoderDies(e) ==
  /\ encoder[e].at = "encode"
  /\ Fails("encode")
  /\ encoder' = [encoder EXCEPT ![e] = [at |-> "dead", c |-> 0]]
  /\ UNCHANGED <<setting, caller, next, encQ, encTasks, senderQ, senderTasks, sender,
                 exception, closing, stopped, raised, held, disk, checksum>>

EncoderFails(e) ==
  /\ encoder[e].at = "encode"
  /\ Fails("encode")
  /\ exception' = TRUE
  /\ encTasks' = encTasks - 1
  /\ encoder' = [encoder EXCEPT ![e] = [at |-> "dead", c |-> 0]]
  /\ UNCHANGED <<setting, caller, next, encQ, senderQ, senderTasks, sender,
                 closing, stopped, raised, held, disk, checksum>>

SenderGets ==
  /\ Threaded
  /\ sender.at = "get" /\ senderQ # <<>>
  /\ sender' = [at |-> "send", c |-> Head(senderQ)]
  /\ senderQ' = Tail(senderQ)
  /\ UNCHANGED <<setting, failures, caller, next, encQ, encTasks, senderTasks,
                 encoder, exception, closing, stopped, raised, held, disk,
                 checksum>>

SenderSends ==
  /\ sender.at = "send"
  /\ disk' = disk \cup {sender.c}
  /\ senderTasks' = senderTasks - 1
  /\ sender' = Again
  /\ UNCHANGED <<setting, failures, caller, next, encQ, encTasks, senderQ,
                 encoder, exception, closing, stopped, raised, held, checksum>>

\* The sender has retried enough.  The chunk may have been written all the same.
SenderFails ==
  /\ sender.at = "send"
  /\ Fails("send")
  /\ exception' = TRUE
  /\ disk' \in {disk, disk \cup {sender.c}}
  /\ senderTasks' = senderTasks - 1
  /\ sender' = [at |-> "dead", c |-> 0]
  /\ UNCHANGED <<setting, caller, next, encQ, encTasks, senderQ, encoder,
                 closing, stopped, raised, held, checksum>>

-----------------------------------------------------------------------------

Caller ==
  \/ Open \/ OpenFails
  \/ Write \/ Put \/ WriteFile \/ BodyFails \/ Written
  \/ Verify \/ ChecksumJob \/ ChecksumFails
  \/ HandleException
  \/ WaitFails \/ Close \/ Stop \/ End \/ EndFails

Encoder(e) == EncoderGets(e) \/ EncoderPuts(e) \/ EncoderFails(e)

Sender == SenderGets \/ SenderSends \/ SenderFails

Next == Caller \/ Sender \/ \E e \in Encoders : Encoder(e)

Spec == Init /\ [][Next]_vars

\* Threads are scheduled, and queues and sockets serve whoever waits for them.
Fairness ==
  /\ WF_vars(Caller)
  /\ WF_vars(Sender)
  /\ \A e \in Encoders : WF_vars(Encoder(e))

FairSpec == Spec /\ Fairness

-----------------------------------------------------------------------------
(* Properties.                                                             *)

Over == caller \in {"done", "failed"}

D == INSTANCE DiskWrite WITH
       outcome <- IF Over THEN caller ELSE "open"

\* The context of a writer ends normally only when every chunk has reached the
\* disk, whatever its threads do and fail to do: the queues are never both found
\* empty while a chunk is between them, and an exception of a thread is never lost
\* (_encoder, _sender, _wait_for_queues, close).
WritesTheDisk == D!Spec

\* The checksum which is compared with the source's is one of all the chunks:
\* get_disk_checksum waits for what write has only queued.
ChecksumOfEverything == checksum \in {{}, Chunks}

\* Whatever happens inside the context, an HTTP writer releases the device it has
\* acquired, unless the release itself fails or is never come to as the queues do
\* not empty (close).
DeviceReleased ==
  kind = "http" /\ Over /\ failing \notin {"close", "wait"} => ~held

\* Nobody is left to take anything out of the full queue which write waits for: each
\* encoder has died, or waits itself for a sender which has.
Stuck ==
  /\ caller = "put" /\ Len(encQ) = Capacity
  /\ \A e \in Encoders :
       \/ encoder[e].at = "dead"
       \/ encoder[e].at = "encode" /\ Len(senderQ) = Capacity /\ sender.at = "dead"

\* The context ends, or write was past its check when the last thread died which could
\* have made a place for it in its queue; close does not wait for tasks nobody will
\* finish (write, _encoder, _sender, _wait_for_queues).
ContextEnds == <>(Over \/ Stuck)

\* _sender: "record the exception. We need to terminate the writer if this is set"
FailedWriterEnds == exception ~> Over

\* close of the SSH writer, on an exception of its threads: "We can raise here.
\* Any SSH socket cleanup will happen in _handle_exception()"
SocketCleanedUp == kind = "ssh" /\ caller = "failed" /\ exception => ~held
=============================================================================

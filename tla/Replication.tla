---------------------------- MODULE Replication ----------------------------
(***************************************************************************)
(* Replicator.replicate_disks, one call after the other: which chunks of   *)
(* which disks are sent to the backup writer, and what is remembered of    *)
(* them.  The source's disks do not change during a call, which reads them *)
(* from a snapshot.  The contract of a writer is that of DiskWrite: what   *)
(* was written is on the disk, in its order, or the call raises.           *)
(*                                                                         *)
(* A chunk is two units, so that the end of the destination's disk may cut *)
(* one in two.  The content of a unit is the number of the call before     *)
(* which the guest wrote it; 0 is zeros.                                   *)
(***************************************************************************)
EXTENDS Integers

CONSTANTS Disks, Chunks,
          MaxCalls,       \* bound: calls
          MaxFailures     \* bound: calls which raise

VARIABLES
  src,         \* the disks of the source
  dst,         \* those of the destination; Unknown where nothing was written
  size,        \* dst_vol["size"] of every disk, in units
  zeroed,      \* dst_vol["zeroed"]: the destination's disks were all zeros
  keeps,       \* the caller gives the state of a call to the next one
  repl_state,  \* _repl_state: the disks as they were, or NoState
  curr_state,  \* get_status(brief=False), at the beginning of the call
  volume,      \* the disk of the loop, 0 between calls
  chunks,      \* those which it has still to send
  early,       \* a call has returned before it came to the last disk
  verified,    \* the checksums of the last call were compared
  outcome,     \* of the last call
  raised,      \* a call has raised
  calls, failures

vars == <<src, dst, size, zeroed, keeps, repl_state, curr_state, volume,
          chunks, early, verified, outcome, raised, calls, failures>>

Units == 1..(2 * Chunks)
UnitsOf(c) == {2 * c - 1, 2 * c}
NoState == <<>>
Unknown == 0 - 1

Init ==
  /\ src = [d \in 1..Disks |-> [u \in Units |-> IF u = 1 THEN 1 ELSE 0]]
  /\ zeroed \in BOOLEAN /\ keeps \in BOOLEAN /\ (zeroed => keeps)
  /\ dst = [d \in 1..Disks |-> [u \in Units |-> IF zeroed THEN 0 ELSE Unknown]]
  /\ size \in [1..Disks -> {2 * Chunks - 1, 2 * Chunks}]
  /\ repl_state = NoState /\ curr_state = NoState
  /\ volume = 0 /\ chunks = {}
  /\ early = FALSE /\ verified = FALSE /\ outcome = "none"
  /\ raised = FALSE /\ calls = 0 /\ failures = 0

-----------------------------------------------------------------------------
\* Between two calls the guest writes, or discards, a unit of some disks.
GuestWrites ==
  /\ volume = 0 /\ calls < MaxCalls /\ outcome # "none"
  /\ \E D \in SUBSET (1..Disks) \ {{}}, u \in Units, v \in {0, calls + 1} :
       src' = [d \in 1..Disks |->
                 IF d \in D THEN [src[d] EXCEPT ![u] = v] ELSE src[d]]
  /\ outcome' = "none"
  /\ UNCHANGED <<dst, size, zeroed, keeps, repl_state, curr_state, volume,
                 chunks, early, verified, raised, calls, failures>>

\* get_chunks(skip_zeros=True)
NonZero(d) == {c \in 1..Chunks : \E u \in UnitsOf(c) : src[d][u] # 0}

\* get_changes: the chunks whose checksum is not that of the state file.
Changes(d) ==
  IF repl_state = NoState THEN 1..Chunks
  ELSE {c \in 1..Chunks : \E u \in UnitsOf(c) : src[d][u] # repl_state[d][u]}

\* The chunks which are sent: those which begin before the end of the
\* destination's disk.
ChunksOf(d) ==
  LET isInitial == repl_state = NoState
      all == IF isInitial /\ zeroed THEN NonZero(d) ELSE Changes(d)
  IN {c \in all : 2 * (c - 1) < size[d]}

\* Mutant: the state is kept as soon as it is read.
ToDiskStateFirst(d) ==
  /\ repl_state' = IF keeps THEN curr_state' ELSE NoState
  /\ IF d <= Disks /\ ChunksOf(d) # {}
     THEN volume' = d /\ chunks' = ChunksOf(d) /\ UNCHANGED <<early, outcome>>
     ELSE /\ volume' = 0 /\ chunks' = {}
          /\ early' = (early \/ d < Disks) /\ outcome' = "returned"

\* The loop comes to disk d, or is over.  A disk without chunks ends the call.
ToDisk(d) ==
  IF d <= Disks /\ ChunksOf(d) # {}
  THEN /\ volume' = d /\ chunks' = ChunksOf(d)
       /\ UNCHANGED <<repl_state, early, outcome>>
  ELSE /\ volume' = 0 /\ chunks' = {}
       /\ repl_state' = IF keeps THEN curr_state' ELSE NoState
       /\ early' = (early \/ d < Disks)
       /\ outcome' = "returned"

Call ==
  /\ volume = 0 /\ calls < MaxCalls
  /\ calls' = calls + 1
  /\ curr_state' = src
  /\ verified' \in BOOLEAN
  /\ ToDisk(1)
  /\ UNCHANGED <<src, dst, size, zeroed, keeps, raised, failures>>

\* What a chunk leaves on the destination's disk: its length is trimmed.
Written(d, c) ==
  [dst EXCEPT ![d] = [u \in Units |->
     IF u \in UnitsOf(c) /\ u <= size[d] THEN src[d][u] ELSE @[u]]]

\* seek, download_chunk and write, of one chunk after the other
WriteChunk ==
  /\ volume # 0
  /\ \E c \in chunks :
       /\ \A e \in chunks : c <= e
       /\ dst' = Written(volume, c)
       /\ chunks' = chunks \ {c}
  /\ UNCHANGED <<src, size, zeroed, keeps, repl_state, curr_state, volume,
                 early, verified, outcome, raised, calls, failures>>

Same(d) == \A u \in Units : dst[d][u] = src[d][u]

\* The disk is closed, after _verify_disk_checksum has compared the checksums.
CloseDisk ==
  /\ volume # 0 /\ chunks = {}
  /\ verified => Same(volume)
  /\ UNCHANGED curr_state
  /\ ToDisk(volume + 1)
  /\ UNCHANGED <<src, dst, size, zeroed, keeps, verified, raised, calls,
                 failures>>

Raised ==
  /\ volume' = 0 /\ chunks' = {} /\ outcome' = "raised" /\ raised' = TRUE
  /\ UNCHANGED <<src, dst, size, zeroed, keeps, repl_state, curr_state, early,
                 verified, calls>>

ChecksumMismatch ==
  /\ volume # 0 /\ chunks = {} /\ verified /\ ~Same(volume)
  /\ Raised /\ UNCHANGED failures

\* The download of a chunk, or its writing, raises: the state is not replaced.
CallFails ==
  /\ volume # 0 /\ failures < MaxFailures
  /\ failures' = failures + 1
  /\ Raised

ReplicationNext ==
  \/ GuestWrites \/ Call \/ WriteChunk \/ CloseDisk \/ ChecksumMismatch
  \/ CallFails
  \/ volume = 0 /\ calls = MaxCalls /\ UNCHANGED vars

ReplicationSpec == Init /\ [][ReplicationNext]_vars

-----------------------------------------------------------------------------
\* The disks of the destination, as far as they go, are those of the source.
Replicated ==
  \A d \in 1..Disks, u \in Units : u <= size[d] => dst[d][u] = src[d][u]

\* A call of replicate_disks which returns has brought every disk of the
\* destination up to date, unless one without changes made it return early,
\* now or before, or a call has raised before.
ReturnedMeansReplicated ==
  outcome = "returned" /\ ~early /\ ~raised => Replicated

\* Nothing is written past the end of the destination's disk, whatever the size
\* of the source's: the last chunk is trimmed.
InBounds ==
  \A d \in 1..Disks, u \in Units :
    u > size[d] => dst[d][u] = IF zeroed THEN 0 ELSE Unknown

\* What the saved state says was sent is on the destination, as long as no call
\* has raised: a chunk which get_changes leaves out needs no sending.
StateIsOnDisk ==
  repl_state # NoState /\ ~early /\ ~raised =>
    \A d \in 1..Disks, u \in Units :
      u <= size[d] => \/ dst[d][u] = repl_state[d][u]
                      \/ volume # 0 /\ dst[d][u] = curr_state[d][u]

\* "Fetch the block diff and send it to the backup_writer": a call which returns
\* has sent what has changed, of every disk.
EveryDiskReplicated ==
  outcome = "returned" /\ ~raised => Replicated

\* "On subsequent syncs, even zero blocks will be synced": a call after one
\* which has raised brings the destination up to date, too.
ReplicatedAfterFailure == outcome = "returned" /\ ~early => Replicated
=============================================================================

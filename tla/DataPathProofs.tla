--------------------------- MODULE DataPathProofs ---------------------------
(***************************************************************************)
(* The data path, for any number of disks, chunks, instances, units,       *)
(* attempts and failures: the backup writers write the disk, the calls of  *)
(* replicate_disks replicate and trust their state rightly, a fresh worker *)
(* which is set up runs the service with the state of its execution, and   *)
(* the export takes no disk away from another instance.                    *)
(***************************************************************************)
EXTENDS MCDataPath, FiniteSetTheorems, TLAPS

\* Most steps below are first-order consequences of a few facts: Zenon is tried
\* first, and the steps which need records, functions or arithmetic name SMT.
USE Zenon

-----------------------------------------------------------------------------
(***************************************************************************)
(* The backup writers                                                      *)
(*                                                                         *)
(* The invariant follows every chunk which was written from queue to       *)
(* thread to queue to disk, as long as no thread has failed, and counts    *)
(* the tasks of a queue as what is in it and what was taken from it: only  *)
(* then does finding both counters at zero mean that all is on the disk.   *)
(***************************************************************************)

EncoderStates == [at : {"get", "encode", "put", "dead"}, c : 0..NChunks]

WType ==
  /\ caller \in Places /\ next \in 1..(NChunks + 1)
  /\ encQ \in Seq(Chunks) /\ senderQ \in Seq(Chunks)
  /\ encTasks \in Int /\ senderTasks \in Int
  /\ encoder \in [Encoders -> EncoderStates]
  /\ sender \in [at : {"get", "send", "dead"}, c : 0..NChunks]
  /\ exception \in BOOLEAN /\ raised \in BOOLEAN /\ stopped \in BOOLEAN
  /\ disk \subseteq Chunks
  /\ \A e \in Encoders : encoder[e].at \in {"encode", "put"} => encoder[e].c \in Chunks
  /\ sender.at = "send" => sender.c \in Chunks
  /\ caller = "put" => next \in Chunks

\* The encoders which have taken a chunk they are not done with.
Busy(f) == {e \in Encoders : f[e].at \in {"encode", "put"}}

Counted ==
  /\ encTasks = Len(encQ) + Cardinality(Busy(encoder))
  /\ senderTasks = Len(senderQ) + (IF sender.at = "send" THEN 1 ELSE 0)

In(q, c) == \E k \in 1..Len(q) : q[k] = c

Underway(c) ==
  \/ c \in disk
  \/ In(encQ, c)
  \/ \E e \in Encoders : encoder[e].at = "encode" /\ encoder[e].c = c
  \/ In(senderQ, c)
  \/ sender.at = "send" /\ sender.c = c

Accounted == ~exception => \A c \in 1..(next - 1) : Underway(c)

Ready ==
  /\ caller \in {"verify", "job"} => next = NChunks + 1
  /\ caller = "job" => disk = Chunks
  /\ caller \in {"close", "wait", "end"} /\ ~raised => next = NChunks + 1
  /\ caller = "end" /\ ~raised /\ ~exception => disk = Chunks
  /\ caller = "done" => disk = Chunks
  /\ checksum \in {{}, Chunks}

WInv == WType /\ Counted /\ Accounted /\ Ready

-----------------------------------------------------------------------------
(* Queues.                                                                 *)

\* Most steps below are first-order consequences of a few facts: Zenon is tried first, and
\* the steps which need records, functions or arithmetic name SMT.
USE Zenon

\* What is put in a queue is in it, with what was there, and it is one longer.
LEMMA PutFacts ==
  ASSUME NEW S, NEW q \in Seq(S), NEW x \in S
  PROVE  /\ Append(q, x) \in Seq(S)
         /\ Len(Append(q, x)) = Len(q) + 1
         /\ \A c : In(Append(q, x), c) <=> In(q, c) \/ c = x
<1> DEFINE p == Append(q, x)
<1>1. p \in Seq(S) /\ Len(p) = Len(q) + 1 /\ p[Len(q) + 1] = x
      /\ \A k \in 1..Len(q) : p[k] = q[k]
  BY SMT
<1>2. Len(q) \in Nat
  BY SMT
<1>3. ASSUME NEW c PROVE In(p, c) <=> In(q, c) \/ c = x
  <2>1. ASSUME In(p, c) PROVE In(q, c) \/ c = x
    <3>1. PICK k \in 1..Len(p) : p[k] = c
      BY <2>1 DEF In
    <3>2. k \in 1..Len(q) \/ k = Len(q) + 1
      BY SMT, <1>1, <1>2
    <3> QED
      BY <3>1, <3>2, <1>1 DEF In
  <2>2. ASSUME In(q, c) PROVE In(p, c)
    <3>1. PICK k \in 1..Len(q) : q[k] = c
      BY <2>2 DEF In
    <3>2. k \in 1..Len(p)
      BY SMT, <1>1, <1>2
    <3> QED
      BY <3>1, <3>2, <1>1 DEF In
  <2>3. In(p, x)
    BY SMT, <1>1, <1>2 DEF In
  <2> QED
    BY <2>1, <2>2, <2>3
<1> QED
  BY <1>1, <1>3

\* What is taken from a queue was its head, and the rest stays.
LEMMA TakeFacts ==
  ASSUME NEW S, NEW q \in Seq(S), q # <<>>
  PROVE  /\ Tail(q) \in Seq(S) /\ Head(q) \in S
         /\ Len(Tail(q)) = Len(q) - 1
         /\ \A c : In(q, c) => In(Tail(q), c) \/ c = Head(q)
<1>1. Len(q) \in Nat /\ Len(q) > 0
  BY SMT
<1>2. Tail(q) \in Seq(S) /\ Head(q) \in S /\ Len(Tail(q)) = Len(q) - 1
      /\ Head(q) = q[1] /\ \A k \in 1..(Len(q) - 1) : Tail(q)[k] = q[k + 1]
  BY SMT, <1>1
<1>3. ASSUME NEW c, In(q, c) PROVE In(Tail(q), c) \/ c = Head(q)
  <2>1. PICK k \in 1..Len(q) : q[k] = c
    BY <1>3 DEF In
  <2>2. CASE k = 1
    BY <2>1, <2>2, <1>2
  <2>3. CASE k # 1
    <3>1. k - 1 \in 1..(Len(q) - 1) /\ (k - 1) + 1 = k
      BY SMT, <2>3, <1>1
    <3>2. Tail(q)[k - 1] = c
      BY <3>1, <2>1, <1>2
    <3> QED
      BY <3>1, <3>2, <1>2 DEF In
  <2> QED
    BY <2>2, <2>3
<1> QED
  BY <1>2, <1>3
-----------------------------------------------------------------------------
(* The encoders.                                                           *)

LEMMA BusyFinite ==
  ASSUME NEW f
  PROVE  IsFiniteSet(Busy(f)) /\ Cardinality(Busy(f)) \in Nat
<1>1. Busy(f) \subseteq Encoders
  BY DEF Busy
<1> QED
  BY <1>1, WriterAssumption, FS_Subset, FS_CardinalityType

\* One encoder more is busy when one takes a chunk, and one less when one is done.
LEMMA BusyCount ==
  ASSUME NEW f \in [Encoders -> EncoderStates], NEW e \in Encoders,
         NEW r \in EncoderStates
  PROVE  Cardinality(Busy([f EXCEPT ![e] = r])) =
           Cardinality(Busy(f)) + (IF r.at \in {"encode", "put"} THEN 1 ELSE 0)
                                - (IF e \in Busy(f) THEN 1 ELSE 0)
<1> DEFINE g == [f EXCEPT ![e] = r]
<1>1. Busy(g) \ {e} = Busy(f) \ {e}
  BY DEF Busy
<1>2. e \in Busy(g) <=> r.at \in {"encode", "put"}
  BY DEF Busy
<1>3. ASSUME NEW B, IsFiniteSet(B)
      PROVE  Cardinality(B \ {e}) = Cardinality(B) - (IF e \in B THEN 1 ELSE 0)
  BY SMT, <1>3, FS_RemoveElement, FS_CardinalityType
<1>4. /\ IsFiniteSet(Busy(f)) /\ Cardinality(Busy(f)) \in Nat
      /\ IsFiniteSet(Busy(g)) /\ Cardinality(Busy(g)) \in Nat
  BY BusyFinite
<1>5. Cardinality(Busy(g)) - (IF e \in Busy(g) THEN 1 ELSE 0)
        = Cardinality(Busy(f)) - (IF e \in Busy(f) THEN 1 ELSE 0)
  BY <1>1, <1>3, <1>4
<1> HIDE DEF g
<1>6. Cardinality(Busy(g)) =
        Cardinality(Busy(f)) + (IF r.at \in {"encode", "put"} THEN 1 ELSE 0)
                             - (IF e \in Busy(f) THEN 1 ELSE 0)
  BY SMT, <1>2, <1>4, <1>5
<1> QED
  BY <1>6 DEF g

\* _wait_for_queues: when both counters are zero and no thread has failed, all that
\* was written is on the disk.
LEMMA EmptiedMeansWritten ==
  ASSUME WInv, ~exception, encTasks = 0, senderTasks = 0, next = NChunks + 1
  PROVE  disk = Chunks
<1>1. Len(encQ) \in Nat /\ Len(senderQ) \in Nat /\ Cardinality(Busy(encoder)) \in Nat
  BY SMT, BusyFinite DEF WInv, WType
<1>2. Len(encQ) = 0 /\ Cardinality(Busy(encoder)) = 0 /\ Len(senderQ) = 0
      /\ sender.at # "send"
  BY SMT, <1>1 DEF WInv, Counted
<1>3. Busy(encoder) = {}
  BY <1>2, BusyFinite, FS_EmptySet
<1>4. ASSUME NEW c \in Chunks PROVE c \in disk
  <2>1. c \in 1..(next - 1)
    BY SMT, WriterAssumption DEF Chunks
  <2>2. Underway(c)
    BY <2>1 DEF WInv, Accounted
  <2>3. ~In(encQ, c) /\ ~In(senderQ, c)
    BY SMT, <1>2 DEF In
  <2> QED
    BY <2>2, <2>3, <1>2, <1>3 DEF Underway, Busy
<1> QED
  BY <1>4 DEF WInv, WType
-----------------------------------------------------------------------------
(* The steps of the thread in the context.                                 *)

\* Most of them leave queues and threads alone.
LEMMA StillAccounted ==
  ASSUME WInv, UNCHANGED <<queues, threads, exception, next, disk>>
  PROVE  Counted' /\ Accounted'
<1>1. Counted'
  BY DEF WInv, Counted, Busy, queues, threads
<1>2. \A c : Underway(c)' <=> Underway(c)
  BY DEF Underway, In, queues, threads
<1>3. Accounted'
  BY <1>2 DEF WInv, Accounted
<1> QED
  BY <1>1, <1>3

LEMMA CallerMoves ==
  ASSUME WInv,
         \/ Open \/ OpenFails \/ Write \/ BodyFails \/ Written \/ Verify
         \/ ChecksumJob \/ ChecksumFails \/ HandleException \/ WaitFails \/ Close
         \/ Stop \/ End \/ EndFails
  PROVE  WInv'
<1>1. UNCHANGED <<queues, threads, exception, next, disk>>
  BY DEF Open, OpenFails, Write, BodyFails, Written, Verify, ChecksumJob,
         ChecksumFails, HandleException, WaitFails, Close, Stop, End, EndFails
<1>2. Counted' /\ Accounted'
  BY <1>1, StillAccounted
<1>3. WType'
  <2>1. caller' \in Places /\ raised' \in BOOLEAN /\ stopped' \in BOOLEAN
    BY DEF WInv, WType, Places, Goto, Open, OpenFails, Write, BodyFails, Written,
           Verify, ChecksumJob, ChecksumFails, HandleException, WaitFails, Close,
           Stop, End, EndFails
  <2>2. caller' = "put" => next \in Chunks
    BY DEF WInv, WType, Goto, Open, OpenFails, Write, BodyFails, Written,
           Verify, ChecksumJob, ChecksumFails, HandleException, WaitFails, Close,
           Stop, End, EndFails
  <2> QED
    BY <1>1, <2>1, <2>2 DEF WInv, WType, queues, threads
<1>4. Ready'
  <2>1. Verify \/ Stop => (~exception /\ next = NChunks + 1 => disk = Chunks)
    BY EmptiedMeansWritten DEF Verify, Stop, QueuesEmptied
  <2>2. Written => next = NChunks + 1
    BY SMT, WriterAssumption DEF WInv, WType, Written, Chunks
  <2>3. CASE Open \/ OpenFails \/ Write \/ BodyFails \/ HandleException
    BY <2>3, <1>1 DEF WInv, Ready, Open, OpenFails, Write, BodyFails,
                      HandleException, Goto
  <2>4. CASE Written
    BY <2>4, <2>2, <1>1 DEF WInv, Ready, Written, Goto
  <2>5. CASE Verify
    BY <2>5, <2>1, <1>1 DEF WInv, Ready, Verify, Goto
  <2>6. CASE ChecksumJob \/ ChecksumFails
    BY <2>6, <1>1 DEF WInv, Ready, ChecksumJob, ChecksumFails, Goto
  <2>7. CASE WaitFails \/ Close \/ EndFails
    BY <2>7, <1>1 DEF WInv, Ready, WaitFails, Close, EndFails, Goto
  <2>8. CASE Stop
    BY SMT, <2>8, <2>1, <1>1 DEF WInv, Ready, Stop, Goto
  <2>9. CASE End
    BY <2>9, <1>1 DEF WInv, Ready, End, Goto
  <2> QED
    BY <2>3, <2>4, <2>5, <2>6, <2>7, <2>8, <2>9
<1> QED
  BY <1>2, <1>3, <1>4 DEF WInv

\* A chunk which is put in the queue, or written to a file, is accounted for.
LEMMA CallerWrites ==
  ASSUME WInv, Put \/ WriteFile
  PROVE  WInv'
<1>1. next \in Chunks /\ next' = next + 1 /\ next' \in 1..(NChunks + 1)
  BY SMT, WriterAssumption DEF WInv, WType, Put, WriteFile, Chunks
<1>2. caller' = "write" /\ caller \notin {"verify", "job", "close", "wait", "end"}
  BY DEF Put, WriteFile, Goto
<1>3. UNCHANGED <<encoder, sender, exception, raised, stopped, senderQ, senderTasks,
                  checksum>>
  BY DEF Put, WriteFile, threads, queues
<1>4. CASE Put
  <2>1. /\ encQ' \in Seq(Chunks) /\ Len(encQ') = Len(encQ) + 1
        /\ \A c : In(encQ', c) <=> In(encQ, c) \/ c = next
    BY <1>1, <1>4, PutFacts DEF WInv, WType, Put
  <2>2. encTasks' = encTasks + 1 /\ disk' = disk
    BY <1>4 DEF Put
  <2>3. WType'
    BY SMT, <1>1, <1>2, <1>3, <2>1, <2>2 DEF WInv, WType, Places
  <2>4. Counted'
    <3>1. Cardinality(Busy(encoder)) \in Nat /\ Len(encQ) \in Nat
      BY SMT, BusyFinite DEF WInv, WType
    <3> QED
      BY SMT, <1>3, <2>1, <2>2, <3>1 DEF WInv, Counted, Busy
  <2>5. Accounted'
    <3>1. SUFFICES ASSUME ~exception, NEW c \in 1..next PROVE Underway(c)'
      BY SMT, <1>1, <1>3 DEF Accounted, WInv, WType
    <3>2. CASE c = next
      BY <3>2, <2>1 DEF Underway, In
    <3>3. CASE c # next
      <4>1. c \in 1..(next - 1)
        BY SMT, <3>3, <1>1 DEF Chunks
      <4>2. Underway(c)
        BY <4>1, <3>1 DEF WInv, Accounted
      <4>3. In(encQ, c) => In(encQ, c)'
        BY <2>1 DEF In
      <4> QED
        BY <4>2, <4>3, <1>3, <2>2 DEF Underway, In
    <3> QED
      BY <3>2, <3>3
  <2>6. Ready'
    BY <1>2, <1>3 DEF WInv, Ready
  <2> QED
    BY <2>3, <2>4, <2>5, <2>6 DEF WInv
<1>5. CASE WriteFile
  <2>1. disk' = disk \cup {next} /\ UNCHANGED <<encQ, encTasks>>
    BY <1>5 DEF WriteFile, queues
  <2>2. WType'
    BY <1>1, <1>2, <1>3, <2>1 DEF WInv, WType, Places
  <2>3. Counted'
    BY <1>3, <2>1 DEF WInv, Counted, Busy
  <2>4. Accounted'
    <3>1. SUFFICES ASSUME ~exception, NEW c \in 1..next PROVE Underway(c)'
      BY SMT, <1>1, <1>3 DEF Accounted, WInv, WType
    <3>2. CASE c = next
      BY <3>2, <2>1 DEF Underway
    <3>3. CASE c # next
      <4>1. c \in 1..(next - 1)
        BY SMT, <3>3, <1>1 DEF Chunks
      <4>2. Underway(c)
        BY <4>1, <3>1 DEF WInv, Accounted
      <4> QED
        BY <4>2, <1>3, <2>1 DEF Underway, In
    <3> QED
      BY <3>2, <3>3
  <2>5. Ready'
    BY <1>2, <1>3 DEF WInv, Ready
  <2> QED
    BY <2>2, <2>3, <2>4, <2>5 DEF WInv
<1> QED
  BY <1>4, <1>5

-----------------------------------------------------------------------------
(* The steps of the threads.                                               *)

LEMMA ThreadKeepsReady ==
  ASSUME WInv, UNCHANGED <<caller, next, raised, checksum>>,
         disk \subseteq disk', disk' \subseteq Chunks, exception => exception'
  PROVE  Ready'
BY DEF WInv, Ready

LEMMA EncoderGoesOn ==
  ASSUME WInv, NEW e \in Encoders, Encoder(e)
  PROVE  WInv'
<1>1. /\ UNCHANGED <<caller, next, raised, checksum, stopped, disk, sender>>
      /\ encoder[e] \in EncoderStates /\ Len(encQ) \in Nat /\ Len(senderQ) \in Nat
      /\ Cardinality(Busy(encoder)) \in Nat
  BY SMT, BusyFinite
  DEF WInv, WType, Encoder, EncoderGets, EncoderPuts, EncoderFails, queues
<1>2. exception' \in BOOLEAN /\ (exception => exception')
  BY DEF WInv, WType, Encoder, EncoderGets, EncoderPuts, EncoderFails
<1>3. Ready'
  BY <1>1, <1>2, ThreadKeepsReady DEF WInv, WType
<1>4. CASE EncoderGets(e)
  <2> DEFINE r == [at |-> "encode", c |-> Head(encQ)]
  <2>1. /\ encoder' = [encoder EXCEPT ![e] = r] /\ encQ' = Tail(encQ) /\ encQ # <<>>
        /\ encoder[e].at = "get"
        /\ UNCHANGED <<encTasks, senderQ, senderTasks, exception>>
    BY <1>4 DEF EncoderGets
  <2>2. /\ encQ' \in Seq(Chunks) /\ Head(encQ) \in Chunks /\ Len(encQ') = Len(encQ) - 1
        /\ \A c : In(encQ, c) => In(encQ', c) \/ c = Head(encQ)
    BY <2>1, TakeFacts DEF WInv, WType
  <2>3. r \in EncoderStates
    BY SMT, <2>2, WriterAssumption DEF EncoderStates, Chunks
  <2>4. WType'
    BY <1>1, <2>1, <2>2, <2>3 DEF WInv, WType
  <2>5. Counted'
    <3>1. Cardinality(Busy(encoder')) = Cardinality(Busy(encoder)) + 1
      <4>1. e \notin Busy(encoder)
        BY <2>1 DEF Busy
      <4>2. Cardinality(Busy([encoder EXCEPT ![e] = r])) =
              Cardinality(Busy(encoder))
                + (IF r.at \in {"encode", "put"} THEN 1 ELSE 0)
                - (IF e \in Busy(encoder) THEN 1 ELSE 0)
        BY <2>3, BusyCount DEF WInv, WType
      <4> QED
        BY SMT, <4>1, <4>2, <2>1, <2>3, <1>1
    <3> QED
      BY SMT, <3>1, <2>1, <2>2, <1>1 DEF WInv, Counted, Busy
  <2>6. Accounted'
    <3>1. SUFFICES ASSUME ~exception, NEW c \in 1..(next - 1) PROVE Underway(c)'
      BY <1>1, <2>1 DEF Accounted
    <3>2. Underway(c)
      BY <3>1 DEF WInv, Accounted
    <3>3. CASE In(encQ, c)
      <4>1. CASE c = Head(encQ)
        BY <4>1, <2>1, <2>3 DEF Underway, WInv, WType
      <4>2. CASE In(encQ', c)
        BY <4>2 DEF Underway, In
      <4> QED
        BY <4>1, <4>2, <3>3, <2>2
    <3>4. CASE \E x \in Encoders : encoder[x].at = "encode" /\ encoder[x].c = c
      <4>1. PICK x \in Encoders : encoder[x].at = "encode" /\ encoder[x].c = c
        BY <3>4
      <4>2. encoder'[x] = encoder[x]
        BY <4>1, <2>1 DEF WInv, WType
      <4> QED
        BY <4>1, <4>2 DEF Underway
    <3> QED
      BY <3>2, <3>3, <3>4, <1>1, <2>1 DEF Underway, In
  <2> QED
    BY <1>3, <2>4, <2>5, <2>6 DEF WInv
<1>5. CASE EncoderPuts(e) /\ encoder[e].at = "encode"
  <2> DEFINE r == [encoder[e] EXCEPT !.at = "put"]
  <2>1. /\ encoder' = [encoder EXCEPT ![e] = r] /\ senderQ' = Append(senderQ, encoder[e].c)
        /\ senderTasks' = senderTasks + 1
        /\ UNCHANGED <<encQ, encTasks, exception>>
    BY <1>5 DEF EncoderPuts
  <2>2. /\ encoder[e].c \in Chunks
        /\ senderQ' \in Seq(Chunks) /\ Len(senderQ') = Len(senderQ) + 1
        /\ \A c : In(senderQ', c) <=> In(senderQ, c) \/ c = encoder[e].c
    BY SMT, <1>5, <2>1, PutFacts DEF WInv, WType
  <2>3. r \in EncoderStates /\ r.at = "put" /\ r.c = encoder[e].c
    BY <1>1 DEF EncoderStates
  <2>4. WType'
    BY SMT, <1>1, <2>1, <2>2, <2>3 DEF WInv, WType
  <2>5. Counted'
    <3>1. Cardinality(Busy(encoder')) = Cardinality(Busy(encoder))
      <4>1. e \in Busy(encoder)
        BY <1>5 DEF Busy
      <4>2. Cardinality(Busy([encoder EXCEPT ![e] = r])) =
              Cardinality(Busy(encoder))
                + (IF r.at \in {"encode", "put"} THEN 1 ELSE 0)
                - (IF e \in Busy(encoder) THEN 1 ELSE 0)
        BY <2>3, BusyCount DEF WInv, WType
      <4> QED
        BY SMT, <4>1, <4>2, <2>1, <2>3, <1>1
    <3> QED
      BY SMT, <3>1, <2>1, <2>2, <1>1 DEF WInv, Counted, Busy
  <2>6. Accounted'
    <3>1. SUFFICES ASSUME ~exception, NEW c \in 1..(next - 1) PROVE Underway(c)'
      BY <1>1, <2>1 DEF Accounted
    <3>2. Underway(c)
      BY <3>1 DEF WInv, Accounted
    <3>3. CASE In(senderQ, c) \/ c = encoder[e].c
      BY <3>3, <2>2 DEF Underway, In
    <3>4. CASE \E x \in Encoders \ {e} : encoder[x].at = "encode" /\ encoder[x].c = c
      <4>1. PICK x \in Encoders \ {e} : encoder[x].at = "encode" /\ encoder[x].c = c
        BY <3>4
      <4>2. encoder'[x] = encoder[x]
        BY <4>1, <2>1 DEF WInv, WType
      <4> QED
        BY <4>1, <4>2 DEF Underway
    <3> QED
      BY <3>2, <3>3, <3>4, <1>1, <2>1 DEF Underway, In
  <2> QED
    BY <1>3, <2>4, <2>5, <2>6 DEF WInv
<1>6. CASE \/ EncoderPuts(e) /\ encoder[e].at # "encode"
           \/ EncoderFails(e)
  <2>1. PICK r \in EncoderStates :
          /\ r.at \in {"get", "dead"} /\ encoder' = [encoder EXCEPT ![e] = r]
          /\ encTasks' = encTasks - 1 /\ encoder[e].at \in {"encode", "put"}
          /\ UNCHANGED <<encQ, senderQ, senderTasks>>
    <3>1. [at |-> "dead", c |-> 0] \in EncoderStates
          /\ [at |-> "get", c |-> 0] \in EncoderStates
      BY SMT, WriterAssumption DEF EncoderStates
    <3> QED
      BY <3>1, <1>6 DEF EncoderPuts, EncoderFails, Again
  <2>2. encoder[e].at = "encode" => exception'
    BY <1>6 DEF EncoderPuts, EncoderFails
  <2>3. WType'
    BY SMT, <1>1, <1>2, <2>1 DEF WInv, WType
  <2>4. Counted'
    <3>1. Cardinality(Busy(encoder')) = Cardinality(Busy(encoder)) - 1
      <4>1. e \in Busy(encoder)
        BY <2>1 DEF Busy
      <4>2. Cardinality(Busy([encoder EXCEPT ![e] = r])) =
              Cardinality(Busy(encoder))
                + (IF r.at \in {"encode", "put"} THEN 1 ELSE 0)
                - (IF e \in Busy(encoder) THEN 1 ELSE 0)
        BY <2>1, BusyCount DEF WInv, WType
      <4> QED
        BY SMT, <4>1, <4>2, <2>1, <1>1
    <3> QED
      BY SMT, <3>1, <2>1, <1>1 DEF WInv, Counted, Busy
  <2>5. Accounted'
    <3>1. SUFFICES ASSUME ~exception', NEW c \in 1..(next - 1) PROVE Underway(c)'
      BY <1>1 DEF Accounted
    <3>2. Underway(c)
      BY <3>1, <1>2 DEF WInv, Accounted
    <3>3. ASSUME NEW x \in Encoders, encoder[x].at = "encode"
          PROVE  encoder'[x] = encoder[x]
      BY <3>1, <3>3, <2>1, <2>2 DEF WInv, WType
    <3> QED
      BY <3>2, <3>3, <1>1, <2>1 DEF Underway, In
  <2> QED
    BY <1>3, <2>3, <2>4, <2>5 DEF WInv
<1> QED
  BY <1>4, <1>5, <1>6 DEF Encoder

LEMMA SenderGoesOn ==
  ASSUME WInv, Sender
  PROVE  WInv'
<1>1. /\ UNCHANGED <<caller, next, raised, checksum, stopped, encoder, encQ, encTasks>>
      /\ Len(senderQ) \in Nat
  BY SMT DEF WInv, WType, Sender, SenderGets, SenderSends, SenderFails, queues
<1>2. exception' \in BOOLEAN /\ (exception => exception')
  BY DEF WInv, WType, Sender, SenderGets, SenderSends, SenderFails
<1>3. disk \subseteq disk' /\ disk' \subseteq Chunks
  BY DEF WInv, WType, Sender, SenderGets, SenderSends, SenderFails
<1>4. Ready'
  BY <1>1, <1>2, <1>3, ThreadKeepsReady
<1>5. CASE SenderGets
  <2>1. /\ sender' = [at |-> "send", c |-> Head(senderQ)] /\ senderQ' = Tail(senderQ)
        /\ senderQ # <<>> /\ sender.at = "get"
        /\ UNCHANGED <<senderTasks, exception, disk>>
    BY <1>5 DEF SenderGets
  <2>2. /\ senderQ' \in Seq(Chunks) /\ Head(senderQ) \in Chunks
        /\ Len(senderQ') = Len(senderQ) - 1
        /\ \A c : In(senderQ, c) => In(senderQ', c) \/ c = Head(senderQ)
    BY <2>1, TakeFacts DEF WInv, WType
  <2>3. sender' \in [at : {"get", "send", "dead"}, c : 0..NChunks]
    BY SMT, <2>1, <2>2, WriterAssumption DEF Chunks
  <2>4. WType'
    BY <1>1, <2>1, <2>2, <2>3 DEF WInv, WType
  <2>5. Counted'
    BY SMT, <1>1, <2>1, <2>2 DEF WInv, Counted, Busy
  <2>6. Accounted'
    <3>1. SUFFICES ASSUME ~exception, NEW c \in 1..(next - 1) PROVE Underway(c)'
      BY <1>1, <2>1 DEF Accounted
    <3>2. Underway(c)
      BY <3>1 DEF WInv, Accounted
    <3>3. CASE In(senderQ, c)
      BY <3>3, <2>1, <2>2 DEF Underway, In
    <3> QED
      BY <3>2, <3>3, <1>1, <2>1 DEF Underway, In
  <2> QED
    BY <1>4, <2>4, <2>5, <2>6 DEF WInv
<1>6. CASE SenderSends \/ SenderFails
  <2>1. /\ sender.at = "send" /\ sender'.at \in {"get", "dead"}
        /\ sender' \in [at : {"get", "send", "dead"}, c : 0..NChunks]
        /\ senderTasks' = senderTasks - 1 /\ senderQ' = senderQ
    BY SMT, <1>6, WriterAssumption DEF SenderSends, SenderFails, Again
  <2>2. exception' \/ sender.c \in disk'
    BY <1>6 DEF SenderSends, SenderFails
  <2>3. WType'
    BY SMT, <1>1, <1>2, <1>3, <2>1 DEF WInv, WType
  <2>4. Counted'
    BY SMT, <1>1, <2>1 DEF WInv, WType, Counted, Busy
  <2>5. Accounted'
    <3>1. SUFFICES ASSUME ~exception', NEW c \in 1..(next - 1) PROVE Underway(c)'
      BY <1>1 DEF Accounted
    <3>2. Underway(c)
      BY <3>1, <1>2 DEF WInv, Accounted
    <3> QED
      BY <3>1, <3>2, <1>1, <1>3, <2>1, <2>2 DEF Underway, In
  <2> QED
    BY <1>4, <2>3, <2>4, <2>5 DEF WInv
<1> QED
  BY <1>5, <1>6 DEF Sender

-----------------------------------------------------------------------------
(* The theorems.                                                           *)

LEMMA InitWInv == Init => WInv
<1> SUFFICES ASSUME Init PROVE WInv
  OBVIOUS
<1>1. /\ caller = "open" /\ next = 1 /\ encQ = <<>> /\ encTasks = 0 /\ senderQ = <<>>
      /\ senderTasks = 0 /\ encoder = [e \in Encoders |-> Idle] /\ sender = Idle
      /\ disk = {} /\ checksum = {}
  BY DEF Init
<1>2. exception \in BOOLEAN /\ raised \in BOOLEAN /\ stopped \in BOOLEAN
  BY DEF Init
<1>3. Idle \in EncoderStates /\ Idle \in [at : {"get", "send", "dead"}, c : 0..NChunks]
      /\ Idle.at = "get"
  BY SMT, WriterAssumption DEF Idle, EncoderStates
<1>4. encoder \in [Encoders -> EncoderStates] /\ \A e \in Encoders : encoder[e].at = "get"
  BY <1>1, <1>3
<1>5. WType
  BY SMT, <1>1, <1>2, <1>3, <1>4, WriterAssumption DEF WType, Places
<1>6. Busy(encoder) = {}
  BY <1>4 DEF Busy
<1>7. Counted
  <2>1. Cardinality(Busy(encoder)) = 0
    BY <1>6, FS_EmptySet
  <2>2. Len(encQ) = 0 /\ Len(senderQ) = 0
    BY <1>1
  <2> QED
    BY SMT, <1>1, <1>3, <2>1, <2>2 DEF Counted
<1>8. Accounted /\ Ready
  BY SMT, <1>1 DEF Accounted, Ready
<1> QED
  BY <1>5, <1>7, <1>8 DEF WInv

LEMMA NextWInv == WInv /\ [Next]_vars => WInv'
<1> SUFFICES ASSUME WInv, [Next]_vars PROVE WInv'
  OBVIOUS
<1>1. CASE Caller
  BY <1>1, CallerMoves, CallerWrites DEF Caller
<1>2. CASE Sender
  BY <1>2, SenderGoesOn
<1>3. CASE \E e \in Encoders : Encoder(e)
  BY <1>3, EncoderGoesOn
<1>4. CASE UNCHANGED vars
  <2>1. Counted' /\ Accounted'
    BY <1>4, StillAccounted DEF vars
  <2>2. WType' /\ Ready'
    BY <1>4 DEF WInv, WType, Ready, vars, queues, threads
  <2> QED
    BY <2>1, <2>2 DEF WInv
<1> QED
  BY <1>1, <1>2, <1>3, <1>4 DEF Next

\* The inductive invariant.
THEOREM WriterInvariant == Spec => []WInv
BY InitWInv, NextWInv, PTL DEF Spec

\* get_disk_checksum: whatever the interleaving of the threads, the checksum which is
\* compared with the source's is one of all the chunks.
THEOREM ChecksumComplete == Spec => []ChecksumOfEverything
<1>1. WInv => ChecksumOfEverything
  BY DEF WInv, Ready, ChecksumOfEverything
<1> QED
  BY <1>1, WriterInvariant, PTL

\* The context of a writer ends normally only when every chunk is on the disk
\* (write, _encoder, _sender, _wait_for_queues, close), and nothing changes the disk
\* after that.
THEOREM ImplementsDiskWrite == Spec => WritesTheDisk
<1> DEFINE ended == IF Over THEN caller ELSE "open"
<1>1. Init => D!Init
  BY DEF Init, D!Init, Over
<1>2. WInv /\ WInv' /\ [Next]_vars => [D!Next]_<<disk, ended>>
  <2> SUFFICES ASSUME WInv, WInv', [Next]_vars, <<disk, ended>>' # <<disk, ended>>
               PROVE  D!Next
    OBVIOUS
  <2>1. disk \subseteq Chunks /\ disk' \subseteq Chunks
    BY DEF WInv, WType
  <2>2. CASE Sender
    <3>1. caller' = caller /\ ended' = ended
      BY <2>2 DEF Sender, SenderGets, SenderSends, SenderFails, Over
    <3>2. sender.c \in Chunks /\ disk' = disk \cup {sender.c}
      BY <2>2, <3>1 DEF Sender, SenderGets, SenderSends, SenderFails, WInv, WType
    <3>3. ended # "done"
      BY <2>1, <3>1, <3>2 DEF Over, WInv, Ready
    <3> QED
      BY <3>1, <3>2, <3>3 DEF D!Next, D!Store
  <2>3. CASE WriteFile
    <3>1. ended' = ended /\ ended # "done"
      BY <2>3 DEF WriteFile, Over
    <3>2. next \in Chunks /\ disk' = disk \cup {next}
      BY <2>3 DEF WriteFile
    <3> QED
      BY <3>1, <3>2 DEF D!Next, D!Store
  <2>4. CASE Caller /\ ~WriteFile
    <3>1. disk' = disk
      BY <2>4 DEF Caller, Open, OpenFails, Write, Put, BodyFails, Written, Verify,
                  ChecksumJob, ChecksumFails, HandleException, WaitFails, Close,
                  Stop, End, EndFails
    <3>2. ~Over /\ Over'
      BY <2>4, <3>1 DEF Caller, Open, OpenFails, Write, Put, BodyFails, Written,
                  Verify, ChecksumJob, ChecksumFails, HandleException, WaitFails,
                  Close, Stop, End, EndFails, Goto, Over
    <3>3. ended = "open" /\ ended' = caller'
      BY <3>2 DEF Over
    <3>4. caller' = "done" => disk = Chunks
      BY <3>1 DEF WInv, Ready
    <3> QED
      BY <3>1, <3>2, <3>3, <3>4 DEF D!Next, D!Finish, D!Fail, Over
  <2>5. CASE \E e \in Encoders : Encoder(e)
    BY <2>5 DEF Encoder, EncoderGets, EncoderPuts, EncoderFails, Over
  <2>6. CASE UNCHANGED vars
    BY <2>6 DEF vars, Over
  <2> QED
    BY <2>2, <2>3, <2>4, <2>5, <2>6 DEF Next, Caller
<1> QED
  BY <1>1, <1>2, WriterInvariant, PTL DEF Spec, WritesTheDisk, D!Spec

\* An HTTP writer releases the device it has acquired whatever fails inside the
\* context, but for the release itself and the wait for the queues (close).
THEOREM DeviceIsReleased == Spec => []DeviceReleased
<1>1. Init => DeviceReleased
  <2>1. Init => caller = "open"
    BY DEF Init
  <2> QED
    BY <2>1 DEF DeviceReleased, Over
<1>2. DeviceReleased /\ [Next]_vars => DeviceReleased'
  <2> SUFFICES ASSUME DeviceReleased, [Next]_vars
               PROVE  DeviceReleased'
    OBVIOUS
  <2>1. CASE Caller
    <3>1. kind' = kind /\ failing' = failing
      BY <2>1 DEF Caller, Open, OpenFails, Write, Put, WriteFile, BodyFails, Written,
         Verify, ChecksumJob, ChecksumFails, HandleException, WaitFails, Close, Stop,
         End, EndFails, setting
    <3>2. CASE End
      BY <3>1, <3>2 DEF End, DeviceReleased
    <3>3. CASE OpenFails \/ WaitFails \/ EndFails
      BY <3>1, <3>3 DEF OpenFails, WaitFails, EndFails, DeviceReleased, Over, Goto, Fails
    <3>4. CASE ~(End \/ OpenFails \/ WaitFails \/ EndFails)
      <4>1. caller' \notin {"done", "failed"}
        BY <2>1, <3>4 DEF Caller, Open, Write, Put, WriteFile, BodyFails, Written,
           Verify, ChecksumJob, ChecksumFails, HandleException, Close, Stop, Goto
      <4> QED
        BY <4>1 DEF DeviceReleased, Over
    <3> QED
      BY <3>2, <3>3, <3>4
  <2>2. CASE Sender \/ (\E e \in Encoders : Encoder(e)) \/ UNCHANGED vars
    <3>1. UNCHANGED <<kind, failing, caller, held>>
      BY <2>2 DEF Sender, SenderGets, SenderSends, SenderFails, Encoder, EncoderGets,
         EncoderPuts, EncoderFails, setting, vars
    <3> QED
      BY <3>1 DEF DeviceReleased, Over
  <2> QED
    BY <2>1, <2>2 DEF Next
<1> QED
  BY <1>1, <1>2, PTL DEF Spec

-----------------------------------------------------------------------------
(***************************************************************************)
(* The calls of replicate_disks                                            *)
(*                                                                         *)
(* What the saved state says of a disk is on it until the loop comes to    *)
(* the disk; the disks which it has done with are those of the source, and *)
(* of the one it is at, all but the chunks which are still to be sent.     *)
(***************************************************************************)

Contents == [1..ReplicaDisks -> [Replicator!Units -> Int]]

ReplicaTyped ==
  /\ src \in Contents /\ dst \in Contents
  /\ size \in [1..ReplicaDisks -> Int]
  /\ volume \in 0..ReplicaDisks
  /\ chunks \subseteq 1..ReplicaChunks

\* The units of a disk which the destination has room for.
Room(d) == {u \in Replicator!Units : u <= size[d]}

\* The disk is that of the source.
Current(d) == \A u \in Room(d) : dst[d][u] = src[d][u]

\* The unit is what a call takes it for which has not sent it: what the last one has
\* saved, or zero on a disk which was zeroed.
AsBelieved(d, u) ==
  /\ repl_state # Replicator!NoState => dst[d][u] = repl_state[d][u]
  /\ repl_state = Replicator!NoState /\ zeroed => dst[d][u] = 0

Believed(d) == \A u \in Room(d) : AsBelieved(d, u)

\* Whatever is not the source's is still to be sent.
Sending(d) ==
  \A u \in Room(d) : \/ dst[d][u] = src[d][u]
                     \/ /\ \E c \in chunks : u \in Replicator!UnitsOf(c)
                        /\ AsBelieved(d, u)

ReplicaInv ==
  /\ ReplicaTyped
  /\ zeroed => keeps
  /\ Replicator!InBounds
  /\ volume # 0 => curr_state = src
  /\ ~early /\ ~raised =>
       /\ outcome = "returned" => \A d \in 1..ReplicaDisks : Current(d)
       /\ volume = 0 => \A d \in 1..ReplicaDisks : Believed(d)
       /\ volume # 0 => \A d \in 1..ReplicaDisks : /\ d < volume => Current(d)
                                                   /\ d = volume => Sending(d)
                                                   /\ d > volume => Believed(d)

-----------------------------------------------------------------------------
\* Every unit is one of a chunk.
LEMMA EveryUnitInChunk ==
  ASSUME NEW u \in Replicator!Units
  PROVE  \E c \in 1..ReplicaChunks : u \in Replicator!UnitsOf(c)
<1> DEFINE c == (u + 1) \div 2
<1>1. ReplicaChunks \in Nat /\ u \in Int /\ 1 <= u /\ u <= 2 * ReplicaChunks
  BY SMT, DataPathAssumption DEF Replicator!Units
<1>2. c \in 1..ReplicaChunks /\ (u = 2 * c - 1 \/ u = 2 * c)
  BY SMT, <1>1
<1> QED
  BY <1>2 DEF Replicator!UnitsOf

\* The chunks which are sent of a disk are all in which it differs from the source's.
LEMMA ChunksSuffice ==
  ASSUME ReplicaTyped, NEW d \in 1..ReplicaDisks, Believed(d), NEW u \in Room(d)
  PROVE  \/ dst[d][u] = src[d][u]
         \/ \E c \in Replicator!ChunksOf(d) : u \in Replicator!UnitsOf(c)
<1>1. u \in Replicator!Units /\ u <= size[d] /\ AsBelieved(d, u)
  BY DEF Room, Believed
<1>2. PICK c \in 1..ReplicaChunks : u \in Replicator!UnitsOf(c)
  BY <1>1, EveryUnitInChunk
<1>3. 2 * (c - 1) < size[d]
  <2>1. u \in Int /\ size[d] \in Int /\ c \in Int
    BY SMT, <1>1, DataPathAssumption DEF ReplicaTyped, Replicator!Units
  <2>2. u = 2 * c - 1 \/ u = 2 * c
    BY <1>2 DEF Replicator!UnitsOf
  <2> QED
    BY SMT, <1>1, <2>1, <2>2
<1>4. SUFFICES ASSUME c \notin Replicator!ChunksOf(d) PROVE dst[d][u] = src[d][u]
  BY <1>2
<1>5. CASE repl_state = Replicator!NoState /\ zeroed
  <2>1. c \notin Replicator!NonZero(d)
    BY <1>3, <1>4, <1>5 DEF Replicator!ChunksOf
  <2>2. src[d][u] = 0
    BY <1>2, <2>1 DEF Replicator!NonZero
  <2> QED
    BY <1>1, <1>5, <2>2 DEF AsBelieved
<1>6. CASE ~(repl_state = Replicator!NoState /\ zeroed)
  <2>1. c \notin Replicator!Changes(d)
    BY <1>3, <1>4, <1>6 DEF Replicator!ChunksOf
  <2>2. repl_state # Replicator!NoState /\ src[d][u] = repl_state[d][u]
    BY <1>2, <2>1 DEF Replicator!Changes
  <2> QED
    BY <1>1, <2>2 DEF AsBelieved
<1> QED
  BY <1>5, <1>6

\* What the loop knows when it comes to disk d.
Before(d) ==
  /\ ReplicaTyped
  /\ zeroed => keeps
  /\ Replicator!InBounds
  /\ ~early /\ ~raised =>
       /\ outcome = "returned" => \A e \in 1..ReplicaDisks : Current(e)
       /\ \A e \in 1..ReplicaDisks : /\ e < d => Current(e)
                                     /\ e >= d => Believed(e)

\* The loop comes to a disk, or is over.
LEMMA ToDiskStep ==
  ASSUME NEW d \in Nat, 1 <= d, d <= ReplicaDisks + 1, Before(d), Replicator!ToDisk(d),
         UNCHANGED <<src, dst, size, zeroed, keeps, raised>>, curr_state' = src
  PROVE  ReplicaInv'
<1>1. /\ ReplicaDisks \in Nat /\ ReplicaTyped /\ ReplicaTyped' /\ (zeroed' => keeps')
      /\ (Replicator!InBounds)'
  <2>1. volume' \in 0..ReplicaDisks /\ chunks' \subseteq 1..ReplicaChunks
    <3>1. Replicator!ChunksOf(d) \subseteq 1..ReplicaChunks
      BY DEF Replicator!ChunksOf, Replicator!NonZero, Replicator!Changes
    <3>2. \/ d <= ReplicaDisks /\ volume' = d /\ chunks' = Replicator!ChunksOf(d)
          \/ volume' = 0 /\ chunks' = {}
      BY DEF Replicator!ToDisk
    <3> QED
      BY SMT, <3>1, <3>2, DataPathAssumption
  <2> QED
    BY <2>1, DataPathAssumption DEF Before, ReplicaTyped, Replicator!InBounds
<1>2. \A e : /\ Room(e)' = Room(e)
             /\ Current(e)' <=> Current(e)
  BY DEF Room, Current
<1>3. CASE d <= ReplicaDisks /\ Replicator!ChunksOf(d) # {}
  <2>1. /\ volume' = d /\ volume' # 0 /\ chunks' = Replicator!ChunksOf(d)
        /\ repl_state' = repl_state /\ early' = early /\ outcome' = outcome
    BY SMT, <1>3 DEF Replicator!ToDisk
  <2>2. \A e, u : AsBelieved(e, u)' <=> AsBelieved(e, u)
    BY <2>1 DEF AsBelieved
  <2>3. \A e : Believed(e)' <=> Believed(e)
    BY <1>2, <2>2 DEF Believed
  <2>4. ASSUME ~early, ~raised
        PROVE  /\ outcome' = "returned" => \A e \in 1..ReplicaDisks : Current(e)'
               /\ \A e \in 1..ReplicaDisks : /\ e < volume' => Current(e)'
                                             /\ e = volume' => Sending(e)'
                                             /\ e > volume' => Believed(e)'
    <3>1. /\ outcome = "returned" => \A e \in 1..ReplicaDisks : Current(e)
          /\ \A e \in 1..ReplicaDisks : (e < d => Current(e)) /\ (e >= d => Believed(e))
      BY <2>4 DEF Before
    <3>2. d \in 1..ReplicaDisks /\ d >= d /\ \A e \in 1..ReplicaDisks : e > d => e >= d
      BY SMT, <1>1, <1>3
    <3>3. Believed(d)
      BY <3>1, <3>2
    <3>4. Sending(d)'
      <4>1. ASSUME NEW u \in Room(d)
            PROVE  \/ dst[d][u] = src[d][u]
                   \/ /\ \E c \in chunks' : u \in Replicator!UnitsOf(c)
                      /\ AsBelieved(d, u)
        BY <1>1, <2>1, <3>2, <3>3, ChunksSuffice DEF Believed
      <4> QED
        BY <1>2, <2>2, <4>1 DEF Sending, Replicator!UnitsOf
    <3> QED
      BY <1>2, <2>1, <2>3, <3>1, <3>2, <3>4
  <2> QED
    BY <1>1, <2>1, <2>4 DEF ReplicaInv
<1>4. CASE ~(d <= ReplicaDisks /\ Replicator!ChunksOf(d) # {})
  <2>1. /\ volume' = 0 /\ repl_state' = IF keeps THEN src ELSE Replicator!NoState
        /\ early' = (early \/ d < ReplicaDisks) /\ outcome' = "returned"
    BY <1>4 DEF Replicator!ToDisk
  <2>2. ASSUME ~early', ~raised'
        PROVE  \A e \in 1..ReplicaDisks : Current(e)' /\ Believed(e)'
    <3>1. ~early /\ ~raised /\ ~(d < ReplicaDisks)
      BY <2>1, <2>2
    <3>2. TAKE e \in 1..ReplicaDisks
    <3>3. (e < d => Current(e)) /\ (e >= d => Believed(e))
      BY <3>1 DEF Before
    <3>4. Current(e)
      <4>1. CASE e < d
        BY <3>3, <4>1
      <4>2. CASE ~(e < d)
        <5>1. e = d /\ e >= d /\ d <= ReplicaDisks
          BY SMT, <1>1, <3>1, <4>2
        <5>2. Replicator!ChunksOf(e) = {} /\ Believed(e)
          BY <1>4, <3>3, <5>1
        <5> QED
          BY <1>1, <5>2, ChunksSuffice DEF Current
      <4> QED
        BY <4>1, <4>2
    <3>5. ASSUME NEW u \in Room(e)'
          PROVE  AsBelieved(e, u)'
      <4>1. dst'[e][u] = src[e][u]
        BY <1>2, <3>4, <3>5 DEF Current
      <4>2. keeps => dst'[e][u] = repl_state'[e][u]
        BY <2>1, <4>1
      <4>3. CASE keeps
        <5>1. repl_state' = src
          BY <2>1, <4>3
        <5>2. src # Replicator!NoState
          <6>1. DOMAIN src = 1..ReplicaDisks /\ DOMAIN Replicator!NoState = {}
            BY SMT, <1>1 DEF ReplicaTyped, Contents, Replicator!NoState
          <6> QED
            BY <3>2, <6>1
        <5> QED
          BY <4>1, <4>3, <5>1, <5>2 DEF AsBelieved
      <4>4. CASE ~keeps
        BY <2>1, <4>4 DEF AsBelieved, Before
      <4> QED
        BY <4>3, <4>4
    <3> QED
      BY <1>2, <3>4, <3>5 DEF Believed
  <2> QED
    BY <1>1, <2>1, <2>2 DEF ReplicaInv
<1> QED
  BY <1>3, <1>4

LEMMA InitReplica ==
  ASSUME Replicator!Init
  PROVE  ReplicaInv
<1> USE DataPathAssumption
<1>1. ReplicaTyped
  <2>1. \A u \in Replicator!Units : u \in Int
    BY SMT DEF Replicator!Units
  <2>2. src \in Contents
    BY SMT DEF Replicator!Init, Contents
  <2>3. dst \in Contents
    BY SMT DEF Replicator!Init, Contents, Replicator!Unknown
  <2>4. size \in [1..ReplicaDisks -> Int]
    BY SMT DEF Replicator!Init
  <2>5. volume \in 0..ReplicaDisks /\ chunks \subseteq 1..ReplicaChunks
    BY SMT DEF Replicator!Init
  <2> QED
    BY <2>2, <2>3, <2>4, <2>5 DEF ReplicaTyped
<1>2. Replicator!InBounds
  BY SMT DEF Replicator!Init, Replicator!InBounds
<1>3. \A d \in 1..ReplicaDisks : Believed(d)
  <2> SUFFICES ASSUME NEW d \in 1..ReplicaDisks, NEW u \in Replicator!Units, zeroed
               PROVE  dst[d][u] = 0
    BY DEF Replicator!Init, Believed, AsBelieved, Room
  <2> QED
    BY SMT DEF Replicator!Init
<1> QED
  BY SMT, <1>1, <1>2, <1>3 DEF ReplicaInv, Replicator!Init

\* A step which changes nothing that the disks depend on but the outcome.
LEMMA GuestWritesStep ==
  ASSUME ReplicaInv, Replicator!GuestWrites
  PROVE  ReplicaInv'
<1>1. /\ volume = 0 /\ outcome' = "none"
      /\ UNCHANGED <<dst, size, zeroed, keeps, repl_state, volume, chunks, early, raised>>
  BY DEF Replicator!GuestWrites
<1>2. src' \in Contents
  <2>1. PICK S \in SUBSET (1..ReplicaDisks) \ {{}}, u \in Replicator!Units,
             v \in {0, calls + 1} :
          src' = [d \in 1..ReplicaDisks |->
                    IF d \in S THEN [src[d] EXCEPT ![u] = v] ELSE src[d]]
    BY DEF Replicator!GuestWrites
  <2> QED
    BY SMT, <2>1 DEF ReplicaInv, ReplicaTyped, Contents
<1>3. ReplicaTyped' /\ (Replicator!InBounds)'
  BY <1>1, <1>2 DEF ReplicaInv, ReplicaTyped, Replicator!InBounds
<1>4. \A d : Believed(d)' <=> Believed(d)
  BY <1>1 DEF Believed, AsBelieved, Room
<1> QED
  BY <1>1, <1>3, <1>4 DEF ReplicaInv

LEMMA CallStep ==
  ASSUME ReplicaInv, Replicator!Call
  PROVE  ReplicaInv'
<1>1. /\ volume = 0 /\ Replicator!ToDisk(1) /\ curr_state' = src
      /\ UNCHANGED <<src, dst, size, zeroed, keeps, raised>>
  BY DEF Replicator!Call
<1>2. /\ 1 \in Nat /\ 1 <= 1 /\ 1 <= ReplicaDisks + 1
      /\ \A e \in 1..ReplicaDisks : ~(e < 1)
  BY SMT, DataPathAssumption
<1>3. Before(1)
  BY <1>1, <1>2 DEF Before, ReplicaInv
<1> QED
  BY <1>1, <1>2, <1>3, ToDiskStep

LEMMA CloseDiskStep ==
  ASSUME ReplicaInv, Replicator!CloseDisk
  PROVE  ReplicaInv'
<1>1. /\ volume # 0 /\ chunks = {} /\ Replicator!ToDisk(volume + 1)
      /\ UNCHANGED <<curr_state, src, dst, size, zeroed, keeps, raised>>
  BY DEF Replicator!CloseDisk
<1>2. /\ volume \in 1..ReplicaDisks
      /\ volume + 1 \in Nat /\ 1 <= volume + 1 /\ volume + 1 <= ReplicaDisks + 1
      /\ \A e \in 1..ReplicaDisks : /\ e < volume + 1 <=> e < volume \/ e = volume
                                    /\ e >= volume + 1 <=> e > volume
  BY SMT, <1>1, DataPathAssumption DEF ReplicaInv, ReplicaTyped
<1>3. curr_state' = src
  BY <1>1 DEF ReplicaInv
<1>4. Sending(volume) => Current(volume)
  BY <1>1 DEF Sending, Current
<1>5. Before(volume + 1)
  BY <1>1, <1>2, <1>4 DEF Before, ReplicaInv
<1> QED
  BY <1>1, <1>2, <1>3, <1>5, ToDiskStep

LEMMA WriteChunkStep ==
  ASSUME ReplicaInv, Replicator!WriteChunk
  PROVE  ReplicaInv'
<1>1. /\ volume # 0
      /\ UNCHANGED <<src, size, zeroed, keeps, repl_state, curr_state, volume, early,
                     outcome, raised>>
  BY DEF Replicator!WriteChunk
<1>2. PICK c \in chunks : dst' = Replicator!Written(volume, c) /\ chunks' = chunks \ {c}
  BY DEF Replicator!WriteChunk
<1>3. dst \in Contents /\ src \in Contents /\ volume \in 1..ReplicaDisks
  BY SMT, <1>1, DataPathAssumption DEF ReplicaInv, ReplicaTyped
<1>4. /\ \A d \in 1..ReplicaDisks, u \in Replicator!Units :
           d # volume \/ u \notin Replicator!UnitsOf(c) \/ ~(u <= size[d]) =>
             dst'[d][u] = dst[d][u]
      /\ \A u \in Replicator!Units :
           u \in Replicator!UnitsOf(c) /\ u <= size[volume] => dst'[volume][u] = src[volume][u]
      /\ dst' \in Contents
  BY SMT, <1>2, <1>3 DEF Replicator!Written, Contents
<1>5. ReplicaTyped'
  BY <1>1, <1>2, <1>4 DEF ReplicaInv, ReplicaTyped
<1>6. (Replicator!InBounds)'
  <2>1. ASSUME NEW d \in 1..ReplicaDisks, NEW u \in Replicator!Units, u > size[d]
        PROVE  dst'[d][u] = dst[d][u]
    <3>1. ~(u <= size[d])
      BY SMT, <2>1, DataPathAssumption DEF ReplicaInv, ReplicaTyped, Replicator!Units
    <3> QED
      BY <1>4, <3>1
  <2> QED
    BY <1>1, <2>1 DEF ReplicaInv, Replicator!InBounds, Replicator!Unknown
<1>7. \A d : Room(d)' = Room(d)
  BY <1>1 DEF Room
<1>8. ASSUME NEW d \in 1..ReplicaDisks
      PROVE  /\ Current(d) => Current(d)'
             /\ d # volume => (Believed(d) => Believed(d)')
             /\ d = volume => (Sending(d) => Sending(d)')
  <2>1. \A u \in Room(d) : /\ u \in Replicator!Units /\ u <= size[d]
                           /\ dst'[d][u] = dst[d][u] \/ dst'[d][u] = src[d][u]
    BY <1>4 DEF Room
  <2>2. Current(d) => Current(d)'
    BY <1>1, <1>7, <2>1 DEF Current
  <2>3. ASSUME d # volume, Believed(d) PROVE Believed(d)'
    BY <1>1, <1>4, <1>7, <2>1, <2>3 DEF Believed, AsBelieved
  <2>4. ASSUME d = volume, Sending(d), NEW u \in Room(d)
        PROVE  \/ dst'[d][u] = src[d][u]
               \/ /\ \E e \in chunks' : u \in Replicator!UnitsOf(e)
                  /\ AsBelieved(d, u)'
    <3>1. CASE u \in Replicator!UnitsOf(c)
      BY <1>4, <2>1, <2>4, <3>1
    <3>2. CASE u \notin Replicator!UnitsOf(c)
      <4>1. dst'[d][u] = dst[d][u]
        BY <1>4, <2>1, <3>2
      <4>2. AsBelieved(d, u) => AsBelieved(d, u)'
        BY <1>1, <4>1 DEF AsBelieved
      <4> QED
        BY <1>2, <2>4, <3>2, <4>1, <4>2 DEF Sending
    <3> QED
      BY <3>1, <3>2
  <2>5. d = volume => (Sending(d) => Sending(d)')
    BY <1>1, <1>7, <2>4 DEF Sending, Replicator!UnitsOf
  <2> QED
    BY <2>2, <2>3, <2>5
<1>9. \A d \in 1..ReplicaDisks : (d < volume => d # volume) /\ (d > volume => d # volume)
  BY SMT, <1>3
<1> QED
  BY <1>1, <1>5, <1>6, <1>8, <1>9 DEF ReplicaInv

\* Once a call has raised, the invariant is about the types and bounds alone.
LEMMA RaisedStep ==
  ASSUME ReplicaInv, Replicator!Raised
  PROVE  ReplicaInv'
<1>1. ReplicaTyped'
  <2>1. 0 \in 0..ReplicaDisks
    BY SMT, DataPathAssumption
  <2> QED
    BY <2>1 DEF Replicator!Raised, ReplicaInv, ReplicaTyped
<1> QED
  BY <1>1 DEF Replicator!Raised, ReplicaInv, Replicator!InBounds

LEMMA NextReplica ==
  ASSUME ReplicaInv, [Replicator!ReplicationNext]_(Replicator!vars)
  PROVE  ReplicaInv'
<1>1. CASE Replicator!ReplicationNext /\ ~UNCHANGED Replicator!vars
  BY <1>1, GuestWritesStep, CallStep, WriteChunkStep, CloseDiskStep, RaisedStep
     DEF Replicator!ReplicationNext, Replicator!ChecksumMismatch, Replicator!CallFails
<1>2. CASE UNCHANGED Replicator!vars
  <2>1. \A d : /\ Room(d)' = Room(d) /\ (Current(d)' <=> Current(d))
               /\ (Believed(d)' <=> Believed(d)) /\ (Sending(d)' <=> Sending(d))
    BY <1>2 DEF Replicator!vars, Room, Current, Believed, AsBelieved, Sending,
       Replicator!UnitsOf
  <2> QED
    BY <1>2, <2>1 DEF Replicator!vars, ReplicaInv, ReplicaTyped, Replicator!InBounds
<1> QED
  BY <1>1, <1>2

\* What the invariant says of a call which has returned and of the state it has saved.
LEMMA ReplicaPromises ==
  ASSUME ReplicaInv
  PROVE  /\ Replicator!ReturnedMeansReplicated
         /\ Replicator!InBounds
         /\ Replicator!StateIsOnDisk
<1>1. Replicator!ReturnedMeansReplicated
  BY DEF ReplicaInv, Replicator!ReturnedMeansReplicated, Replicator!Replicated, Current, Room
<1>2. Replicator!StateIsOnDisk
  <2> SUFFICES ASSUME repl_state # Replicator!NoState, ~early, ~raised,
                      NEW d \in 1..ReplicaDisks, NEW u \in Room(d)
               PROVE  \/ dst[d][u] = repl_state[d][u]
                      \/ volume # 0 /\ dst[d][u] = curr_state[d][u]
    BY DEF Replicator!StateIsOnDisk, Room
  <2>1. CASE volume = 0
    BY <2>1 DEF ReplicaInv, Believed, AsBelieved
  <2>2. CASE volume # 0
    <3>1. d < volume \/ d = volume \/ d > volume
      BY SMT DEF ReplicaInv, ReplicaTyped
    <3> QED
      BY <2>2, <3>1 DEF ReplicaInv, Current, Sending, Believed, AsBelieved
  <2> QED
    BY <2>1, <2>2
<1> QED
  BY <1>1, <1>2 DEF ReplicaInv

-----------------------------------------------------------------------------
(***************************************************************************)
(* The setup of a worker                                                   *)
(*                                                                         *)
(* Whatever is tried again, a step which comes later finds what it needs:  *)
(* the state file of this execution is there before anything is started    *)
(* that reads it, and the writer's certificates are there only if its      *)
(* binary, which makes them, can be executed.                              *)
(***************************************************************************)

\* What matters of a worker: the state file which is there, and which the service has read.
OnWorker(w) ==
  /\ DOMAIN w = {"state", "binary", "group", "user", "inGroup", "inDisk", "certs", "unit",
                 "running"}
  /\ w.state \in 0..2 /\ w.running \in 0..2

WriterPlaces ==
  {"copy_writer", "chmod_writer", "certs", "unit", "start_unit", "done", "failed"}

SetupTyped ==
  /\ OnWorker(worker)
  /\ attempts \in 0..(SetupAttempts - 1) /\ certAttempts \in 0..(SetupAttempts - 1)
  /\ failures \in 0..SetupFailures

\* A fresh worker runs no service which was not given the state of this execution.
StateInv ==
  /\ ~reused => worker.running \in {0, 2}
  /\ program = "replicator" /\ at \notin {"copy_state", "reconnect_given", "failed"} =>
       worker.state = 2

\* The binary of the writer makes its certificates.
BinaryInv ==
  program = "writer" =>
    /\ at \in WriterPlaces
    /\ worker.certs \notin {"none", "some"} => worker.binary = "executable"
    /\ at \in {"unit", "start_unit"} => worker.binary = "executable"

\* The writer's service was started after its unit was written, or that has failed.
UnitInv ==
  program = "writer" /\ worker.unit /\ at # "start_unit" =>
    worker.running # 0 \/ failures > 0

SetupInv ==
  /\ SetupTyped
  /\ program \in {"replicator", "writer"}
  /\ StateInv
  /\ BinaryInv
  /\ UnitInv
  /\ at = "done" => \/ worker.running # 0
                    \/ program = "writer" /\ init_system = "upstart" /\ failures > 0

-----------------------------------------------------------------------------
\* What a command which sets one field of the worker leaves as it is.
LEMMA OneField ==
  ASSUME NEW w, OnWorker(w), NEW x, NEW v
  PROVE  /\ v = [w EXCEPT !.state = x] =>
              /\ x \in 0..2 => OnWorker(v)
              /\ v.running = w.running /\ v.state = x
              /\ v.binary = w.binary /\ v.certs = w.certs /\ v.unit = w.unit
         /\ v = [w EXCEPT !.binary = x] =>
              /\ OnWorker(v) /\ v.running = w.running /\ v.state = w.state
              /\ v.binary = x /\ v.certs = w.certs /\ v.unit = w.unit
         /\ v = [w EXCEPT !.certs = x] =>
              /\ OnWorker(v) /\ v.running = w.running /\ v.state = w.state
              /\ v.binary = w.binary /\ v.certs = x /\ v.unit = w.unit
         /\ v = [w EXCEPT !.running = x] =>
              /\ x \in 0..2 => OnWorker(v)
              /\ v.running = x /\ v.state = w.state
              /\ v.binary = w.binary /\ v.certs = w.certs /\ v.unit = w.unit
BY SMT DEF OnWorker

\* The same of the groups, the user and the unit.
LEMMA OneFlag ==
  ASSUME NEW w, OnWorker(w), NEW x,
         NEW v, \/ v = [w EXCEPT !.group = x] \/ v = [w EXCEPT !.inGroup = x]
                \/ v = [w EXCEPT !.user = x] \/ v = [w EXCEPT !.inDisk = x]
                \/ v = [w EXCEPT !.unit = x]
  PROVE  /\ OnWorker(v) /\ v.running = w.running /\ v.state = w.state
         /\ v.binary = w.binary /\ v.certs = w.certs
BY SMT DEF OnWorker

LEMMA InitSetup ==
  ASSUME Worker!Init
  PROVE  SetupInv
<1>1. SetupTyped
  BY SMT, DataPathAssumption DEF Worker!Init, SetupTyped, OnWorker, Worker!Used, Worker!Fresh
<1>2. StateInv /\ BinaryInv /\ at # "done" /\ program \in {"replicator", "writer"}
  BY SMT DEF Worker!Init, StateInv, BinaryInv, WriterPlaces, Worker!Used, Worker!Fresh
<1>3. UnitInv
  BY SMT DEF Worker!Init, UnitInv, Worker!Used, Worker!Fresh
<1> QED
  BY <1>1, <1>2, <1>3 DEF SetupInv

\* What is run again after a failure begins with what it needs, or later.
LEMMA FailsStep ==
  ASSUME SetupInv, Worker!Fails, ~Worker!Ended,
         OnWorker(worker'), failures' \in 0..SetupFailures,
         worker'.running = worker.running, worker'.state = worker.state,
         worker'.binary = worker.binary, worker'.unit = worker.unit,
         \/ worker'.certs = worker.certs
         \/ worker'.certs = "some",
         failures' > 0 \/ (failures' = failures /\ (at = "start_unit" => worker.running # 0))
  PROVE  SetupInv'
<1>1. /\ attempts' \in 0..(SetupAttempts - 1) /\ certAttempts' \in 0..(SetupAttempts - 1)
      /\ at' # "done" /\ UNCHANGED <<program, reused>>
  BY SMT, DataPathAssumption DEF SetupInv, SetupTyped, Worker!Fails, Worker!ReplicatorFails,
     Worker!WriterFails, Worker!Ended
<1>2. StateInv'
  <2>1. program = "replicator" /\ at' \notin {"copy_state", "reconnect_given", "failed"} =>
          at \notin {"copy_state", "reconnect_given"}
    BY DEF Worker!Fails, Worker!ReplicatorFails, Worker!WriterFails, Worker!InCertificates
  <2> QED
    BY <1>1, <2>1 DEF SetupInv, StateInv, Worker!Ended
<1>3. BinaryInv'
  <2> SUFFICES ASSUME program = "writer" PROVE BinaryInv'
    BY <1>1 DEF BinaryInv
  <2>1. /\ at' \in {"copy_writer", "certs", "unit", "failed"}
        /\ at' = "unit" => at \in {"unit", "start_unit"}
    BY DEF Worker!Fails, Worker!ReplicatorFails, Worker!WriterFails, SetupInv, BinaryInv,
       WriterPlaces, Worker!Ended
  <2> QED
    BY <2>1 DEF SetupInv, BinaryInv, WriterPlaces
<1>4. UnitInv'
  BY <1>1 DEF SetupInv, UnitInv
<1> QED
  BY <1>1, <1>2, <1>3, <1>4 DEF SetupInv, SetupTyped

LEMMA CommandFailsStep ==
  ASSUME SetupInv, Worker!CommandFails
  PROVE  SetupInv'
<1>1. ~Worker!Ended /\ Worker!Fails
  BY DEF Worker!CommandFails
<1>2. failures' \in 0..SetupFailures /\ failures' > 0
  BY SMT, DataPathAssumption DEF Worker!CommandFails, SetupInv, SetupTyped
<1>3. worker' = worker \/ worker' = [worker EXCEPT !.certs = "some"]
  BY DEF Worker!CommandFails
<1>4. /\ OnWorker(worker')
      /\ worker'.running = worker.running /\ worker'.state = worker.state
      /\ worker'.binary = worker.binary /\ worker'.unit = worker.unit
      /\ worker'.certs = worker.certs \/ worker'.certs = "some"
  BY SMT, <1>3 DEF SetupInv, SetupTyped, OnWorker
<1> QED
  BY <1>1, <1>2, <1>4, FailsStep

LEMMA HopelessStep ==
  ASSUME SetupInv, Worker!Fails, ~Worker!Ended, UNCHANGED <<worker, failures>>,
         at = "start_unit" => worker.running # 0
  PROVE  SetupInv'
BY FailsStep DEF SetupInv, SetupTyped

\* A command which leaves the binary and the service as they are, and goes on.
LEMMA SetupGoesOn ==
  ASSUME SetupInv, UNCHANGED <<program, reused, failures>>,
         OnWorker(worker'), worker'.running = worker.running,
         worker'.binary = worker.binary \/ worker'.binary = "executable",
         worker'.certs = worker.certs \/ program = "replicator",
         worker'.state = worker.state \/ worker'.state = 2,
         at = "copy_state" => worker'.state = 2,
         program = "replicator", at' # "done", at \notin {"failed", "reconnect_given"},
         attempts' \in 0..(SetupAttempts - 1), certAttempts' \in 0..(SetupAttempts - 1)
  PROVE  SetupInv'
BY DEF SetupInv, SetupTyped, StateInv, BinaryInv, UnitInv

\* What the service starts with.
LEMMA StartedFacts ==
  ASSUME SetupInv, at \in {"start_unit", "start"}
  PROVE  /\ Worker!Started \in 0..2
         /\ ~reused => Worker!Started \in {0, 2}
         /\ worker.running # 0 => Worker!Started = worker.running
         /\ program = "writer" /\ at = "start_unit" => Worker!Started # 0
<1>1. worker.running \in 0..2 /\ worker.state \in 0..2
  BY DEF SetupInv, SetupTyped, OnWorker
<1>2. program = "replicator" => worker.state = 2
  BY DEF SetupInv, StateInv
<1> QED
  BY SMT, <1>1, <1>2 DEF SetupInv, StateInv, BinaryInv, Worker!Started

\* The commands of Replicator._setup_replicator up to the service.
LEMMA ReplicatorStep ==
  ASSUME SetupInv,
         \/ Worker!CopyState /\ ssh # "closed"
         \/ Worker!CopyBinary \/ Worker!GroupAdd \/ Worker!UserMod \/ Worker!Reconnect
         \/ Worker!UserAdd \/ Worker!UserModDisk \/ Worker!GenCerts \/ Worker!Chown
         \/ Worker!ChmodCerts
  PROVE  SetupInv'
<1>1. /\ at \in {"copy_state", "copy_binary", "group", "usermod", "reconnect", "user",
                 "disk_group", "certs", "chown", "chmod_certs"}
      /\ at = "certs" => program = "replicator"
      /\ UNCHANGED <<program, reused, failures>>
      /\ at' # "done"
  BY DEF Worker!CopyState, Worker!CopyBinary, Worker!GroupAdd, Worker!UserMod,
     Worker!Reconnect, Worker!UserAdd, Worker!UserModDisk, Worker!GenCerts, Worker!Chown, Worker!ChmodCerts,
     Worker!Step
<1>2. program = "replicator"
  BY <1>1 DEF SetupInv, BinaryInv, WriterPlaces
<1>3. attempts' \in 0..(SetupAttempts - 1) /\ certAttempts' \in 0..(SetupAttempts - 1)
  <2>1. attempts' = attempts /\ (certAttempts' = certAttempts \/ certAttempts' = 0)
    BY DEF Worker!CopyState, Worker!CopyBinary, Worker!GroupAdd, Worker!UserMod,
       Worker!Reconnect, Worker!UserAdd, Worker!UserModDisk, Worker!GenCerts, Worker!Chown, Worker!ChmodCerts
  <2> QED
    BY SMT, <2>1, DataPathAssumption DEF SetupInv, SetupTyped
<1>4. \/ at = "copy_state" /\ worker' = [worker EXCEPT !.state = 2]
      \/ /\ at # "copy_state"
         /\ \/ worker' = [worker EXCEPT !.binary = "executable"]
            \/ worker' = [worker EXCEPT !.group = TRUE]
            \/ worker' = [worker EXCEPT !.inGroup = TRUE]
            \/ worker' = [worker EXCEPT !.user = TRUE]
            \/ worker' = [worker EXCEPT !.inDisk = TRUE]
            \/ worker' = worker
            \/ \E c \in {"made", "owned", "readable"} :
                 worker' = [worker EXCEPT !.certs = c]
  BY DEF Worker!CopyState, Worker!CopyBinary, Worker!GroupAdd, Worker!UserMod,
     Worker!Reconnect, Worker!UserAdd, Worker!UserModDisk, Worker!GenCerts, Worker!Chown, Worker!ChmodCerts
<1>5. OnWorker(worker)
  BY DEF SetupInv, SetupTyped
<1>6. /\ OnWorker(worker') /\ worker'.running = worker.running
      /\ worker'.binary = worker.binary \/ worker'.binary = "executable"
      /\ worker'.state = worker.state \/ worker'.state = 2
      /\ at = "copy_state" => worker'.state = 2
  <2> DEFINE Kept(v) == /\ OnWorker(v) /\ v.running = worker.running
                        /\ v.state = worker.state /\ v.binary = worker.binary
  <2>1. 2 \in 0..2 /\ ~(at = "copy_state" /\ at # "copy_state")
    BY SMT
  <2>2. CASE at = "copy_state" /\ worker' = [worker EXCEPT !.state = 2]
    BY SMT, <1>5, <2>1, <2>2, OneField
  <2>3. CASE worker' = [worker EXCEPT !.binary = "executable"] /\ at # "copy_state"
    BY SMT, <1>5, <2>3, OneField
  <2>4. CASE \/ worker' = [worker EXCEPT !.group = TRUE]
             \/ worker' = [worker EXCEPT !.inGroup = TRUE]
             \/ worker' = [worker EXCEPT !.user = TRUE]
             \/ worker' = [worker EXCEPT !.inDisk = TRUE]
    <3>1. Kept(worker')
      BY SMT, <1>5, <2>4, OneFlag
    <3> QED
      BY <1>4, <2>2, <3>1
  <2>5. CASE \E c \in {"made", "owned", "readable"} : worker' = [worker EXCEPT !.certs = c]
    <3>1. Kept(worker')
      BY SMT, <1>5, <2>5, OneField
    <3> QED
      BY <1>4, <2>2, <3>1
  <2>6. CASE worker' = worker /\ at # "copy_state"
    BY <1>5, <2>6
  <2> QED
    BY <1>4, <2>2, <2>3, <2>4, <2>5, <2>6
<1> QED
  BY <1>1, <1>2, <1>3, <1>6, SetupGoesOn

LEMMA FetchStep ==
  ASSUME SetupInv, Worker!Fetch
  PROVE  SetupInv'
<1>1. at = "fetch" /\ UNCHANGED worker
  BY DEF Worker!Fetch
<1>2. program = "replicator"
  BY <1>1 DEF SetupInv, BinaryInv, WriterPlaces
<1>3. CASE member /\ worker.certs = "readable"
  <2>1. at' = "unit" /\ UNCHANGED <<program, reused, failures, attempts, certAttempts>>
    BY <1>3 DEF Worker!Fetch, Worker!Step
  <2> QED
    BY <1>1, <1>2, <2>1 DEF SetupInv, SetupTyped, StateInv, BinaryInv, UnitInv
<1>4. CASE ~(member /\ worker.certs = "readable")
  <2>1. Worker!Fails /\ ~Worker!Ended /\ UNCHANGED <<worker, failures>>
    BY <1>1, <1>4 DEF Worker!Fetch, Worker!Ended
  <2> QED
    BY <1>1, <2>1, HopelessStep
<1> QED
  BY <1>3, <1>4

\* init_replicator begins anew.
LEMMA ReconnectGivenStep ==
  ASSUME SetupInv, Worker!ReconnectGiven
  PROVE  SetupInv'
<1>1. /\ at = "reconnect_given" /\ at' = "copy_state" /\ attempts' = 0
      /\ UNCHANGED <<program, reused, worker, failures, certAttempts>>
  BY DEF Worker!ReconnectGiven
<1>2. program = "replicator"
  BY <1>1 DEF SetupInv, BinaryInv, WriterPlaces
<1>3. 0 \in 0..(SetupAttempts - 1)
  BY SMT, DataPathAssumption
<1> QED
  BY <1>1, <1>2, <1>3 DEF SetupInv, SetupTyped, StateInv, BinaryInv, UnitInv

\* The unit of the service is written, or was there.
LEMMA UnitStep ==
  ASSUME SetupInv, Worker!WriteUnit
  PROVE  SetupInv'
<1>1. CASE Worker!Hopeless
  BY <1>1, HopelessStep DEF Worker!WriteUnit, Worker!Hopeless, Worker!Ended
<1>2. CASE /\ at = "unit" /\ worker' = [worker EXCEPT !.unit = TRUE]
           /\ at' = IF worker.unit /\ init_system = "upstart" THEN Worker!Launched
                    ELSE "start_unit"
           /\ UNCHANGED <<program, reused, init_system, failures, attempts, certAttempts>>
  <2>1. /\ OnWorker(worker') /\ worker'.running = worker.running
        /\ worker'.state = worker.state /\ worker'.binary = worker.binary
        /\ worker'.certs = worker.certs
    BY SMT, <1>2, OneFlag DEF SetupInv, SetupTyped
  <2>2. /\ at' \in {"done", "start", "start_unit"}
        /\ program = "writer" => at' \in {"done", "start_unit"}
        /\ at' = "done" => program = "writer"
        /\ at' # "start_unit" => worker.unit /\ init_system = "upstart"
    BY <1>2 DEF Worker!Launched
  <2>3. StateInv' /\ BinaryInv'
    BY <1>2, <2>1, <2>2 DEF SetupInv, StateInv, BinaryInv, WriterPlaces
  <2>4. UnitInv'
    BY <1>2, <2>1, <2>2 DEF SetupInv, UnitInv
  <2>5. at' = "done" => worker.running # 0 \/ failures > 0
    BY <1>2, <2>2 DEF SetupInv, UnitInv
  <2> QED
    BY <1>2, <2>1, <2>2, <2>3, <2>4, <2>5 DEF SetupInv, SetupTyped
<1> QED
  BY <1>1, <1>2 DEF Worker!WriteUnit, Worker!Step

\* The service is started, and the writer's setup is over.
LEMMA ServiceStep ==
  ASSUME SetupInv, Worker!StartUnit \/ Worker!Start, ~Worker!StartRefused
  PROVE  SetupInv'
<1>1. /\ at \in {"start_unit", "start"}
      /\ UNCHANGED <<program, reused, init_system, failures, certAttempts>>
      /\ worker' = [worker EXCEPT !.running = Worker!Started]
  BY DEF Worker!StartUnit, Worker!Start, Worker!Step
<1>2. /\ worker'.running = Worker!Started /\ worker'.state = worker.state
      /\ worker'.binary = worker.binary /\ worker'.certs = worker.certs
      /\ OnWorker(worker')
  <2>1. Worker!Started \in 0..2 /\ OnWorker(worker)
    BY <1>1, StartedFacts DEF SetupInv, SetupTyped
  <2> QED
    BY SMT, <1>1, <2>1, OneField
<1>3. attempts' \in 0..(SetupAttempts - 1)
  BY SMT, DataPathAssumption DEF Worker!StartUnit, Worker!Start, SetupInv, SetupTyped
<1>4. /\ at' \in {"done", "start", "get_status"}
      /\ at' = "done" => program = "writer"
      /\ program = "writer" => at = "start_unit" /\ at' = "done"
  BY DEF Worker!StartUnit, Worker!Start, Worker!Step, Worker!Launched, SetupInv, BinaryInv,
     WriterPlaces
<1>5. StateInv'
  BY <1>1, <1>2, <1>4, StartedFacts DEF SetupInv, StateInv
<1>6. BinaryInv'
  BY <1>1, <1>2, <1>4 DEF SetupInv, BinaryInv, WriterPlaces
<1>7. program = "writer" => worker'.running # 0
  BY <1>1, <1>2, <1>4, StartedFacts
<1> QED
  BY <1>1, <1>2, <1>3, <1>4, <1>5, <1>6, <1>7 DEF SetupInv, SetupTyped, UnitInv

\* A start which is refused has found the service running.
LEMMA RefusedStep ==
  ASSUME SetupInv,
         \/ (Worker!StartUnit \/ Worker!Start) /\ Worker!StartRefused
         \/ Worker!CopyState /\ ssh = "closed"
  PROVE  SetupInv'
<1>1. /\ Worker!Hopeless /\ at \in {"start_unit", "start", "copy_state"}
      /\ at = "start_unit" => Worker!StartRefused
  BY DEF Worker!StartUnit, Worker!Start, Worker!CopyState
<1> QED
  BY <1>1, HopelessStep DEF Worker!Hopeless, Worker!Ended, Worker!StartRefused

LEMMA GetStatusStep ==
  ASSUME SetupInv, Worker!GetStatus
  PROVE  SetupInv'
<1>1. at = "get_status" /\ UNCHANGED worker
  BY DEF Worker!GetStatus, Worker!Hopeless
<1>2. program = "replicator"
  BY <1>1 DEF SetupInv, BinaryInv, WriterPlaces
<1>3. CASE worker.running # 0 /\ at' = "done" /\ UNCHANGED <<program, reused, failures,
                                                           attempts, certAttempts>>
  BY <1>1, <1>2, <1>3 DEF SetupInv, SetupTyped, StateInv, BinaryInv, UnitInv
<1>4. CASE Worker!Hopeless
  BY <1>1, <1>4, HopelessStep DEF Worker!Hopeless, Worker!Ended
<1> QED
  BY <1>3, <1>4 DEF Worker!GetStatus, Worker!Step

\* The commands of HTTPBackupWriterBootstrapper.setup_writer up to the service.
LEMMA WriterSetupStep ==
  ASSUME SetupInv, Worker!CopyWriter \/ Worker!ChmodWriter
  PROVE  SetupInv'
<1>1. /\ at \in {"copy_writer", "chmod_writer"} /\ at' \in {"chmod_writer", "certs"}
      /\ UNCHANGED <<program, reused, failures, certAttempts>>
  BY DEF Worker!CopyWriter, Worker!ChmodWriter, Worker!Step
<1>2. \/ worker' = worker
      \/ worker.binary = "none" /\ worker' = [worker EXCEPT !.binary = "copied"]
      \/ worker' = [worker EXCEPT !.binary = "executable"]
  BY DEF Worker!CopyWriter, Worker!ChmodWriter
<1>3. OnWorker(worker)
  BY DEF SetupInv, SetupTyped
<1>4. /\ OnWorker(worker') /\ worker'.running = worker.running
      /\ worker'.state = worker.state /\ worker'.certs = worker.certs
      /\ worker'.unit = worker.unit
      /\ worker'.binary = worker.binary \/ worker.binary = "none"
         \/ worker'.binary = "executable"
  BY SMT, <1>2, <1>3 DEF OnWorker
<1>5. attempts' \in 0..(SetupAttempts - 1)
  BY SMT, DataPathAssumption DEF Worker!CopyWriter, Worker!ChmodWriter, SetupInv, SetupTyped
<1>6. "none" # "executable"
  OBVIOUS
<1>7. StateInv'
  BY <1>1, <1>4 DEF SetupInv, StateInv
<1>8. BinaryInv'
  BY <1>1, <1>4, <1>6 DEF SetupInv, BinaryInv, WriterPlaces
<1> QED
  BY <1>1, <1>4, <1>5, <1>7, <1>8 DEF SetupInv, SetupTyped, UnitInv

LEMMA WriterCertsStep ==
  ASSUME SetupInv, Worker!WriterCerts
  PROVE  SetupInv'
<1>1. program = "writer" /\ at = "certs"
  BY DEF Worker!WriterCerts
<1>2. CASE /\ at' = "unit" /\ UNCHANGED <<program, reused, failures, certAttempts>>
           /\ attempts' = 0
           /\ \/ worker.certs \notin {"none", "some"} /\ worker' = worker
              \/ worker.binary = "executable" /\ worker' = [worker EXCEPT !.certs = "made"]
  <2>1. OnWorker(worker) /\ 0 \in 0..(SetupAttempts - 1)
    BY SMT, DataPathAssumption DEF SetupInv, SetupTyped
  <2>2. /\ OnWorker(worker') /\ worker'.running = worker.running
        /\ worker'.state = worker.state /\ worker'.binary = worker.binary
        /\ worker'.unit = worker.unit
    BY SMT, <1>2, <2>1 DEF OnWorker
  <2>3. worker'.binary = "executable"
    BY <1>1, <1>2, <2>2 DEF SetupInv, BinaryInv
  <2> QED
    BY <1>1, <1>2, <2>1, <2>2, <2>3 DEF SetupInv, SetupTyped, StateInv, BinaryInv,
       WriterPlaces, UnitInv
<1>3. CASE Worker!Hopeless
  BY <1>1, <1>3, HopelessStep DEF Worker!Hopeless, Worker!Ended
<1> QED
  BY <1>2, <1>3 DEF Worker!WriterCerts, Worker!Step

LEMMA NextSetup ==
  ASSUME SetupInv, [Worker!SetupNext]_(Worker!vars)
  PROVE  SetupInv'
<1>1. CASE UNCHANGED Worker!vars
  BY <1>1 DEF Worker!vars, SetupInv, SetupTyped, StateInv, BinaryInv, UnitInv
<1>2. CASE Worker!SetupNext /\ ~UNCHANGED Worker!vars
  BY <1>2, CommandFailsStep, ReplicatorStep, ReconnectGivenStep, FetchStep, UnitStep,
     ServiceStep, RefusedStep, GetStatusStep, WriterSetupStep, WriterCertsStep
     DEF Worker!SetupNext, Worker!Over
<1> QED
  BY <1>1, <1>2

\* What the invariant says of a worker which is set up.
LEMMA SetupPromises ==
  ASSUME SetupInv
  PROVE  Worker!SetupTypeOK /\ Worker!ServiceReady
<1>1. Worker!SetupTypeOK
  BY DEF SetupInv, SetupTyped, OnWorker, Worker!SetupTypeOK
<1>2. Worker!ServiceReady
  BY DEF SetupInv, StateInv, Worker!ServiceReady
<1> QED
  BY <1>1, <1>2

-----------------------------------------------------------------------------
(***************************************************************************)
(* The export from VMware                                                  *)
(*                                                                         *)
(* What an instance remembers of the units it has attached is only so      *)
(* until its cleanup: afterwards another instance may have them.           *)
(***************************************************************************)

\* The tasks of an instance which has its disks attached, or none.
Attaching == {"rescan", "replicate", "delete"}

\* The instance whose disk is at a unit of the worker.
Owner(u) == unit[u][1]

Held(i, u) == \E k \in DOMAIN attached[i] : attached[i][k] = u

ExportTyped ==
  /\ unit = [u \in DOMAIN unit |-> unit[u]]
  /\ DOMAIN at = ExportInstances /\ DOMAIN attached = ExportInstances
  /\ DOMAIN plan = ExportInstances /\ failures \in Nat
  /\ \A u \in DOMAIN unit : Owner(u) \in ExportInstances

\* An instance plans a unit for each of its disks, has none when it begins, and
\* finds its own disks at its units; as long as no call has failed, it remembers
\* each of its disks which is on the worker.
InstanceInv(i) ==
  /\ at[i] = "reconfigure" => DOMAIN plan[i] = 1..ExportDisks
  /\ at[i] = "deploy" => DOMAIN attached[i] = {}
  /\ at[i] \in Attaching =>
       \A u : Held(i, u) => u \in DOMAIN unit /\ Owner(u) = i
  /\ failures = 0 =>
       \A u \in DOMAIN unit : Owner(u) = i => at[i] \in Attaching /\ Held(i, u)

ExportInv == ExportTyped /\ \A i \in ExportInstances : InstanceInv(i)

\* What a step of an instance leaves alone.
StepOf(i) ==
  /\ DOMAIN at' = DOMAIN at /\ DOMAIN attached' = DOMAIN attached
  /\ DOMAIN plan' = DOMAIN plan
  /\ \A j \in ExportInstances : j # i =>
       at'[j] = at[j] /\ attached'[j] = attached[j] /\ plan'[j] = plan[j]
  /\ unit' = [u \in DOMAIN unit' |-> unit'[u]]
  /\ \A u \in DOMAIN unit' : (u \in DOMAIN unit /\ unit'[u] = unit[u]) \/ unit'[u][1] = i
  /\ \A u \in DOMAIN unit : Owner(u) # i => u \in DOMAIN unit' /\ unit'[u] = unit[u]
  /\ failures' \in Nat /\ (failures' = 0 => failures = 0)

-----------------------------------------------------------------------------
LEMMA InitExport ==
  ASSUME Vmware!Init
  PROVE  ExportInv
<1>1. DOMAIN unit = {} /\ unit = [u \in DOMAIN unit |-> unit[u]] /\ failures \in Nat
  BY SMT DEF Vmware!Init
<1>2. \A i \in ExportInstances : at[i] = "idle" /\ "idle" \notin Attaching
  BY DEF Vmware!Init, Attaching
<1> QED
  BY <1>1, <1>2 DEF Vmware!Init, ExportInv, ExportTyped, InstanceInv

\* A step of an instance does not concern the others.
LEMMA ExportStepOf ==
  ASSUME ExportInv, NEW i \in ExportInstances, StepOf(i), InstanceInv(i)'
  PROVE  ExportInv'
<1>1. ExportTyped'
  <2>1. \A u \in DOMAIN unit' : unit'[u][1] \in ExportInstances
    BY DEF ExportInv, ExportTyped, StepOf, Owner
  <2> QED
    BY <2>1 DEF ExportInv, ExportTyped, StepOf, Owner
<1>2. ASSUME NEW j \in ExportInstances, j # i
      PROVE  InstanceInv(j)'
  <2>1. InstanceInv(j)
    BY DEF ExportInv
  <2>2. /\ at'[j] = at[j] /\ attached'[j] = attached[j] /\ plan'[j] = plan[j]
        /\ failures' = 0 => failures = 0
    BY <1>2 DEF StepOf
  <2>3. \A u : Held(j, u)' <=> Held(j, u)
    BY <2>2 DEF Held
  <2>4. \A u : /\ u \in DOMAIN unit /\ Owner(u) = j => u \in DOMAIN unit' /\ Owner(u)' = j
               /\ u \in DOMAIN unit' /\ Owner(u)' = j => u \in DOMAIN unit /\ Owner(u) = j
    BY SMT, <1>2 DEF StepOf, Owner
  <2> QED
    BY <2>1, <2>2, <2>3, <2>4 DEF InstanceInv
<1> QED
  BY <1>1, <1>2 DEF ExportInv

\* A step which attaches and detaches nothing.
LEMMA InstanceGoesOn ==
  ASSUME ExportInv, NEW i \in ExportInstances, NEW p, Vmware!Goto(i, p),
         UNCHANGED <<unit, attached, plan>>, p # "deploy", p # "reconfigure",
         p \in Attaching => at[i] \in Attaching \/ at[i] = "deploy",
         at[i] \in Attaching /\ p \notin Attaching => failures' # 0,
         failures' \in Nat, failures' = 0 => failures = 0
  PROVE  ExportInv'
<1>1. /\ DOMAIN at' = DOMAIN at /\ at'[i] = p
      /\ \A j \in ExportInstances : j # i => at'[j] = at[j]
  BY SMT DEF Vmware!Goto, ExportInv, ExportTyped
<1>2. StepOf(i)
  BY <1>1 DEF StepOf, ExportInv, ExportTyped
<1>3. InstanceInv(i)'
  <2>1. \A u : (Held(i, u)' <=> Held(i, u)) /\ Owner(u)' = Owner(u)
    BY DEF Held, Owner
  <2>2. InstanceInv(i) /\ (at[i] = "deploy" => \A u : ~Held(i, u))
    BY DEF ExportInv, InstanceInv, Held
  <2> QED
    BY <1>1, <2>1, <2>2 DEF InstanceInv
<1> QED
  BY <1>2, <1>3, ExportStepOf

LEMMA ExecuteStep ==
  ASSUME ExportInv, NEW i \in ExportInstances, Vmware!Execute(i)
  PROVE  ExportInv' /\ unit' = unit
<1>1. /\ at[i] = "idle" /\ UNCHANGED <<unit, failures>>
      /\ DOMAIN at' = DOMAIN at /\ DOMAIN attached' = DOMAIN attached
      /\ DOMAIN plan' = DOMAIN plan
      /\ at'[i] = "deploy" /\ attached'[i] = <<>>
      /\ \A j \in ExportInstances : j # i =>
           at'[j] = at[j] /\ attached'[j] = attached[j] /\ plan'[j] = plan[j]
  BY SMT DEF Vmware!Execute, Vmware!Goto, ExportInv, ExportTyped
<1>2. DOMAIN attached'[i] = {}
  BY SMT, <1>1
<1>3. StepOf(i)
  BY <1>1 DEF StepOf, ExportInv, ExportTyped
<1>4. InstanceInv(i)'
  <2>1. InstanceInv(i) /\ "idle" \notin Attaching /\ "deploy" \notin Attaching
    BY DEF ExportInv, Attaching
  <2>2. \A u : Owner(u)' = Owner(u)
    BY <1>1 DEF Owner
  <2> QED
    BY <1>1, <1>2, <2>1, <2>2 DEF InstanceInv
<1> QED
  BY <1>1, <1>3, <1>4, ExportStepOf

LEMMA ChooseUnitsStep ==
  ASSUME ExportInv, NEW i \in ExportInstances, Vmware!ChooseUnits(i)
  PROVE  ExportInv' /\ unit' = unit
<1>1. /\ at[i] = "attach" /\ UNCHANGED <<unit, attached, failures>>
      /\ DOMAIN at' = DOMAIN at /\ DOMAIN plan' = DOMAIN plan
      /\ at'[i] = "reconfigure" /\ plan'[i] = Vmware!FreeUnits(ExportDisks)
      /\ \A j \in ExportInstances : j # i => at'[j] = at[j] /\ plan'[j] = plan[j]
  BY SMT DEF Vmware!ChooseUnits, Vmware!Goto, ExportInv, ExportTyped
<1>2. DOMAIN plan'[i] = 1..ExportDisks
  BY SMT, <1>1, DataPathAssumption DEF Vmware!FreeUnits, DataPathAssumption
<1>3. StepOf(i)
  BY <1>1 DEF StepOf, ExportInv, ExportTyped
<1>4. InstanceInv(i)'
  <2>1. InstanceInv(i) /\ "attach" \notin Attaching /\ "reconfigure" \notin Attaching
    BY DEF ExportInv, Attaching
  <2>2. \A u : Owner(u)' = Owner(u)
    BY <1>1 DEF Owner
  <2> QED
    BY <1>1, <1>2, <2>1, <2>2 DEF InstanceInv
<1> QED
  BY <1>1, <1>3, <1>4, ExportStepOf

\* ReconfigVM_Task attaches at units which are free, and takes no disk away.
LEMMA ReconfigureStep ==
  ASSUME ExportInv, NEW i \in ExportInstances, Vmware!Reconfigure(i)
  PROVE  ExportInv' /\ DOMAIN unit \subseteq DOMAIN unit'
<1> DEFINE new == Vmware!UnitsOf(plan[i])
<1>1. /\ at[i] = "reconfigure" /\ UNCHANGED <<plan, failures>>
      /\ DOMAIN at' = DOMAIN at /\ DOMAIN attached' = DOMAIN attached
      /\ at'[i] = "rescan" /\ attached'[i] = plan[i]
      /\ \A j \in ExportInstances : j # i => at'[j] = at[j] /\ attached'[j] = attached[j]
  BY SMT DEF Vmware!Reconfigure, Vmware!Goto, ExportInv, ExportTyped
<1>2. /\ unit' = [u \in DOMAIN unit' |-> unit'[u]]
      /\ DOMAIN unit' = DOMAIN unit \cup new
      /\ \A u \in DOMAIN unit : unit'[u] = unit[u]
      /\ \A u \in new \ DOMAIN unit : unit'[u][1] = i
  BY SMT DEF Vmware!Reconfigure
<1>3. \A u \in new : u \notin DOMAIN unit
  <2>1. DOMAIN plan[i] = 1..ExportDisks
    BY <1>1 DEF ExportInv, InstanceInv
  <2> QED
    BY <2>1 DEF Vmware!Reconfigure, Vmware!UnitsFree, Vmware!UnitsOf
<1>4. \A u : u \in new <=> Held(i, u)'
  BY <1>1 DEF Held, Vmware!UnitsOf
<1> HIDE DEF new
<1>5. StepOf(i)
  BY <1>1, <1>2 DEF StepOf, ExportInv, ExportTyped
<1>6. InstanceInv(i)'
  <2>1. InstanceInv(i) /\ "reconfigure" \notin Attaching /\ "rescan" \in Attaching
    BY DEF ExportInv, Attaching
  <2>2. \A u \in DOMAIN unit : Owner(u)' = Owner(u)
    BY <1>2 DEF Owner
  <2>3. \A u \in new : u \in DOMAIN unit' /\ Owner(u)' = i
    BY <1>2, <1>3 DEF Owner
  <2>4. failures = 0 => \A u \in DOMAIN unit' : Owner(u)' = i => u \in new
    BY <1>1, <1>2, <2>1, <2>2 DEF InstanceInv
  <2> QED
    BY <1>1, <1>4, <2>1, <2>3, <2>4 DEF InstanceInv
<1> QED
  BY <1>2, <1>5, <1>6, ExportStepOf

\* _detach_disks_from_worker takes the disks of the instance, and all of them
\* which it remembers.
LEMMA DetachedFacts ==
  ASSUME ExportInv, NEW i \in ExportInstances, at[i] = "delete"
  PROVE  /\ \A u \in Vmware!Matched(i) : u \in DOMAIN unit /\ Owner(u) = i
         /\ \A u \in DOMAIN unit : Held(i, u) => u \in Vmware!Matched(i)
<1>1. \A u : u \in Vmware!UnitsOf(attached[i]) <=> Held(i, u)
  BY DEF Held, Vmware!UnitsOf
<1>2. \A u : Held(i, u) => Owner(u) = i
  BY DEF ExportInv, InstanceInv, Attaching
<1>3. \A u : unit[u] \in Vmware!DisksOf(i) => Owner(u) = i
  BY SMT DEF Vmware!DisksOf, Owner
<1> QED
  BY <1>1, <1>2, <1>3 DEF Vmware!Matched

LEMMA DetachedStep ==
  ASSUME ExportInv, NEW i \in ExportInstances, at[i] = "delete",
         unit' = [u \in DOMAIN unit \ Vmware!Matched(i) |-> unit[u]],
         Vmware!Goto(i, "unsnapshot"), UNCHANGED <<attached, plan, failures>>
  PROVE  ExportInv' /\ \A u \in DOMAIN unit \ DOMAIN unit' : Owner(u) = i
<1>1. /\ DOMAIN at' = DOMAIN at /\ at'[i] = "unsnapshot"
      /\ \A j \in ExportInstances : j # i => at'[j] = at[j]
  BY SMT DEF Vmware!Goto, ExportInv, ExportTyped
<1>2. /\ unit' = [u \in DOMAIN unit' |-> unit'[u]]
      /\ \A u : u \in DOMAIN unit' <=> u \in DOMAIN unit /\ u \notin Vmware!Matched(i)
      /\ \A u \in DOMAIN unit' : unit'[u] = unit[u]
  BY SMT
<1>3. StepOf(i)
  BY <1>1, <1>2, DetachedFacts DEF StepOf, ExportInv, ExportTyped
<1>4. InstanceInv(i)'
  <2>1. InstanceInv(i) /\ "unsnapshot" \notin Attaching
    BY DEF ExportInv, Attaching
  <2>2. \A u \in DOMAIN unit' : /\ Owner(u)' = Owner(u)
                               /\ u \in DOMAIN unit /\ ~Held(i, u)
    BY <1>2, DetachedFacts DEF Owner
  <2> QED
    BY <1>1, <2>1, <2>2 DEF InstanceInv
<1> QED
  BY <1>2, <1>3, <1>4, DetachedFacts, ExportStepOf

LEMMA DetachDisksStep ==
  ASSUME ExportInv, NEW i \in ExportInstances, Vmware!DetachDisks(i)
  PROVE  /\ ExportInv' /\ at[i] = "delete"
         /\ \A u \in DOMAIN unit \ DOMAIN unit' : Owner(u) = i
<1>1. CASE /\ unit' = [u \in DOMAIN unit \ Vmware!Matched(i) |-> unit[u]]
           /\ Vmware!Goto(i, "unsnapshot") /\ UNCHANGED failures
  BY SMT, <1>1, DetachedStep DEF Vmware!DetachDisks
<1>2. CASE failures' = failures + 1 /\ UNCHANGED unit
  <2>1. PICK p \in {"idle", "unsnapshot"} : Vmware!Goto(i, p)
    BY DEF Vmware!DetachDisks
  <2>2. failures' # 0 /\ failures' \in Nat
    BY SMT, <1>2 DEF ExportInv, ExportTyped
  <2>3. p # "deploy" /\ p # "reconfigure" /\ p \notin Attaching
    BY DEF Attaching
  <2>4. ExportInv'
    BY SMT, <1>2, <2>1, <2>2, <2>3, InstanceGoesOn DEF Vmware!DetachDisks
  <2> QED
    BY <1>2, <2>4 DEF Vmware!DetachDisks
<1> QED
  BY <1>1, <1>2 DEF Vmware!DetachDisks

LEMMA OtherExportSteps ==
  ASSUME ExportInv, NEW i \in ExportInstances,
         \/ Vmware!CreateSnapshot(i) \/ Vmware!WorkerNotFound(i)
         \/ Vmware!NoFreeUnits(i) \/ Vmware!UnitTaken(i) \/ Vmware!CallRaises(i)
         \/ Vmware!Rescan(i) \/ Vmware!ReplicateDisks(i) \/ Vmware!RemoveSnapshot(i)
  PROVE  ExportInv' /\ unit' = unit
<1>1. PICK p \in {"attach", "replicate", "idle", "delete"} :
        /\ Vmware!Goto(i, p) /\ UNCHANGED <<unit, attached, plan>>
        /\ failures' = failures \/ failures' = failures + 1
        /\ p = "attach" => at[i] = "deploy"
        /\ p = "replicate" => at[i] = "rescan" \/ at[i] = "deploy"
        /\ p = "delete" => at[i] = "replicate"
        /\ p = "idle" => at[i] \in {"deploy", "attach", "reconfigure", "unsnapshot"}
  BY DEF Vmware!CreateSnapshot, Vmware!WorkerNotFound, Vmware!NoFreeUnits,
         Vmware!UnitTaken, Vmware!CallRaises, Vmware!DeployRaises, Vmware!Rescan,
         Vmware!ReplicateDisks, Vmware!RemoveSnapshot
<1>2. failures' \in Nat /\ (failures' = 0 => failures = 0)
  BY SMT, <1>1 DEF ExportInv, ExportTyped
<1>3. /\ p # "deploy" /\ p # "reconfigure"
      /\ p \in Attaching => at[i] \in Attaching \/ at[i] = "deploy"
      /\ ~(at[i] \in Attaching /\ p \notin Attaching)
  BY SMT, <1>1 DEF Attaching
<1> QED
  BY <1>1, <1>2, <1>3, InstanceGoesOn

LEMMA NextExport ==
  ASSUME ExportInv, [Vmware!ExportNext]_(Vmware!vars)
  PROVE  ExportInv' /\ Vmware!DetachesItsOwn
<1>1. CASE UNCHANGED Vmware!vars
  <2>1. UNCHANGED <<unit, at, attached, plan, failures>>
    BY <1>1 DEF Vmware!vars
  <2>2. ExportInv'
    BY SMT, <2>1 DEF ExportInv, ExportTyped, InstanceInv, Owner, Held
  <2> QED
    BY <2>1, <2>2 DEF Vmware!DetachesItsOwn
<1>2. CASE \E i \in ExportInstances : Vmware!ShutdownInstance(i)
  <2>1. /\ UNCHANGED <<unit, at, attached, plan>>
        /\ failures' = failures \/ failures' = failures + 1
    BY <1>2 DEF Vmware!ShutdownInstance
  <2>2. failures' \in Nat /\ (failures' = 0 => failures = 0)
    BY SMT, <2>1 DEF ExportInv, ExportTyped
  <2>3. ExportInv'
    BY SMT, <2>1, <2>2 DEF ExportInv, ExportTyped, InstanceInv, Owner, Held
  <2> QED
    BY <2>1, <2>3 DEF Vmware!DetachesItsOwn
<1>3. CASE \E i \in ExportInstances : Vmware!DetachDisks(i)
  BY <1>3, DetachDisksStep DEF Vmware!DetachesItsOwn, Owner
<1>4. CASE \E i \in ExportInstances :
             \/ Vmware!Execute(i) \/ Vmware!ChooseUnits(i) \/ Vmware!Reconfigure(i)
             \/ Vmware!CreateSnapshot(i) \/ Vmware!WorkerNotFound(i)
             \/ Vmware!NoFreeUnits(i) \/ Vmware!UnitTaken(i) \/ Vmware!CallRaises(i)
             \/ Vmware!Rescan(i) \/ Vmware!ReplicateDisks(i) \/ Vmware!RemoveSnapshot(i)
  <2>1. ExportInv' /\ DOMAIN unit \subseteq DOMAIN unit'
    BY <1>4, ExecuteStep, ChooseUnitsStep, ReconfigureStep, OtherExportSteps
  <2> QED
    BY <2>1 DEF Vmware!DetachesItsOwn
<1> QED
  BY <1>1, <1>2, <1>3, <1>4 DEF Vmware!ExportNext

LEMMA ExportPromises ==
  ASSUME ExportInv
  PROVE  Vmware!NothingAttached
<1> SUFFICES ASSUME failures = 0, \A i \in ExportInstances : at[i] = "idle"
             PROVE  unit = <<>>
  BY DEF Vmware!NothingAttached
<1>1. \A u \in DOMAIN unit : Owner(u) \in ExportInstances /\ at[Owner(u)] \in Attaching
  BY DEF ExportInv, ExportTyped, InstanceInv
<1>2. DOMAIN unit = {}
  BY <1>1 DEF Attaching
<1> QED
  BY SMT, <1>2 DEF ExportInv, ExportTyped

-----------------------------------------------------------------------------
(***************************************************************************)
(* The data path: a behaviour is about one of the parts.                   *)
(***************************************************************************)

PathInv ==
  /\ on = "replication" => ReplicaInv
  /\ on = "setup" => SetupInv
  /\ on = "export" => ExportInv

LEMMA InitPath ==
  ASSUME MCInit
  PROVE  PathInv
BY InitReplica, InitSetup, InitExport DEF MCInit, PathInv

\* A step of the path is one of the part which it is about.
LEMMA StepOfOne ==
  ASSUME [MCNext]_mcVars
  PROVE  /\ on' = on
         /\ on = "replication" => [Replicator!ReplicationNext]_(Replicator!vars)
         /\ on = "setup" => [Worker!SetupNext]_(Worker!vars)
         /\ on = "export" => [Vmware!ExportNext]_(Vmware!vars)
<1>1. CASE UNCHANGED mcVars
  BY <1>1 DEF mcVars, replication, setup, export, Replicator!vars, Worker!vars, Vmware!vars
<1>2. CASE MCNext
  BY <1>2 DEF MCNext, CallerSteps, SenderSteps, EncoderSteps, SetupSteps, NotWriter
<1> QED
  BY <1>1, <1>2

LEMMA NextPath ==
  ASSUME PathInv, [MCNext]_mcVars
  PROVE  PathInv' /\ (on = "export" => Vmware!DetachesItsOwn)
BY StepOfOne, NextReplica, NextSetup, NextExport DEF PathInv

LEMMA PathInvariant == MCSpec => []PathInv
<1>1. MCInit => PathInv
  BY InitPath
<1>2. PathInv /\ [MCNext]_mcVars => PathInv'
  BY NextPath
<1> QED
  BY <1>1, <1>2, PTL DEF MCSpec

\* A call of replicate_disks which returns has brought the disks up to date, and what
\* the saved state says was sent is on the destination, unless a call has raised or
\* returned early; nothing is written past the ends of the disks: for any number of
\* disks, chunks and calls, whatever the guest writes between them.
THEOREM CallsReplicate == MCSpec => []CallReplicates
<1>1. PathInv => CallReplicates
  BY ReplicaPromises DEF PathInv, CallReplicates
<1> QED
  BY <1>1, PathInvariant, PTL

\* Once the replicator, or the HTTP writer, is set up on a worker, its service runs
\* there, and on a fresh worker with the state of this execution, however many attempts
\* the steps of the setup took; only a writer's under upstart may not, if its start
\* failed once.
THEOREM WorkersAreReady == MCSpec => []WorkerReady
<1>1. PathInv => WorkerReady
  BY SetupPromises DEF PathInv, WorkerReady
<1> QED
  BY <1>1, PathInvariant, PTL

\* _detach_disks_from_worker takes no disk of another instance from the worker,
\* although it goes by the units which the instance remembers.
THEOREM CleanupsDetachTheirOwn == MCSpec => ExportDetachesItsOwn
<1>1. PathInv /\ [MCNext]_mcVars => [on = "export" => Vmware!DetachesItsOwn]_mcVars
  BY NextPath
<1> QED
  BY <1>1, PathInvariant, PTL DEF MCSpec, ExportDetachesItsOwn

\* Once the tasks of all instances are over, and no call has failed, the worker which
\* they share has none of their disks.
THEOREM WorkerIsLeftEmpty == MCSpec => [](on = "export" => Vmware!NothingAttached)
<1>1. PathInv => (on = "export" => Vmware!NothingAttached)
  BY ExportPromises DEF PathInv
<1> QED
  BY <1>1, PathInvariant, PTL
=============================================================================

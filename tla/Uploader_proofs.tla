---------------------------- MODULE Uploader_proofs ----------------------------
(***************************************************************************)
(* gmf-remote never works on more than MAX_CONCURRENCY chunks and tries    *)
(* each one the client lacks, and what it announces is stored, announced   *)
(* once, and followed by UploadCompleted at the end, for every file,       *)
(* channel and concurrency.                                                *)
(*                                                                         *)
(* The first two rest on the bookkeeping of the start task: in_flight      *)
(* counts the tasks in join_set, every task that works is in join_set, and *)
(* a chunk is waiting in iter, spawned, or was never asked for.  The other *)
(* three rest on where an upload stands: an object is in the bucket from   *)
(* its PUT on, and a line is there only if the task that sent it is done.  *)
(***************************************************************************)
EXTENDS Uploader, FiniteSetTheorems, SequenceTheorems, TLAPS

TaskTypeOK ==
  /\ start \in StartPc
  /\ r_bitmap \in SUBSET Chunk
  /\ iter \in SUBSET Chunk
  /\ uploads \in SUBSET Chunk
  /\ upload \in [Chunk -> UploadPc]

Counted ==
  /\ IsFiniteSet(uploads)
  /\ in_flight = Cardinality(uploads)
  /\ in_flight <= MAX_CONCURRENCY

Placed ==
  /\ \A c \in iter : upload[c] = "idle"
  /\ \A c \in uploads : upload[c] # "idle"
  /\ \A c \in Chunk \ uploads : upload[c] \in {"idle"} \cup Over
  /\ start = "off" => iter = {} /\ uploads = {}
                      /\ \A c \in Chunk : upload[c] = "idle"
  /\ start # "off" =>
       \A c \in Chunk \ (r_bitmap \cup iter) : upload[c] # "idle"
  /\ main = "waiting" => start # "off"

(* The start task ends its loop only with both hands empty; it may still   *)
(* have chunks to try if it saw the token.                                 *)
Emptied ==
  /\ start = "reap" /\ ~shutdown /\ iter # {} => in_flight > 0
  /\ start = "completing" => uploads = {} /\ iter = {}
  /\ start = "exit" => uploads = {}

StartInv == TaskTypeOK /\ Counted /\ Placed /\ Emptied

-----------------------------------------------------------------------------
(* What a Spawn and a Reap do to the count.                                *)
LEMMA SpawnCounts ==
  ASSUME NEW S, IsFiniteSet(S), NEW c, c \notin S
  PROVE  /\ IsFiniteSet(S \cup {c})
         /\ Cardinality(S \cup {c}) = Cardinality(S) + 1
  BY FS_AddElement

(* And the count without one.                                              *)
LEMMA ReapCounts ==
  ASSUME NEW S, IsFiniteSet(S), NEW c \in S
  PROVE  /\ IsFiniteSet(S \ {c})
         /\ Cardinality(S \ {c}) = Cardinality(S) - 1
         /\ Cardinality(S) \in Nat
  BY FS_RemoveElement, FS_CardinalityType

(* The types of the start task and its uploads.                            *)
LEMMA TaskTypeStep == TaskTypeOK /\ [UploadNext]_upload_vars => TaskTypeOK'
  BY DEF TaskTypeOK, StartPc, UploadPc, UploadNext, upload_vars, task, StartRequest, Start,
         Prewarm, SpawnUpload, Prewarmed, Reap, ReapOnly, ReapAndSpawn, Finish,
         SendCompleted, UploadChunk, UploadAt, ReadAndSeal, ReadFails, PutObject,
         PutObjectFails, SendReady, CancelUpload, PrintLine, Main, EndOfInput,
         StartJoined, AbortStart, DropStart, Drained,
         StdoutCloses, PrintPanics, EditSource, Taken

(* in_flight is the number of tasks in the set, prewarmed, reaped or       *)
(* replaced.                                                               *)
LEMMA CountStep == StartInv /\ [UploadNext]_upload_vars => Counted'
<1> SUFFICES ASSUME StartInv, [UploadNext]_upload_vars PROVE Counted'
  OBVIOUS
<1> USE DEF StartInv, TaskTypeOK, Counted, Placed
<1>1. ASSUME Prewarm PROVE Counted'
  <2>1. PICK c \in Chunk : SpawnUpload(c) /\ uploads' = uploads \cup {c}
    BY <1>1 DEF Prewarm
  <2>2. c \notin uploads
    BY <2>1 DEF SpawnUpload
  <2> QED
    BY <1>1, <2>1, <2>2, SpawnCounts, FS_CardinalityType, ConcurrencyAssumption
       DEF Prewarm
<1>2. ASSUME NEW c \in Chunk, Reap(c) PROVE Counted'
  <2>1. c \in uploads /\ upload[c] # "idle"
    BY <1>2 DEF Reap
  <2>2. CASE ReapOnly(c)
    BY <2>1, <2>2, ReapCounts, ConcurrencyAssumption DEF ReapOnly
  <2>3. CASE ReapAndSpawn(c)
    <3>1. PICK d \in Chunk : SpawnUpload(d) /\ uploads' = (uploads \ {c}) \cup {d}
      BY <2>3 DEF ReapAndSpawn
    <3>2. d \notin uploads
      BY <3>1 DEF SpawnUpload
    <3>3. /\ IsFiniteSet(uploads')
          /\ Cardinality(uploads') = Cardinality(uploads)
      <4>1. /\ IsFiniteSet(uploads \ {c})
            /\ Cardinality(uploads \ {c}) = Cardinality(uploads) - 1
            /\ Cardinality(uploads) \in Nat
        BY <2>1, ReapCounts
      <4>2. /\ IsFiniteSet((uploads \ {c}) \cup {d})
            /\ Cardinality((uploads \ {c}) \cup {d})
                 = Cardinality(uploads \ {c}) + 1
        BY <3>2, <4>1, SpawnCounts
      <4> QED
        BY <3>1, <4>1, <4>2
    <3> QED
      BY <2>3, <3>3 DEF ReapAndSpawn
  <2> QED
    BY <1>2, <2>2, <2>3 DEF Reap
<1>3. ASSUME ~Prewarm, \A c \in Chunk : ~Reap(c)
      PROVE  UNCHANGED <<uploads, in_flight>>
  BY <1>3 DEF UploadNext, upload_vars, task, StartRequest, Start, Prewarmed, Finish,
         SendCompleted, UploadChunk, ReadAndSeal, ReadFails, PutObject,
         PutObjectFails, SendReady, CancelUpload, PrintLine, Main, EndOfInput,
         StartJoined, AbortStart, DropStart, Drained,
         StdoutCloses, PrintPanics, EditSource, Taken
<1> QED
  BY <1>1, <1>2, <1>3

(* A chunk is in one place: waiting, spawned or not asked for.             *)
LEMMA PlaceStep == StartInv /\ [UploadNext]_upload_vars => Placed'
<1> SUFFICES ASSUME StartInv, [UploadNext]_upload_vars PROVE Placed'
  OBVIOUS
<1> USE DEF StartInv, TaskTypeOK, StartPc, UploadPc, Placed, Over, Emptied
<1>1. ASSUME NEW done \in SUBSET Chunk, StartRequest(done)
      PROVE  Placed'
  BY <1>1 DEF StartRequest
<1>2. CASE Prewarm
  BY <1>2 DEF Prewarm, SpawnUpload
<1>3. CASE Prewarmed
  BY <1>3 DEF Prewarmed
<1>4. ASSUME NEW c \in Chunk, Reap(c)
      PROVE  Placed'
  BY <1>4 DEF Reap, ReapOnly, ReapAndSpawn, SpawnUpload
<1>5. CASE Finish
  BY <1>5 DEF Finish
<1>6. CASE SendCompleted
  BY <1>6 DEF SendCompleted
<1>7. ASSUME NEW c \in Chunk, UploadChunk(c)
      PROVE  Placed'
  BY <1>7 DEF UploadChunk, UploadAt, ReadAndSeal, ReadFails, PutObject,
                PutObjectFails, SendReady, CancelUpload, task
<1>8. CASE Main \/ PrintPanics
  <2>1. CASE AbortStart \/ PrintPanics
    <3>1. \A c \in Chunk :
            upload'[c] = IF c \in uploads /\ upload[c] \notin Over
                         THEN "cancelled" ELSE upload[c]
      BY <2>1 DEF AbortStart, PrintPanics, DropStart
    <3>2. UNCHANGED <<r_bitmap, iter, uploads>>
      BY <2>1 DEF AbortStart, PrintPanics
    <3>3. start' # "off" <=> start # "off"
      BY <2>1 DEF AbortStart, PrintPanics, DropStart
    <3>4. main' # "waiting"
      BY <2>1 DEF AbortStart, PrintPanics
    <3> QED
      BY <3>1, <3>2, <3>3, <3>4
  <2>2. CASE EndOfInput \/ StartJoined \/ Drained
    BY <2>2 DEF EndOfInput, StartJoined, Drained, task
  <2> QED
    BY <1>8, <2>1, <2>2 DEF Main
<1>9. ASSUME \/ PrintLine \/ StdoutCloses \/ EditSource \/ UNCHANGED upload_vars
             \/ \E c \in Chunk : Taken(c)
      PROVE  Placed'
  BY <1>9 DEF PrintLine, StdoutCloses, EditSource, Taken, upload_vars, task
<1> QED
  BY <1>1, <1>2, <1>3, <1>4, <1>5, <1>6, <1>7, <1>8, <1>9 DEF UploadNext, Start

(* The start task completes with nothing waiting and no task left.         *)
LEMMA EmptyStep == StartInv /\ [UploadNext]_upload_vars => Emptied'
<1> SUFFICES ASSUME StartInv, [UploadNext]_upload_vars PROVE Emptied'
  OBVIOUS
<1> USE DEF StartInv, TaskTypeOK, StartPc, Counted, Emptied
<1> in_flight \in Nat /\ (in_flight = 0 => uploads = {})
  BY FS_CardinalityType, FS_EmptySet
<1>1. ASSUME NEW done \in SUBSET Chunk, StartRequest(done)
      PROVE  Emptied'
  BY <1>1 DEF StartRequest
<1>2. CASE Prewarm
  BY <1>2 DEF Prewarm, SpawnUpload
<1>3. CASE Prewarmed
  BY <1>3, ConcurrencyAssumption DEF Prewarmed
<1>4. ASSUME NEW c \in Chunk, Reap(c)
      PROVE  Emptied'
  BY <1>4 DEF Reap, ReapOnly, ReapAndSpawn, SpawnUpload
<1>5. CASE Finish
  BY <1>5 DEF Finish
<1>6. CASE SendCompleted
  BY <1>6 DEF SendCompleted
<1>7. ASSUME NEW c \in Chunk, UploadChunk(c)
      PROVE  Emptied'
  BY <1>7 DEF UploadChunk, UploadAt, ReadAndSeal, ReadFails, PutObject,
                PutObjectFails, SendReady, CancelUpload, task
<1>8. CASE Main \/ PrintPanics
  BY <1>8 DEF Main, EndOfInput, StartJoined, AbortStart, DropStart, Drained, PrintPanics, task
<1>9. ASSUME \/ PrintLine \/ StdoutCloses \/ EditSource \/ UNCHANGED upload_vars
             \/ \E c \in Chunk : Taken(c)
      PROVE  Emptied'
  BY <1>9 DEF PrintLine, StdoutCloses, EditSource, Taken, upload_vars, task
<1> QED
  BY <1>1, <1>2, <1>3, <1>4, <1>5, <1>6, <1>7, <1>8, <1>9 DEF UploadNext, Start

(* The bookkeeping of the start task, in every state.                      *)
LEMMA StartInvariance == UploadSpec => []StartInv
<1>1. UploadInit => StartInv
  BY FS_EmptySet, ConcurrencyAssumption
     DEF UploadInit, StartInv, TaskTypeOK, StartPc, UploadPc, Counted, Placed, Over,
         Emptied
<1>2. StartInv /\ [UploadNext]_upload_vars => StartInv'
  BY TaskTypeStep, CountStep, PlaceStep, EmptyStep DEF StartInv
<1> QED
  BY <1>1, <1>2, PTL DEF UploadSpec

(* At most MAX_CONCURRENCY chunks are being read, encrypted, uploaded or   *)
(* announced, before and after the shutdown (server.rs:98-180).            *)
THEOREM ConcurrencyIsBounded == UploadSpec => []BoundedConcurrency
<1>1. StartInv => BoundedConcurrency
  <2> SUFFICES ASSUME StartInv PROVE BoundedConcurrency
    OBVIOUS
  <2>1. Busy \subseteq uploads
    BY DEF StartInv, Placed, Busy
  <2>2. Cardinality(Busy) <= Cardinality(uploads) /\ Cardinality(Busy) \in Nat
    BY <2>1, FS_Subset, FS_CardinalityType DEF StartInv, Counted
  <2> QED
    BY <2>2, FS_CardinalityType, ConcurrencyAssumption
       DEF StartInv, Counted, BoundedConcurrency
<1> QED
  BY <1>1, StartInvariance, PTL

(* The loop that reaps and spawns (server.rs:131-180) does not end before  *)
(* every chunk without a bit has been tried, unless there is a shutdown.   *)
THEOREM NothingIsSkipped == UploadSpec => []EveryChunkTried
<1>1. StartInv => EveryChunkTried
  BY DEF StartInv, Placed, Emptied, Over, EveryChunkTried
<1> QED
  BY <1>1, StartInvariance, PTL

-----------------------------------------------------------------------------
(* The announcements.  A line that has been handed to the writer belongs   *)
(* to a chunk whose task has succeeded; while it waits in the channel, the *)
(* object in the bucket is the one the task has sealed.                    *)
DataTypeOK ==
  /\ main \in {"serving", "waiting", "draining", "done"}
  /\ shutdown \in BOOLEAN /\ stdout_closed \in BOOLEAN
  /\ outbox \in Seq(Message) /\ Len(outbox) <= Capacity
  /\ stdout \in Seq(Message)
  /\ src \in Content
  /\ sealed \in Bucket /\ bucket \in Bucket

Sealed ==
  \A c \in Chunk : upload[c] \in {"put", "send", "ok"} => sealed[c] \in Object

Wanted == \A c \in Chunk : c \in r_bitmap => upload[c] = "idle" /\ c \notin iter

Stored ==
  /\ \A c \in Chunk : upload[c] = "send" => bucket[c] = sealed[c]
  /\ \A i \in 1 .. Len(outbox) : outbox[i] # UploadCompleted =>
       LET c == outbox[i].chunk_id IN
         bucket[c] = sealed[c] /\ outbox[i].passphrase = sealed[c].key

LinesAreOk ==
  \A i \in 1 .. Len(Lines) :
    IF Lines[i] = UploadCompleted
      THEN i = Len(Lines) /\ start = "exit" /\ Busy = {}
      ELSE upload[Lines[i].chunk_id] = "ok"

Distinct ==
  \A i, j \in 1 .. Len(Lines) :
    /\ Lines[i] # UploadCompleted /\ Lines[j] # UploadCompleted
    /\ Lines[i].chunk_id = Lines[j].chunk_id
    => i = j

Told == DataTypeOK /\ Sealed /\ Wanted /\ LinesAreOk /\ Distinct

LInv == Told /\ Stored

(* What handing over and printing a line do to Lines.                      *)
LEMMA SendAppends ==
  ASSUME NEW S, NEW s \in Seq(S), NEW t \in Seq(S), NEW m \in S
  PROVE  s \o Append(t, m) = Append(s \o t, m)
  OBVIOUS

(* Printing a line leaves Lines as it is.                                  *)
LEMMA PrintMoves ==
  ASSUME NEW S, NEW s \in Seq(S), NEW t \in Seq(S), t # <<>>
  PROVE  Append(s, Head(t)) \o Tail(t) = s \o t
  OBVIOUS

(* A task that is done hands over one line, about its own chunk.           *)
LEMMA ReadyIsALine ==
  ASSUME DataTypeOK, Sealed, NEW c \in Chunk, SendReady(c)
  PROVE  /\ ChunkReady(c, sealed[c].key) \in Message
         /\ Lines \in Seq(Message)
         /\ Lines' = Append(Lines, ChunkReady(c, sealed[c].key))
<1>1. ChunkReady(c, sealed[c].key) \in Message
  BY DEF SendReady, ChunkReady, Message, Object, Sealed
<1> QED
  BY <1>1, SendAppends DEF SendReady, Send, DataTypeOK, Lines

(* Only SendReady and SendCompleted add a line, and they add it at the end. *)
LEMMA LinesChange ==
  DataTypeOK /\ Sealed /\ [UploadNext]_upload_vars =>
    /\ Lines \in Seq(Message)
    /\ \/ Lines' = Lines
       \/ \E c \in Chunk : SendReady(c) /\ Lines' = Append(Lines, ChunkReady(c, sealed[c].key))
       \/ SendCompleted /\ Lines' = Append(Lines, UploadCompleted)
<1> SUFFICES ASSUME DataTypeOK, Sealed, [UploadNext]_upload_vars
             PROVE  /\ Lines \in Seq(Message)
                    /\ \/ Lines' = Lines
                       \/ \E c \in Chunk :
                            SendReady(c) /\ Lines' = Append(Lines, ChunkReady(c, sealed[c].key))
                       \/ SendCompleted /\ Lines' = Append(Lines, UploadCompleted)
  OBVIOUS
<1> USE DEF DataTypeOK, Lines
<1>1. Lines \in Seq(Message)
  OBVIOUS
<1>2. CASE PrintLine
  BY <1>2, PrintMoves DEF PrintLine
<1>3. ASSUME NEW c \in Chunk, SendReady(c)
      PROVE  Lines' = Append(Lines, ChunkReady(c, sealed[c].key))
  BY <1>3, ReadyIsALine
<1>4. ASSUME SendCompleted PROVE Lines' = Append(Lines, UploadCompleted)
  BY <1>4, SendAppends DEF SendCompleted, Send, Message
<1>5. ASSUME ~PrintLine, ~SendCompleted, \A c \in Chunk : ~SendReady(c)
      PROVE  UNCHANGED <<outbox, stdout>>
  BY <1>5 DEF UploadNext, upload_vars, task, StartRequest, Start, Prewarm, SpawnUpload, Prewarmed,
              Reap,
              ReapOnly, ReapAndSpawn, Finish, UploadChunk, UploadAt, ReadAndSeal, ReadFails,
              PutObject, PutObjectFails, CancelUpload, Main, EndOfInput, StartJoined,
              AbortStart, DropStart, Drained,
         StdoutCloses, PrintPanics, EditSource, Taken
<1> QED
  BY <1>1, <1>2, <1>3, <1>4, <1>5

(* What is settled stays settled: a task that has succeeded, and a start   *)
(* task that has ended with no task left.                                  *)
OkStays(c) == upload[c] = "ok" => upload'[c] = "ok"
QuietStays == start = "exit" /\ Busy = {} => start' = "exit" /\ Busy' = {}

(* No step takes back a success, or starts a task after start has ended.   *)
LEMMA SettledStep ==
  StartInv /\ [UploadNext]_upload_vars => QuietStays /\ \A c \in Chunk : OkStays(c)
<1> SUFFICES ASSUME StartInv, [UploadNext]_upload_vars
             PROVE  QuietStays /\ \A c \in Chunk : OkStays(c)
  OBVIOUS
<1> USE DEF StartInv, TaskTypeOK, Placed, Busy, Over, UploadPc, OkStays, QuietStays
<1>1. ASSUME NEW done \in SUBSET Chunk, StartRequest(done)
      PROVE  QuietStays /\ \A c \in Chunk : OkStays(c)
  BY <1>1 DEF StartRequest
<1>2. CASE Start
  BY <1>2 DEF Start, Prewarm, SpawnUpload, Prewarmed, Reap, ReapOnly, ReapAndSpawn, Finish,
              SendCompleted
<1>3. ASSUME NEW c \in Chunk, UploadChunk(c)
      PROVE  QuietStays /\ \A d \in Chunk : OkStays(d)
  <2>1. upload[c] \in {"read", "put", "send"}
    BY <1>3 DEF UploadChunk, ReadAndSeal, ReadFails, PutObject, PutObjectFails,
                SendReady, CancelUpload
  <2>2. \A d \in Chunk \ {c} : upload'[d] = upload[d]
    BY <1>3 DEF UploadChunk, UploadAt, ReadAndSeal, ReadFails, PutObject, PutObjectFails,
                SendReady, CancelUpload
  <2>3. c \in Busy
    BY <2>1
  <2> QED
    BY <2>1, <2>2, <2>3
<1>4. CASE Main \/ PrintPanics
  BY <1>4 DEF Main, EndOfInput, StartJoined, AbortStart, DropStart, Drained, PrintPanics, task
<1>5. ASSUME \/ PrintLine \/ StdoutCloses \/ EditSource \/ UNCHANGED upload_vars
             \/ \E c \in Chunk : Taken(c)
      PROVE  QuietStays /\ \A c \in Chunk : OkStays(c)
  BY <1>5 DEF PrintLine, StdoutCloses, EditSource, Taken, upload_vars, task
<1> QED
  BY <1>1, <1>2, <1>3, <1>4, <1>5 DEF UploadNext

(* A task seals its chunk once, before the PUT; the object changes with    *)
(* the task's own PUT and by the hand of a client that has been told.      *)
SealStep(c) == sealed'[c] # sealed[c] => upload[c] = "read"
PutStep(c) == bucket'[c] # bucket[c] => upload[c] = "put" \/ Announced(c)
SendStep(c) ==
  upload'[c] = "send" =>
    \/ upload[c] = "send"
    \/ upload[c] = "put" /\ bucket'[c] = sealed[c] /\ sealed'[c] = sealed[c]

(* Every step respects that.                                               *)
LEMMA ObjectStep ==
  StartInv /\ DataTypeOK /\ [UploadNext]_upload_vars =>
    \A c \in Chunk : SealStep(c) /\ PutStep(c) /\ SendStep(c)
<1> SUFFICES ASSUME StartInv, DataTypeOK, [UploadNext]_upload_vars, NEW c \in Chunk
             PROVE  SealStep(c) /\ PutStep(c) /\ SendStep(c)
  OBVIOUS
<1> USE DEF StartInv, TaskTypeOK, DataTypeOK, Bucket, SealStep, PutStep, SendStep
<1>1. ASSUME NEW done \in SUBSET Chunk, StartRequest(done)
      PROVE  SealStep(c) /\ PutStep(c) /\ SendStep(c)
  BY <1>1 DEF StartRequest
<1>2. CASE Start
  BY <1>2 DEF Start, Prewarm, SpawnUpload, Prewarmed, Reap, ReapOnly, ReapAndSpawn, Finish,
              SendCompleted
<1>3. ASSUME NEW d \in Chunk, UploadChunk(d)
      PROVE  SealStep(c) /\ PutStep(c) /\ SendStep(c)
  <2>1. ASSUME NEW k \in Key, ReadAndSeal(d, k)
        PROVE  SealStep(c) /\ PutStep(c) /\ SendStep(c)
    BY <2>1 DEF ReadAndSeal, UploadAt
  <2>2. CASE ReadFails(d) \/ SendReady(d)
    BY <2>2 DEF ReadFails, SendReady, UploadAt
  <2>3. CASE PutObject(d)
    BY <2>3 DEF PutObject, UploadAt, put_object
  <2>4. CASE PutObjectFails(d) \/ CancelUpload(d)
    BY <2>4 DEF PutObjectFails, CancelUpload, UploadAt, put_object, MaybeDone
  <2> QED
    BY <1>3, <2>1, <2>2, <2>3, <2>4 DEF UploadChunk
<1>4. CASE AbortStart \/ PrintPanics
  BY <1>4 DEF AbortStart, PrintPanics, DropStart
<1>5. CASE \/ EndOfInput \/ StartJoined \/ Drained \/ PrintLine \/ StdoutCloses
           \/ EditSource \/ UNCHANGED upload_vars
  BY <1>5 DEF EndOfInput, StartJoined, Drained, PrintLine, StdoutCloses, EditSource,
              upload_vars, task
<1>6. ASSUME NEW d \in Chunk, Taken(d)
      PROVE  SealStep(c) /\ PutStep(c) /\ SendStep(c)
  BY <1>6 DEF Taken, delete_object
<1> QED
  BY <1>1, <1>2, <1>3, <1>4, <1>5, <1>6 DEF UploadNext, Main

(* The types, a variable or two at a time.                                 *)
LEMMA ChannelStep ==
  ASSUME StartInv, Told, [UploadNext]_upload_vars
  PROVE  /\ outbox' \in Seq(Message) /\ Len(outbox') <= Capacity
         /\ stdout' \in Seq(Message)
<1> USE DEF Told, DataTypeOK
<1>1. CASE SendCompleted
  <2>1. UploadCompleted \in Message
    BY DEF Message
  <2>2. outbox' = Append(outbox, UploadCompleted) /\ stdout' = stdout
    BY <1>1 DEF SendCompleted, Send
  <2>3. Len(outbox) < Capacity
    BY <1>1 DEF SendCompleted, Send
  <2> QED
    BY <2>1, <2>2, <2>3, CapacityAssumption
<1>2. ASSUME NEW c \in Chunk, SendReady(c)
      PROVE  /\ outbox' \in Seq(Message) /\ Len(outbox') <= Capacity
             /\ stdout' \in Seq(Message)
  <2>1. ChunkReady(c, sealed[c].key) \in Message
    BY <1>2 DEF SendReady, ChunkReady, Message, Object, Sealed
  <2>2. outbox' = Append(outbox, ChunkReady(c, sealed[c].key)) /\ stdout' = stdout
    BY <1>2 DEF SendReady, Send
  <2>3. Len(outbox) < Capacity
    BY <1>2 DEF SendReady, Send
  <2> QED
    BY <2>1, <2>2, <2>3, CapacityAssumption
<1>3. CASE PrintLine
  <2>1. /\ Head(outbox) \in Message
        /\ Tail(outbox) \in Seq(Message) /\ Len(Tail(outbox)) = Len(outbox) - 1
    BY <1>3, HeadTailProperties DEF PrintLine
  <2> QED
    BY <1>3, <2>1, CapacityAssumption DEF PrintLine
<1>4. ASSUME ~PrintLine, ~SendCompleted, \A c \in Chunk : ~SendReady(c)
      PROVE  UNCHANGED <<outbox, stdout>>
  BY <1>4 DEF UploadNext, upload_vars, task, StartRequest, Start, Prewarm, SpawnUpload, Prewarmed,
              Reap,
              ReapOnly, ReapAndSpawn, Finish, UploadChunk, UploadAt, ReadAndSeal, ReadFails,
              PutObject, PutObjectFails, CancelUpload, Main, EndOfInput, StartJoined,
              AbortStart, DropStart, Drained,
         StdoutCloses, PrintPanics, EditSource, Taken
<1> QED
  BY <1>1, <1>2, <1>3, <1>4

(* What is sealed and what is stored are objects.                          *)
LEMMA BucketStep ==
  ASSUME StartInv, Told, [UploadNext]_upload_vars
  PROVE  sealed' \in Bucket /\ bucket' \in Bucket
<1> USE DEF Told, DataTypeOK, Bucket
<1>1. ASSUME NEW c \in Chunk, NEW k \in Key, ReadAndSeal(c, k)
      PROVE  sealed' \in Bucket /\ bucket' \in Bucket
  <2>1. [key |-> k, data |-> src] \in Object
    BY DEF Object
  <2> QED
    BY <1>1, <2>1 DEF ReadAndSeal
<1>2. ASSUME NEW c \in Chunk, PutObject(c) \/ PutObjectFails(c) \/ CancelUpload(c)
      PROVE  sealed' \in Bucket /\ bucket' \in Bucket
  <2>1. put_object(bucket, c, sealed[c]) \in Bucket
    BY DEF put_object
  <2> QED
    BY <1>2, <2>1 DEF PutObject, PutObjectFails, CancelUpload, MaybeDone
<1>3. CASE AbortStart \/ PrintPanics
  BY <1>3 DEF AbortStart, PrintPanics, DropStart
<1>4. ASSUME NEW c \in Chunk, Taken(c)
      PROVE  sealed' \in Bucket /\ bucket' \in Bucket
  BY <1>4 DEF Taken, delete_object
<1>5. ASSUME \A c \in Chunk :
               /\ \A k \in Key : ~ReadAndSeal(c, k)
               /\ ~(PutObject(c) \/ PutObjectFails(c) \/ CancelUpload(c))
               /\ ~Taken(c),
             ~AbortStart, ~PrintPanics
      PROVE  UNCHANGED <<sealed, bucket>>
  BY <1>5 DEF UploadNext, upload_vars, task, StartRequest, Start, Prewarm, SpawnUpload, Prewarmed,
              Reap,
              ReapOnly, ReapAndSpawn, Finish, SendCompleted, UploadChunk, ReadFails,
              SendReady, Main, EndOfInput, StartJoined, Drained, PrintLine, StdoutCloses,
              EditSource
<1> QED
  BY <1>1, <1>2, <1>3, <1>4, <1>5

(* A task past its encryption holds an object.                             *)
LEMMA SealedStep == StartInv /\ Told /\ [UploadNext]_upload_vars => Sealed'
<1> SUFFICES ASSUME StartInv, Told, [UploadNext]_upload_vars PROVE Sealed'
  OBVIOUS
<1> USE DEF StartInv, TaskTypeOK, Told, DataTypeOK, Sealed, Bucket
<1>1. ASSUME NEW c \in Chunk, NEW k \in Key, ReadAndSeal(c, k) PROVE Sealed'
  <2>1. [key |-> k, data |-> src] \in Object
    BY DEF Object
  <2> QED
    BY <1>1, <2>1 DEF ReadAndSeal, UploadAt
<1>2. ASSUME \A c \in Chunk : \A k \in Key : ~ReadAndSeal(c, k)
      PROVE  /\ sealed' = sealed
             /\ \A c \in Chunk : upload'[c] \in {"put", "send", "ok"} =>
                  upload[c] \in {"put", "send", "ok"}
  <2>1. CASE Start \/ \E done \in SUBSET Chunk : StartRequest(done)
    BY <2>1 DEF StartRequest, Start, Prewarm, SpawnUpload, Prewarmed, Reap, ReapOnly,
                ReapAndSpawn, Finish, SendCompleted
  <2>2. ASSUME NEW d \in Chunk, UploadChunk(d)
        PROVE  /\ sealed' = sealed
               /\ \A c \in Chunk : upload'[c] \in {"put", "send", "ok"} =>
                    upload[c] \in {"put", "send", "ok"}
    BY <1>2, <2>2 DEF UploadChunk, UploadAt, ReadFails, PutObject, PutObjectFails, SendReady,
                CancelUpload
  <2>3. CASE \/ Main \/ PrintPanics \/ PrintLine \/ StdoutCloses \/ EditSource
             \/ UNCHANGED upload_vars \/ \E c \in Chunk : Taken(c)
    BY <2>3 DEF Main, EndOfInput, StartJoined, AbortStart, DropStart, Drained, PrintLine,
                StdoutCloses, PrintPanics, EditSource,
                Taken, upload_vars, task
  <2> QED
    BY <2>1, <2>2, <2>3 DEF UploadNext
<1> QED
  BY <1>1, <1>2

(* The types of the data.                                                  *)
LEMMA DataStep == StartInv /\ Told /\ [UploadNext]_upload_vars => DataTypeOK'
<1> SUFFICES ASSUME StartInv, Told, [UploadNext]_upload_vars PROVE DataTypeOK'
  OBVIOUS
<1>1. /\ main' \in {"serving", "waiting", "draining", "done"}
      /\ shutdown' \in BOOLEAN /\ stdout_closed' \in BOOLEAN
      /\ src' \in Content
  BY DEF Told, DataTypeOK, Content, UploadNext, upload_vars, task, StartRequest, Start, Prewarm,
         Prewarmed, Reap, Finish, SendCompleted, UploadChunk, ReadAndSeal, ReadFails,
         PutObject, PutObjectFails, SendReady, CancelUpload, PrintLine, Main, EndOfInput,
         StartJoined, AbortStart, DropStart, Drained,
         StdoutCloses, PrintPanics, EditSource, Taken
<1> QED
  BY <1>1, ChannelStep, BucketStep DEF DataTypeOK

(* No task works on a chunk the client has.                                *)
LEMMA WantedStep == StartInv /\ Wanted /\ [UploadNext]_upload_vars => Wanted'
  BY DEF StartInv, TaskTypeOK, Placed, Wanted, Over, StartPc, UploadPc, UploadNext,
         upload_vars, task,
         StartRequest, Start, Prewarm, SpawnUpload, Prewarmed, Reap, ReapOnly, ReapAndSpawn,
         Finish, SendCompleted, UploadChunk, UploadAt, ReadAndSeal, ReadFails, PutObject,
         PutObjectFails, SendReady, CancelUpload, PrintLine, Main, EndOfInput,
         StartJoined, AbortStart, DropStart, Drained,
         StdoutCloses, PrintPanics, EditSource, Taken

(* The two kinds of response are told apart.                               *)
LEMMA MessageFields ==
  /\ \A m \in Message : m # UploadCompleted => m.chunk_id \in Chunk /\ m.passphrase \in Key
  /\ \A c, k : /\ ChunkReady(c, k) # UploadCompleted
               /\ ChunkReady(c, k).chunk_id = c /\ ChunkReady(c, k).passphrase = k
<1>1. \A m \in Message : m # UploadCompleted => m.chunk_id \in Chunk /\ m.passphrase \in Key
  BY DEF Message
<1>2. ASSUME NEW c, NEW k
      PROVE  /\ ChunkReady(c, k) # UploadCompleted
             /\ ChunkReady(c, k).chunk_id = c /\ ChunkReady(c, k).passphrase = k
  <2>1. ChunkReady(c, k).type # UploadCompleted.type
    BY DEF ChunkReady, UploadCompleted
  <2> QED
    BY <2>1 DEF ChunkReady
<1> QED
  BY <1>1, <1>2

(* Where a response that waits in the channel comes from.                  *)
LEMMA OutboxStep ==
  ASSUME StartInv, Told, [UploadNext]_upload_vars,
         NEW i \in 1 .. Len(outbox'), outbox'[i] # UploadCompleted
  PROVE  \/ \E j \in 1 .. Len(outbox) : outbox'[i] = outbox[j]
         \/ \E c \in Chunk : /\ upload[c] = "send" /\ SendReady(c)
                             /\ outbox'[i] = ChunkReady(c, sealed[c].key)
<1> USE DEF Told, DataTypeOK
<1>1. ASSUME NEW m \in Message, Send(m)
      PROVE  \/ \E j \in 1 .. Len(outbox) : outbox'[i] = outbox[j]
             \/ outbox'[i] = m
  BY <1>1 DEF Send
<1>2. CASE SendCompleted
  <2>1. UploadCompleted \in Message
    BY DEF Message
  <2> QED
    BY <1>1, <1>2, <2>1 DEF SendCompleted
<1>3. ASSUME NEW c \in Chunk, SendReady(c)
      PROVE  \/ \E j \in 1 .. Len(outbox) : outbox'[i] = outbox[j]
             \/ upload[c] = "send" /\ outbox'[i] = ChunkReady(c, sealed[c].key)
  <2>1. ChunkReady(c, sealed[c].key) \in Message
    BY <1>3 DEF SendReady, ChunkReady, Message, Object, Sealed
  <2> QED
    BY <1>1, <1>3, <2>1 DEF SendReady
<1>4. CASE PrintLine
  <2>1. outbox' = Tail(outbox) /\ outbox # <<>>
    BY <1>4 DEF PrintLine
  <2>2. Len(outbox') = Len(outbox) - 1 /\ Len(outbox) \in Nat
    BY <2>1, HeadTailProperties
  <2>3. i + 1 \in 1 .. Len(outbox) /\ outbox'[i] = outbox[i + 1]
    BY <2>1, <2>2, HeadTailProperties
  <2> QED
    BY <2>3
<1>5. ASSUME ~PrintLine, ~SendCompleted, \A c \in Chunk : ~SendReady(c)
      PROVE  outbox' = outbox
  BY <1>5 DEF UploadNext, upload_vars, task, StartRequest, Start, Prewarm, SpawnUpload, Prewarmed,
              Reap,
              ReapOnly, ReapAndSpawn, Finish, UploadChunk, UploadAt, ReadAndSeal, ReadFails,
              PutObject, PutObjectFails, CancelUpload, Main, EndOfInput, StartJoined,
              AbortStart, DropStart, Drained,
         StdoutCloses, PrintPanics, EditSource, Taken
<1> QED
  BY <1>2, <1>3, <1>4, <1>5

(* A chunk whose response waits in the channel has not been printed: the   *)
(* client does not delete what it has not been told of.                    *)
LEMMA WaitingIsUnannounced ==
  ASSUME DataTypeOK, Distinct,
         NEW i \in 1 .. Len(outbox), outbox[i] # UploadCompleted
  PROVE  ~Announced(outbox[i].chunk_id)
<1> SUFFICES ASSUME NEW j \in 1 .. Len(stdout), stdout[j] # UploadCompleted,
                    stdout[j].chunk_id = outbox[i].chunk_id
             PROVE  FALSE
  BY DEF Announced
<1> USE DEF DataTypeOK
<1>1. /\ Len(Lines) = Len(stdout) + Len(outbox)
      /\ Lines[j] = stdout[j] /\ Lines[Len(stdout) + i] = outbox[i]
  BY DEF Lines
<1>2. j \in 1 .. Len(Lines) /\ Len(stdout) + i \in 1 .. Len(Lines)
  BY <1>1
<1>3. j = Len(stdout) + i
  BY <1>1, <1>2 DEF Distinct
<1> QED
  BY <1>3

(* A waiting response and its line.                                        *)
LEMMA WaitingIsALine ==
  ASSUME DataTypeOK, NEW i \in 1 .. Len(outbox)
  PROVE  \E j \in 1 .. Len(Lines) : Lines[j] = outbox[i]
<1>1. Len(stdout) + i \in 1 .. Len(Lines) /\ Lines[Len(stdout) + i] = outbox[i]
  BY DEF Lines, DataTypeOK
<1> QED
  BY <1>1

(* An object that waits to be announced is the one its task has sealed.    *)
LEMMA StoredStep == StartInv /\ LInv /\ [UploadNext]_upload_vars => Stored'
<1> SUFFICES ASSUME StartInv, LInv, [UploadNext]_upload_vars PROVE Stored'
  OBVIOUS
<1>0. \A c \in Chunk : SealStep(c) /\ PutStep(c) /\ SendStep(c)
  BY ObjectStep DEF LInv, Told
<1>1. ASSUME NEW c \in Chunk, upload'[c] = "send" PROVE bucket'[c] = sealed'[c]
  <2>1. CASE upload[c] = "send"
    <3>1. ~Announced(c)
      <4>1. ASSUME NEW j \in 1 .. Len(stdout), stdout[j] # UploadCompleted
            PROVE  upload[stdout[j].chunk_id] = "ok"
        <5>1. j \in 1 .. Len(Lines) /\ Lines[j] = stdout[j]
          BY DEF LInv, Told, DataTypeOK, Lines
        <5> QED
          BY <4>1, <5>1 DEF LInv, Told, LinesAreOk
      <4> QED
        BY <2>1, <4>1 DEF Announced
    <3> QED
      BY <1>0, <2>1, <3>1 DEF SealStep, PutStep, LInv, Told, Stored
  <2>2. CASE upload[c] # "send"
    BY <1>0, <1>1, <2>2 DEF SendStep
  <2> QED
    BY <2>1, <2>2
<1>2. ASSUME NEW i \in 1 .. Len(outbox'), outbox'[i] # UploadCompleted
      PROVE  /\ bucket'[outbox'[i].chunk_id] = sealed'[outbox'[i].chunk_id]
             /\ outbox'[i].passphrase = sealed'[outbox'[i].chunk_id].key
  <2>1. ASSUME NEW j \in 1 .. Len(outbox), outbox'[i] = outbox[j]
        PROVE  /\ bucket'[outbox'[i].chunk_id] = sealed'[outbox'[i].chunk_id]
               /\ outbox'[i].passphrase = sealed'[outbox'[i].chunk_id].key
    <3> DEFINE c == outbox[j].chunk_id
    <3>1. c \in Chunk
      BY <1>2, <2>1, MessageFields DEF LInv, Told, DataTypeOK
    <3>2. upload[c] = "ok"
      BY <1>2, <2>1, WaitingIsALine DEF LInv, Told, LinesAreOk
    <3>3. ~Announced(c)
      BY <1>2, <2>1, WaitingIsUnannounced DEF LInv, Told
    <3>4. bucket'[c] = bucket[c] /\ sealed'[c] = sealed[c]
      BY <1>0, <3>1, <3>2, <3>3 DEF SealStep, PutStep
    <3>5. bucket[c] = sealed[c] /\ outbox[j].passphrase = sealed[c].key
      BY <1>2, <2>1 DEF LInv, Told, Stored
    <3> QED
      BY <2>1, <3>4, <3>5
  <2>2. ASSUME NEW c \in Chunk, upload[c] = "send", SendReady(c),
               outbox'[i] = ChunkReady(c, sealed[c].key)
        PROVE  /\ bucket'[outbox'[i].chunk_id] = sealed'[outbox'[i].chunk_id]
               /\ outbox'[i].passphrase = sealed'[outbox'[i].chunk_id].key
    <3>1. bucket' = bucket /\ sealed' = sealed
      BY <2>2 DEF SendReady
    <3>2. bucket[c] = sealed[c]
      BY <2>2 DEF LInv, Told, Stored
    <3> QED
      BY <2>2, <3>1, <3>2, MessageFields
  <2> QED
    BY <1>2, <2>1, <2>2, OutboxStep DEF LInv
<1> QED
  BY <1>1, <1>2 DEF Stored

(* Appending a line about a chunk that had none, or the last line of all.  *)
LEMMA LinesStep == StartInv /\ Told /\ [UploadNext]_upload_vars => LinesAreOk' /\ Distinct'
<1> SUFFICES ASSUME StartInv, Told, [UploadNext]_upload_vars PROVE LinesAreOk' /\ Distinct'
  OBVIOUS
<1>1. QuietStays /\ \A c \in Chunk : OkStays(c)
  BY SettledStep
<1>2. Lines \in Seq(Message)
  BY LinesChange DEF Told
<1>3. \A i \in 1 .. Len(Lines) :
        Lines[i] # UploadCompleted => Lines[i].chunk_id \in Chunk
  BY <1>2, MessageFields
<1>4. CASE Lines' = Lines
  BY <1>1, <1>3, <1>4 DEF Told, LinesAreOk, Distinct, QuietStays, OkStays
<1>5. ASSUME NEW c \in Chunk, SendReady(c),
             Lines' = Append(Lines, ChunkReady(c, sealed[c].key))
      PROVE  LinesAreOk' /\ Distinct'
  <2>1. /\ upload[c] = "send" /\ c \in Busy /\ upload'[c] = "ok"
    BY <1>5 DEF SendReady, UploadAt, Busy, Over, StartInv, TaskTypeOK
  <2>2. \A i \in 1 .. Len(Lines) :
          /\ Lines[i] # UploadCompleted
          /\ Lines[i].chunk_id # c
          /\ upload'[Lines[i].chunk_id] = "ok"
    BY <1>1, <1>3, <2>1 DEF Told, LinesAreOk, OkStays
  <2>3. ChunkReady(c, sealed[c].key) \in Message
    BY <1>5, <2>1 DEF Told, DataTypeOK, ChunkReady, Message, Object, Sealed
  <2>4. /\ Len(Lines') = Len(Lines) + 1 /\ Len(Lines) \in Nat
        /\ Lines'[Len(Lines) + 1] = ChunkReady(c, sealed[c].key)
        /\ \A i \in 1 .. Len(Lines) : Lines'[i] = Lines[i]
    BY <1>2, <1>5, <2>3
  <2>5. \A i \in 1 .. Len(Lines') : i \in 1 .. Len(Lines) \/ i = Len(Lines) + 1
    BY <2>4
  <2>6. LinesAreOk'
    BY <2>1, <2>2, <2>4, <2>5, MessageFields DEF LinesAreOk
  <2>7. Distinct'
    BY <2>2, <2>4, <2>5, MessageFields DEF Told, Distinct
  <2> QED
    BY <2>6, <2>7
<1>6. ASSUME SendCompleted, Lines' = Append(Lines, UploadCompleted)
      PROVE  LinesAreOk' /\ Distinct'
  <2>1. start = "completing" /\ start' = "exit" /\ Busy' = Busy /\ upload' = upload
    BY <1>6 DEF SendCompleted, Busy
  <2>2. Busy = {}
    BY <2>1 DEF StartInv, Placed, Emptied, Busy
  <2>3. \A i \in 1 .. Len(Lines) :
          Lines[i] # UploadCompleted /\ upload'[Lines[i].chunk_id] = "ok"
    BY <2>1 DEF Told, LinesAreOk
  <2>4. UploadCompleted \in Message
    BY DEF Message
  <2>5. /\ Len(Lines') = Len(Lines) + 1 /\ Len(Lines) \in Nat
        /\ Lines'[Len(Lines) + 1] = UploadCompleted
        /\ \A i \in 1 .. Len(Lines) : Lines'[i] = Lines[i]
    BY <1>2, <1>6, <2>4
  <2>6. \A i \in 1 .. Len(Lines') : i \in 1 .. Len(Lines) \/ i = Len(Lines) + 1
    BY <2>5
  <2>7. LinesAreOk'
    BY <2>1, <2>2, <2>3, <2>5, <2>6 DEF LinesAreOk
  <2>8. Distinct'
    BY <2>5, <2>6 DEF Told, Distinct
  <2> QED
    BY <2>7, <2>8
<1> QED
  BY <1>4, <1>5, <1>6, LinesChange DEF Told

(* Before the first request there is no line, and no object of this run.   *)
LEMMA StartedLInv == UploadInit => LInv
<1> SUFFICES ASSUME UploadInit PROVE LInv
  OBVIOUS
<1>1. DataTypeOK
  <2>1. outbox \in Seq(Message) /\ stdout \in Seq(Message) /\ Len(outbox) = 0
    BY DEF UploadInit
  <2>2. EmptyBucket \in Bucket
    BY DEF Bucket, EmptyBucket
  <2>3. sealed = EmptyBucket /\ bucket = EmptyBucket
    BY DEF UploadInit
  <2>4. main = "serving" /\ shutdown \in BOOLEAN /\ stdout_closed \in BOOLEAN /\ src \in Content
    BY DEF UploadInit, Content
  <2>5. Len(outbox) <= Capacity
    BY <2>1, CapacityAssumption
  <2> QED
    BY <2>1, <2>2, <2>3, <2>4, <2>5 DEF DataTypeOK
<1>2. Lines = <<>> /\ Len(Lines) = 0
  BY DEF UploadInit, Lines
<1>3. Stored /\ Sealed /\ Wanted
  BY DEF UploadInit, Stored, Sealed, Wanted
<1> QED
  BY <1>1, <1>2, <1>3 DEF LInv, Told, LinesAreOk, Distinct

(* Both invariants together, in every state.                               *)
LEMMA LInvariance == UploadSpec => [](StartInv /\ LInv)
<1>1. StartInv /\ LInv /\ [UploadNext]_upload_vars => LInv'
  BY DataStep, SealedStep, WantedStep, StoredStep, LinesStep DEF LInv, Told
<1> QED
  BY <1>1, StartedLInv, StartInvariance, PTL DEF UploadSpec

(* They contain the types.                                                 *)
LEMMA InvariantTypes == StartInv /\ Told => UploadTypeOK
<1> SUFFICES ASSUME StartInv, Told PROVE UploadTypeOK
  OBVIOUS
<1>1. in_flight \in 0 .. MAX_CONCURRENCY
  BY FS_CardinalityType, ConcurrencyAssumption DEF StartInv, Counted
<1> QED
  BY <1>1 DEF StartInv, Told, TaskTypeOK, DataTypeOK, UploadTypeOK

(* Types, for every file, channel and concurrency.                         *)
THEOREM TypeCorrectness == UploadSpec => []UploadTypeOK
<1>1. StartInv /\ LInv => UploadTypeOK
  BY InvariantTypes DEF LInv
<1> QED
  BY <1>1, LInvariance, PTL

(* A response that waits in the channel names an object that is stored and *)
(* opens with the passphrase in it (server.rs:264-282): nobody deletes or  *)
(* replaces it before the response has been printed.                       *)
THEOREM AnnouncementsAreStored == UploadSpec => []AnnouncedIsStored
<1>1. StartInv /\ LInv => AnnouncedIsStored
  <2> SUFFICES ASSUME StartInv, LInv,
                      NEW i \in 1 .. Len(outbox), outbox[i] # UploadCompleted
               PROVE  /\ bucket[outbox[i].chunk_id] # NoObject
                      /\ bucket[outbox[i].chunk_id].key = outbox[i].passphrase
    BY DEF AnnouncedIsStored
  <2> DEFINE c == outbox[i].chunk_id
  <2>1. c \in Chunk /\ upload[c] = "ok"
    BY WaitingIsALine, MessageFields DEF LInv, Told, LinesAreOk, DataTypeOK
  <2>2. sealed[c] \in Object
    BY <2>1 DEF LInv, Told, Sealed
  <2>3. bucket[c] = sealed[c] /\ outbox[i].passphrase = sealed[c].key
    BY DEF LInv, Told, Stored
  <2> QED
    BY <2>2, <2>3, NoObjectAssumption
<1> QED
  BY <1>1, LInvariance, PTL

(* No chunk is announced twice in answer to one Start, none the client had *)
(* (the iterator of server.rs:98-180 hands out each pending id once).      *)
THEOREM AnnouncementsAreUnique == UploadSpec => []AnnouncedOnce
<1>1. StartInv /\ LInv => AnnouncedOnce
  <2> SUFFICES ASSUME StartInv, LInv,
                      NEW i \in 1 .. Len(Lines), Lines[i] # UploadCompleted
               PROVE  /\ Lines[i].chunk_id \notin r_bitmap
                      /\ \A j \in 1 .. i - 1 : Lines[j] # UploadCompleted
                           => Lines[j].chunk_id # Lines[i].chunk_id
    BY DEF AnnouncedOnce
  <2>1. Lines \in Seq(Message) /\ Len(Lines) \in Nat
    BY DEF LInv, Told, DataTypeOK, Lines
  <2>2. Lines[i].chunk_id \in Chunk /\ upload[Lines[i].chunk_id] = "ok"
    BY <2>1, MessageFields DEF LInv, Told, LinesAreOk
  <2>3. Lines[i].chunk_id \notin r_bitmap
    BY <2>2 DEF LInv, Told, Wanted
  <2>4. ASSUME NEW j \in 1 .. i - 1, Lines[j] # UploadCompleted,
               Lines[j].chunk_id = Lines[i].chunk_id
        PROVE  FALSE
    <3>1. j \in 1 .. Len(Lines) /\ j # i
      BY <2>1
    <3> QED
      BY <2>4, <3>1 DEF LInv, Told, Distinct
  <2> QED
    BY <2>3, <2>4
<1> QED
  BY <1>1, LInvariance, PTL

(* UploadCompleted is the last response, and no task is left that could    *)
(* send another (server.rs:184-187): the client stops listening at it.     *)
THEOREM CompletionIsLast == UploadSpec => []CompletedIsLast
<1>1. StartInv /\ LInv => CompletedIsLast
  BY DEF LInv, Told, LinesAreOk, CompletedIsLast
<1> QED
  BY <1>1, LInvariance, PTL
=============================================================================

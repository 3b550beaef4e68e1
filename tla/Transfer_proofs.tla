---------------------------- MODULE Transfer_proofs ----------------------------
(***************************************************************************)
(* A download from end to end, for every file, every capacity of the       *)
(* channels, every concurrency and any number of sessions and faults: what *)
(* it delivers is intact, no chunk is lost between gmf-remote and the      *)
(* session, what is announced can be fetched, and the loop panics only     *)
(* over a chunk that gmf-remote failed to upload.                          *)
(*                                                                         *)
(* The two halves share the bucket and the lines on stdout.  Neither's     *)
(* invariant speaks of the bucket, so that each survives the other's steps *)
(* (HalvesStep), and the first theorems follow.  The others stand on the   *)
(* lines: Lines is all that gmf-remote has handed over, of which the loop  *)
(* has received the first, and the channel holds those that follow         *)
(* (Follows).  A successful upload has its line (Reported), behind         *)
(* UploadCompleted nothing was left out (Tried), and each line received    *)
(* was acted on, once (Heard).  Then a missing chunk is before its line,   *)
(* on the way with it, or behind it in a task; and at a panic, when the    *)
(* loop has received UploadCompleted and its set is empty (Tallied), the   *)
(* only place left is a failed upload.  The object of a chunk is there     *)
(* from its PUT to the GET of its task (Fetchable), because it is          *)
(* announced once, and is its session's own unless a cut connection or a   *)
(* session in a hurry has left a gmf-remote behind (Own, LeftBehind).      *)
(***************************************************************************)
EXTENDS Transfer, DownloadSession_proofs, Uploader_proofs

RemoteInv == StartInv /\ Told

LinkTypeOK ==
  /\ loop \in LoopPc
  /\ completed_chunks \in 0 .. total_chunks
  /\ join_set \in SUBSET Chunk
  /\ upload_completed \in BOOLEAN
  /\ events \in Seq(Message) /\ Len(events) <= EventCapacity
  /\ dispatcher \in {"off", "up", "stopped"}
  /\ read \in 0 .. Len(stdout)
  /\ session \in 0 .. MaxSessions
  /\ orphaned \in BOOLEAN
  /\ stale \in SUBSET (Chunk \X Object)
  /\ faults \in [FaultKind -> Nat]

(* How far a session can have come while its gmf-remote has not started.   *)
Early == {"down", "opening", "creating"}

Staged ==
  /\ dispatcher = "off" => phase = "down" /\ events = <<>>
  /\ dispatcher = "up" => main = "serving" /\ ~shutdown /\ ~stdout_closed
  /\ dispatcher # "off" => session > 0
  /\ dispatcher # "off" /\ phase \in Early => start = "off"
  /\ session = 0 => start = "off"
  /\ start = "off" => r_bitmap = {}
  /\ loop # "out" => start # "off" /\ phase \notin Early

(* The channel holds the lines that were read last, in order: the loop has *)
(* taken all that came before them.                                        *)
received == read - Len(events)

Follows ==
  /\ Len(events) <= read
  /\ \A i \in 1 .. Len(events) : events[i] = stdout[received + i]

LinkInv == LinkTypeOK /\ Staged /\ Follows

-----------------------------------------------------------------------------
(* The steps of gmf-remote, and those of the client that are the session's *)
(* or leave it alone.                                                      *)
RemoteMove ==
  \/ RequestStart \/ RemoteStart \/ RemotePrint \/ RemoteMain
  \/ \E c \in Chunk : RemoteUpload(c) \/ RemoteUploadFails(c)

(* A session seals with a passphrase of its own.                           *)
LEMMA SessionKey == LinkTypeOK /\ Up => session \in Key
  BY SessionsAreKeys DEF LinkTypeOK, Up

(* A step of gmf-remote is one of the Uploader and leaves the client       *)
(* alone.                                                                  *)
LEMMA RemoteMoves ==
  TypeOK /\ LinkTypeOK /\ RemoteMove => UploadNext /\ Apart
<1> SUFFICES ASSUME TypeOK, LinkTypeOK, RemoteMove PROVE UploadNext /\ Apart
  OBVIOUS
<1>1. CASE RequestStart
  BY <1>1 DEF RequestStart, UploadNext, TypeOK
<1>2. CASE RemoteStart \/ RemotePrint \/ RemoteMain
  BY <1>2 DEF RemoteStart, RemotePrint, RemoteMain, UploadNext, Main
<1>3. ASSUME NEW c \in Chunk, RemoteUpload(c) PROVE UploadNext /\ Apart
  BY <1>3, SessionKey DEF RemoteUpload, UploadNext, UploadChunk
<1>4. ASSUME NEW c \in Chunk, RemoteUploadFails(c) PROVE UploadNext /\ Apart
  BY <1>4 DEF RemoteUploadFails, UploadNext, UploadChunk
<1> QED
  BY <1>1, <1>2, <1>3, <1>4 DEF RemoteMove

(* The first event of the channel, when it is an announcement.             *)
LEMMA HeadIsReady ==
  ASSUME LinkTypeOK, Receive("ChunkReadyForDownload")
  PROVE  /\ Head(events) \in Message /\ Head(events) # UploadCompleted
         /\ Head(events).chunk_id \in Chunk /\ Head(events).passphrase \in Key
<1>1. events \in Seq(Message) /\ events # <<>>
  BY DEF LinkTypeOK, Receive
<1>2. Head(events) \in Message
  BY <1>1, HeadTailProperties
<1>3. Head(events) # UploadCompleted
  BY DEF Receive, UploadCompleted
<1> QED
  BY <1>2, <1>3, MessageFields

(* A step of the loop does nothing to the session but start a task.        *)
LEMMA LoopMoves ==
  LinkTypeOK /\ Loop => (UNCHANGED vars \/ \E c \in Chunk, k \in Key : Spawn(c, k))
<1> SUFFICES ASSUME LinkTypeOK, Loop
             PROVE  UNCHANGED vars \/ \E c \in Chunk, k \in Key : Spawn(c, k)
  OBVIOUS
<1>1. CASE RecvChunkReady
  <2>1. Receive("ChunkReadyForDownload")
        /\ Spawn(Head(events).chunk_id, Head(events).passphrase)
    BY <1>1 DEF RecvChunkReady
  <2> QED
    BY <2>1, HeadIsReady
<1>2. CASE ~RecvChunkReady
  BY <1>2 DEF Loop, Enter, AllDone, Leave, Drain, ReapSuccess, ReapFailure,
              SkipChunkReady, RecvUploadCompleted, AllBranchesDisabled
<1> QED
  BY <1>1, <1>2

(* A step of the session that is not the loop's and not an exit.           *)
TaskMove ==
  Prepare \/ Conclude \/ \E c \in Chunk : Task(c) \/ TaskFails(c)

(* The other steps of the client are the session's own.                    *)
LEMMA TaskMoves == TaskMove => Next /\ Alive
<1> SUFFICES ASSUME TaskMove PROVE Next /\ Alive
  OBVIOUS
<1>1. CASE Prepare \/ Conclude
  BY <1>1 DEF Prepare, Conclude, Next, New, Finalize
<1>2. ASSUME NEW c \in Chunk, Task(c) \/ TaskFails(c) PROVE Next /\ Alive
  BY <1>2 DEF Task, TaskFails, Next, HandleChunk
<1> QED
  BY <1>1, <1>2 DEF TaskMove

(* What one step of the whole can be.                                      *)
LEMMA Kinds ==
  TransferNext =>
    \/ RemoteMove
    \/ StaleUpload
    \/ Dispatch
    \/ ClientLoop
    \/ TaskMove
    \/ Exit /\ Gone
    \/ GiveUp \/ ConnectionCut
    \/ CleanUp
    \/ NewSession /\ (Connect \/ ConnectEarly)
    \/ UNCHANGED world
  BY DEF TransferNext, ClientStep, RemoteStep, Session, RemoteMove, TaskMove,
         Quit, Kill, Connect, ConnectEarly, Finished

-----------------------------------------------------------------------------
(* Neither half's invariant speaks of what the other half does to the      *)
(* bucket.                                                                 *)
LEMMA SessionBears ==
  IInv /\ bucket' \in Bucket /\ UNCHANGED <<disk, memory>> => IInv'
  BY DEF IInv, TypeOK, HasObject, Inv, FinalsIntact, OneSaver, OnlyActiveRuns,
         NotYetMarked, MarkedIsOnDisk, JsonAgrees, Running, disk, memory

(* Nor does the invariant of gmf-remote speak of what the client does.     *)
LEMMA RemoteBears ==
  RemoteInv /\ bucket' \in Bucket /\ UNCHANGED remote => RemoteInv'
<1> SUFFICES ASSUME RemoteInv, bucket' \in Bucket, UNCHANGED remote PROVE RemoteInv'
  OBVIOUS
<1>1. StartInv'
  BY DEF RemoteInv, StartInv, TaskTypeOK, Counted, Placed, Emptied, remote, task
<1>2. DataTypeOK' /\ Sealed' /\ Wanted'
  BY DEF RemoteInv, Told, DataTypeOK, Sealed, Wanted, remote, task
<1>3. LinesAreOk' /\ Distinct'
  BY DEF RemoteInv, Told, LinesAreOk, Distinct, Lines, Busy, remote, task
<1> QED
  BY <1>1, <1>2, <1>3 DEF RemoteInv, Told

(* A new session starts a new gmf-remote.                                  *)
LEMMA RemoteRestarts ==
  RemoteInv /\ FreshRemote /\ UNCHANGED bucket => RemoteInv'
<1> SUFFICES ASSUME RemoteInv, FreshRemote, UNCHANGED bucket PROVE RemoteInv'
  OBVIOUS
<1>1. StartInv'
  BY FS_EmptySet, ConcurrencyAssumption
     DEF FreshRemote, StartInv, TaskTypeOK, StartPc, UploadPc, Counted, Placed, Over,
         Emptied
<1>2. DataTypeOK'
  <2>1. outbox' \in Seq(Message) /\ stdout' \in Seq(Message) /\ Len(outbox') = 0
    BY DEF FreshRemote
  <2>2. sealed' \in Bucket
    BY DEF FreshRemote, Bucket, EmptyBucket
  <2>3. Len(outbox') <= Capacity
    BY <2>1, CapacityAssumption
  <2>4. bucket' \in Bucket /\ src' \in Content
    BY DEF FreshRemote, RemoteInv, Told, DataTypeOK
  <2>5. main' = "serving" /\ shutdown' = FALSE /\ stdout_closed' = FALSE
    BY DEF FreshRemote
  <2> QED
    BY <2>1, <2>2, <2>3, <2>4, <2>5 DEF DataTypeOK
<1>3. Sealed' /\ Wanted'
  BY DEF FreshRemote, Sealed, Wanted
<1>4. Lines' = <<>> /\ Len(Lines') = 0
  BY DEF FreshRemote, Lines
<1> QED
  BY <1>1, <1>2, <1>3, <1>4 DEF RemoteInv, Told, LinesAreOk, Distinct

(* A step of gmf-remote, as the proofs about it take one.                  *)
LEMMA RemoteKeeps ==
  RemoteInv /\ UploadNext => RemoteInv' /\ bucket' \in Bucket
<1> SUFFICES ASSUME RemoteInv, UploadNext PROVE RemoteInv' /\ bucket' \in Bucket
  OBVIOUS
<1>1. StartInv'
  BY TaskTypeStep, CountStep, PlaceStep, EmptyStep DEF RemoteInv, StartInv
<1>2. Told'
  BY DataStep, SealedStep, WantedStep, LinesStep DEF RemoteInv, Told
<1> QED
  BY <1>1, <1>2 DEF RemoteInv, Told, DataTypeOK

(* What a step does to the bucket, if it is not the session's own.         *)
LEMMA BucketStays ==
  LinkTypeOK /\ TypeOK /\ (StaleUpload \/ CleanUp) => bucket' \in Bucket
<1> SUFFICES ASSUME LinkTypeOK, TypeOK, StaleUpload \/ CleanUp PROVE bucket' \in Bucket
  OBVIOUS
<1> USE DEF TypeOK, Bucket
<1>1. CASE StaleUpload
  <2>1. PICK p \in stale : bucket' \in MaybeDone(bucket, put_object(bucket, p[1], p[2]))
    BY <1>1 DEF StaleUpload
  <2>2. p[1] \in Chunk /\ p[2] \in Object
    BY DEF LinkTypeOK
  <2> QED
    BY <2>1, <2>2 DEF MaybeDone, put_object
<1>2. CASE CleanUp
  BY <1>2 DEF CleanUp, EmptyBucket
<1> QED
  BY <1>1, <1>2

(* Both halves keep their invariants, whatever the other one does.         *)
LEMMA HalvesStep ==
  IInv /\ RemoteInv /\ LinkTypeOK /\ [TransferNext]_world =>
    /\ IInv' /\ RemoteInv'
    /\ [Next]_vars \/ UNCHANGED <<disk, memory>>
<1> DEFINE Goal == /\ IInv' /\ RemoteInv'
                   /\ [Next]_vars \/ UNCHANGED <<disk, memory>>
<1> SUFFICES ASSUME IInv, RemoteInv, LinkTypeOK, [TransferNext]_world PROVE Goal
  OBVIOUS
<1>0. TypeOK /\ bucket \in Bucket
  BY DEF IInv, TypeOK
<1>a. ASSUME [Next]_vars, UNCHANGED remote PROVE Goal
  <2>1. IInv'
    BY <1>a, TypeStep, InvStep DEF IInv
  <2>2. bucket' \in Bucket
    BY <2>1 DEF IInv, TypeOK
  <2> QED
    BY <1>a, <2>1, <2>2, RemoteBears
<1>b. ASSUME bucket' \in Bucket, UNCHANGED <<disk, memory>>, UNCHANGED remote PROVE Goal
  BY <1>b, SessionBears, RemoteBears
<1> HIDE DEF Goal
<1>1. CASE RemoteMove
  <2>1. UploadNext /\ UNCHANGED <<disk, memory>>
    BY <1>0, <1>1, RemoteMoves DEF Apart
  <2> QED
    BY <2>1, RemoteKeeps, SessionBears DEF Goal
<1>2. CASE StaleUpload \/ CleanUp
  BY <1>0, <1>2, <1>b, BucketStays DEF StaleUpload, CleanUp
<1>3. CASE Dispatch
  BY <1>3, <1>a DEF Dispatch, vars
<1>4. CASE ClientLoop
  <2>1. UNCHANGED vars \/ \E c \in Chunk, k \in Key : Spawn(c, k)
    BY <1>4, LoopMoves DEF ClientLoop
  <2>2. [Next]_vars
    BY <2>1 DEF Next
  <2> QED
    BY <1>4, <2>2, <1>a DEF ClientLoop, Local
<1>5. CASE TaskMove
  BY <1>5, <1>a, TaskMoves DEF Alive, Local
<1>6. CASE Exit /\ Gone
  BY <1>6, <1>a DEF Exit, Gone, Next
<1>7. CASE GiveUp \/ ConnectionCut \/ UNCHANGED world
  BY <1>7, <1>a DEF GiveUp, ConnectionCut, all_vars, world
<1>8. CASE NewSession
  <2>1. UNCHANGED vars /\ UNCHANGED bucket /\ FreshRemote
    BY <1>8 DEF NewSession, all_vars, vars
  <2>2. IInv'
    BY <2>1, TypeStep, InvStep DEF IInv
  <2> QED
    BY <2>1, <2>2, RemoteRestarts DEF Goal
<1> QED
  BY <1>1, <1>2, <1>3, <1>4, <1>5, <1>6, <1>7, <1>8, Kinds

-----------------------------------------------------------------------------
(* The link between the halves: first its types.                           *)
LEMMA FaultStep ==
  LinkTypeOK /\ [TransferNext]_world =>
    /\ faults' \in [FaultKind -> Nat]
    /\ \A kind \in FaultKind : faults'[kind] >= faults[kind]
<1> SUFFICES ASSUME LinkTypeOK, [TransferNext]_world
             PROVE  /\ faults' \in [FaultKind -> Nat]
                    /\ \A kind \in FaultKind : faults'[kind] >= faults[kind]
  OBVIOUS
<1>1. UNCHANGED faults \/ \E kind \in FaultKind : Fault(kind)
  BY DEF TransferNext, ClientStep, RemoteStep, Session, Finished, world, Harmless,
         FaultKind, Dispatch, ClientLoop, Prepare, Conclude, Task, TaskFails,
         RequestStart, RemoteStart, RemotePrint, RemoteMain, RemoteUpload,
         RemoteUploadFails, StaleUpload, Quit, GiveUp, Kill, ConnectionCut, CleanUp,
         Connect, ConnectEarly
<1> QED
  BY <1>1 DEF Fault, LinkTypeOK

(* gmf-remote only adds to what it has printed and handed to the writer.   *)
LEMMA LinesGrow ==
  ASSUME RemoteInv, UploadNext
  PROVE  /\ Len(stdout) \in Nat /\ Len(stdout') \in Nat /\ Len(stdout) <= Len(stdout')
         /\ \A i \in 1 .. Len(stdout) : stdout'[i] = stdout[i]
         /\ Len(Lines) \in Nat /\ Len(Lines') \in Nat /\ Len(Lines) <= Len(Lines')
         /\ \A i \in 1 .. Len(Lines) : Lines'[i] = Lines[i]
         /\ Len(stdout) <= Len(Lines)
<1>0. /\ outbox \in Seq(Message) /\ stdout \in Seq(Message) /\ Sealed
      /\ stdout' \in Seq(Message)
  BY RemoteKeeps DEF RemoteInv, Told, DataTypeOK
<1>1. stdout' = stdout \/ \E m \in Message : stdout' = Append(stdout, m)
  <2>1. CASE PrintLine
    BY <1>0, <2>1, HeadTailProperties DEF PrintLine
  <2>2. CASE ~PrintLine
    BY <2>2 DEF UploadNext, task, StartRequest, Start, Prewarm, Prewarmed, Reap, Finish,
                SendCompleted, UploadChunk, ReadAndSeal, ReadFails, PutObject,
                PutObjectFails, SendReady, CancelUpload, Main, EndOfInput, StartJoined,
                AbortStart, DropStart, Drained, StdoutCloses, PrintPanics, EditSource, Taken
  <2> QED
    BY <2>1, <2>2
<1>2. Lines \in Seq(Message) /\ (Lines' = Lines \/ \E m \in Message : Lines' = Append(Lines, m))
  <2>1. /\ Lines \in Seq(Message)
        /\ \/ Lines' = Lines
           \/ \E c \in Chunk : SendReady(c) /\ Lines' = Append(Lines, ChunkReady(c, sealed[c].key))
           \/ Lines' = Append(Lines, UploadCompleted)
    BY LinesChange DEF RemoteInv, Told
  <2>2. ASSUME NEW c \in Chunk, SendReady(c) PROVE ChunkReady(c, sealed[c].key) \in Message
    BY <1>0, <2>2 DEF SendReady, ChunkReady, Message, Object, Sealed
  <2>3. UploadCompleted \in Message
    BY DEF Message
  <2> QED
    BY <2>1, <2>2, <2>3
<1>3. Len(stdout) <= Len(Lines)
  BY <1>0 DEF Lines
<1>4. ASSUME NEW s \in Seq(Message), NEW t, t = s \/ \E m \in Message : t = Append(s, m)
      PROVE  /\ Len(s) \in Nat /\ Len(t) \in Nat /\ Len(s) <= Len(t)
             /\ \A i \in 1 .. Len(s) : t[i] = s[i]
  BY <1>4
<1> QED
  BY <1>0, <1>1, <1>2, <1>3, <1>4

(* The loop keeps its counts and its set within the file, and only takes   *)
(* events.                                                                 *)
LEMMA LoopTypes ==
  ASSUME IInv, LinkTypeOK, ClientLoop
  PROVE  /\ loop' \in LoopPc
         /\ completed_chunks' \in 0 .. total_chunks
         /\ join_set' \in SUBSET Chunk
         /\ upload_completed' \in BOOLEAN
         /\ events' = events \/ (events # <<>> /\ events' = Tail(events))
<1> USE DEF LinkTypeOK
<1>1. Cardinality(bitmap) \in 0 .. total_chunks
  BY FileAssumption, FS_Subset, FS_CardinalityType DEF IInv, TypeOK, total_chunks
<1>2. CASE RecvChunkReady
  <2>1. Head(events).chunk_id \in Chunk
    BY <1>2, HeadIsReady DEF RecvChunkReady
  <2> QED
    BY <1>2, <2>1 DEF RecvChunkReady, Receive
<1> DEFINE Quiet == /\ loop' \in LoopPc
                    /\ completed_chunks' \in 0 .. total_chunks
                    /\ join_set' \in SUBSET Chunk
                    /\ upload_completed' \in BOOLEAN
                    /\ events' = events
<1>3. CASE Enter
  <2>1. Quiet
    BY <1>1, <1>3 DEF Enter, LoopPc
  <2> QED
    BY <2>1
<1>4. CASE AllDone \/ Leave \/ AllBranchesDisabled
  <2>1. Quiet
    BY <1>4 DEF AllDone, Leave, AllBranchesDisabled, LoopPc
  <2> QED
    BY <2>1
<1>6. ASSUME NEW c \in Chunk, Drain(c) \/ ReapSuccess(c) \/ ReapFailure(c)
      PROVE  Quiet
  BY <1>1, <1>6 DEF Drain, ReapSuccess, ReapFailure, LoopPc
<1>5. CASE SkipChunkReady \/ RecvUploadCompleted
  BY <1>5 DEF SkipChunkReady, RecvUploadCompleted, Receive, control
<1> QED
  <2>1. Enter \/ AllDone \/ Leave \/ AllBranchesDisabled \/ RecvChunkReady \/ SkipChunkReady
        \/ RecvUploadCompleted \/ \E c \in Chunk : Drain(c) \/ ReapSuccess(c) \/ ReapFailure(c)
    BY DEF ClientLoop, Loop
  <2> HIDE DEF LinkTypeOK
  <2> QED
    BY <2>1, <1>2, <1>3, <1>4, <1>5, <1>6

(* A gmf-remote that was never asked to start has nothing left to upload.  *)
LEMMA NothingPending ==
  StartInv /\ start = "off" =>
    /\ Pending = {}
    /\ iter = {} /\ \A c \in Chunk : upload[c] = "idle"
  BY DEF StartInv, Placed, Pending

(* What a gmf-remote that is left behind may still store are objects.      *)
LEMMA PendingType ==
  StartInv /\ Told /\ LinkTypeOK /\ Staged => Pending \in SUBSET (Chunk \X Object)
<1> SUFFICES ASSUME StartInv, Told, LinkTypeOK, Staged
             PROVE  Pending \in SUBSET (Chunk \X Object)
  OBVIOUS
<1>1. CASE session = 0
  BY <1>1, NothingPending DEF Staged
<1>2. CASE session # 0
  <2>1. session \in Key
    BY <1>2, SessionsAreKeys DEF LinkTypeOK
  <2>2. [key |-> session, data |-> src] \in Object
    BY <2>1 DEF Object, Told, DataTypeOK
  <2> QED
    BY <2>2 DEF Pending, StartInv, TaskTypeOK
<1> QED
  BY <1>1, <1>2

(* Reading one more line keeps the channel typed and within its capacity.  *)
LEMMA DispatchTypes ==
  ASSUME RemoteInv, LinkTypeOK, Dispatch
  PROVE  /\ events' \in Seq(Message) /\ Len(events') <= EventCapacity
         /\ Len(events') = Len(events) + 1
         /\ read' \in 0 .. Len(stdout)
<1>1. stdout \in Seq(Message) /\ events \in Seq(Message) /\ read \in Nat
  BY DEF RemoteInv, Told, DataTypeOK, LinkTypeOK
<1>2. /\ read < Len(stdout) /\ Len(events) < EventCapacity
      /\ events' = Append(events, stdout[read + 1]) /\ read' = read + 1
  BY DEF Dispatch
<1>3. stdout[read + 1] \in Message
  BY <1>1, <1>2
<1>4. Append(events, stdout[read + 1]) \in Seq(Message)
      /\ Len(Append(events, stdout[read + 1])) = Len(events) + 1
  BY <1>1, <1>3
<1> QED
  BY <1>1, <1>2, <1>4, EventCapacityAssumption

(* Taking the first event.                                                 *)
LEMMA TailOfEvents ==
  ASSUME LinkTypeOK, events # <<>>
  PROVE  /\ Tail(events) \in Seq(Message)
         /\ Len(Tail(events)) = Len(events) - 1 /\ Len(events) \in Nat \ {0}
         /\ \A i \in 1 .. Len(Tail(events)) : Tail(events)[i] = events[i + 1]
         /\ Head(events) = events[1]
<1>1. events \in Seq(Message)
  BY DEF LinkTypeOK
<1> QED
  BY <1>1, HeadTailProperties

(* The link keeps its types, whatever moves.                               *)
LEMMA LinkTypeStep ==
  IInv /\ RemoteInv /\ LinkTypeOK /\ Staged /\ [TransferNext]_world => LinkTypeOK'
<1> SUFFICES ASSUME IInv, RemoteInv, LinkTypeOK, Staged, [TransferNext]_world
             PROVE  LinkTypeOK'
  OBVIOUS
<1>0. faults' \in [FaultKind -> Nat]
  BY FaultStep
<1>1. CASE RemoteMove
  <2>1. UploadNext /\ UNCHANGED <<loop_vars, link>>
    BY <1>1, RemoteMoves DEF Apart, IInv
  <2>2. Len(stdout) \in Nat /\ Len(stdout') \in Nat /\ Len(stdout) <= Len(stdout')
    BY <2>1, LinesGrow
  <2>3. read' \in 0 .. Len(stdout')
    BY <2>1, <2>2 DEF LinkTypeOK, link
  <2> QED
    BY <1>0, <2>1, <2>3 DEF LinkTypeOK, loop_vars, control, link
<1>2. CASE StaleUpload
  BY <1>0, <1>2 DEF StaleUpload, LinkTypeOK, loop_vars, control, remote
<1>3. CASE Dispatch
  BY <1>0, <1>3, DispatchTypes DEF Dispatch, LinkTypeOK, control, remote
<1>4. CASE ClientLoop
  <2>1. UNCHANGED <<stdout, link>>
    BY <1>4 DEF ClientLoop, Local, remote
  <2>2. events' \in Seq(Message) /\ Len(events') <= EventCapacity
    <3>1. events' = events \/ (events # <<>> /\ events' = Tail(events))
      BY <1>4, LoopTypes
    <3>2. events \in Seq(Message) /\ Len(events) \in Nat /\ Len(events) <= EventCapacity
      BY DEF LinkTypeOK
    <3>3. events # <<>> => /\ Tail(events) \in Seq(Message)
                          /\ Len(Tail(events)) = Len(events) - 1
      BY TailOfEvents
    <3> QED
      BY <3>1, <3>2, <3>3, EventCapacityAssumption
  <2>3. /\ loop' \in LoopPc /\ completed_chunks' \in 0 .. total_chunks
        /\ join_set' \in SUBSET Chunk /\ upload_completed' \in BOOLEAN
    BY <1>4, LoopTypes
  <2> QED
    BY <1>0, <2>1, <2>2, <2>3 DEF LinkTypeOK, link
<1>5. CASE TaskMove
  BY <1>0, <1>5, TaskMoves DEF Alive, Local, LinkTypeOK, loop_vars, control, remote, link
<1>6. CASE Exit /\ Gone
  <2>1. 0 \in 0 .. total_chunks
    BY FileAssumption, FS_CardinalityType DEF total_chunks
  <2>2. /\ loop' = "out" /\ completed_chunks' = 0 /\ join_set' = {}
        /\ upload_completed' = FALSE /\ dispatcher' = "off"
        /\ UNCHANGED <<stdout, read, session, orphaned, stale>>
    BY <1>6 DEF Exit, Gone, remote
  <2>3. events' \in Seq(Message) /\ Len(events') <= EventCapacity
    <3>1. events' = <<>>
      BY <1>6 DEF Exit
    <3>2. events' \in Seq(Message) /\ Len(events') = 0
      BY <3>1
    <3> QED
      BY <3>2, EventCapacityAssumption
  <2> QED
    BY <1>0, <2>1, <2>2, <2>3 DEF LinkTypeOK, LoopPc
<1>7. CASE GiveUp \/ ConnectionCut
  BY <1>0, <1>7 DEF GiveUp, ConnectionCut, LinkTypeOK, all_vars, loop_vars, control,
                    remote
<1>8. CASE CleanUp \/ UNCHANGED world
  BY <1>0, <1>8 DEF CleanUp, LinkTypeOK, world, all_vars, loop_vars, control, remote,
                    link
<1>9. CASE NewSession
  <2>1. /\ UNCHANGED loop_vars /\ dispatcher' = "up" /\ read' = 0 /\ stdout' = <<>>
        /\ session < MaxSessions /\ session' = session + 1 /\ orphaned' = FALSE
        /\ stale' = stale \/ stale' = stale \cup Pending
    BY <1>9 DEF NewSession, FreshRemote, all_vars
  <2>2. stale' \in SUBSET (Chunk \X Object)
    BY <2>1, PendingType DEF RemoteInv, LinkTypeOK
  <2>3. session' \in 0 .. MaxSessions
    BY <2>1, SessionsAreKeys DEF LinkTypeOK
  <2>4. read' \in 0 .. Len(stdout')
    BY <2>1
  <2> QED
    BY <1>0, <2>1, <2>2, <2>3, <2>4 DEF LinkTypeOK, loop_vars, control
<1> QED
  BY <1>1, <1>2, <1>3, <1>4, <1>5, <1>6, <1>7, <1>8, <1>9, Kinds

-----------------------------------------------------------------------------
(* Where the two halves stand.  Before gmf-remote has been asked to start  *)
(* there is no line.                                                       *)
LEMMA SilentUntilStart ==
  StartInv /\ Told /\ start = "off" => Len(Lines) = 0 /\ Len(stdout) = 0
<1> SUFFICES ASSUME StartInv, Told, start = "off" PROVE Len(Lines) = 0 /\ Len(stdout) = 0
  OBVIOUS
<1>1. /\ outbox \in Seq(Message) /\ stdout \in Seq(Message)
      /\ Lines \in Seq(Message)
  BY DEF Told, DataTypeOK, Lines
<1>2. ASSUME NEW i \in 1 .. Len(Lines) PROVE FALSE
  <2>1. CASE Lines[i] = UploadCompleted
    BY <2>1 DEF Told, LinesAreOk
  <2>2. CASE Lines[i] # UploadCompleted
    <3>1. Lines[i].chunk_id \in Chunk
      BY <1>1, <2>2, MessageFields
    <3>2. upload[Lines[i].chunk_id] = "ok"
      BY <2>2 DEF Told, LinesAreOk
    <3> QED
      BY <3>1, <3>2, NothingPending
  <2> QED
    BY <2>1, <2>2
<1>3. Len(Lines) \in Nat /\ Len(Lines) = Len(stdout) + Len(outbox)
      /\ Len(stdout) \in Nat /\ Len(outbox) \in Nat
  BY <1>1 DEF Lines
<1>4. \A n \in Nat : 1 .. n # {} => 1 \in 1 .. n
  OBVIOUS
<1>5. Len(Lines) = 0
  BY <1>2, <1>3
<1> QED
  BY <1>3, <1>5

(* What gmf-remote's steps do to start, shutdown and its main.             *)
LEMMA RemoteStages ==
  ASSUME StartInv, Staged, RemoteMove
  PROVE  /\ dispatcher = "up" => main' = "serving" /\ ~shutdown' /\ ~stdout_closed'
         /\ start # "off" => start' # "off"
         /\ \/ UNCHANGED r_bitmap /\ (start = "off" <=> start' = "off")
            \/ /\ RequestStart /\ start = "off" /\ start' = "prewarm"
               /\ dispatcher = "up" /\ phase = "active" /\ loop = "out"
               /\ r_bitmap' = bitmap
<1> USE DEF Staged, StartInv, Placed
<1>1. CASE RequestStart
  BY <1>1 DEF RequestStart, StartRequest
<1>2. CASE RemoteStart
  BY <1>2 DEF RemoteStart, Start, Prewarm, Prewarmed, Reap, Finish, SendCompleted
<1>3. CASE RemotePrint
  BY <1>3 DEF RemotePrint, PrintLine, task
<1>4. CASE RemoteMain
  BY <1>4 DEF RemoteMain, EndOfInput, StartJoined, AbortStart, DropStart, Drained,
              StdoutCloses, PrintPanics, task
<1>5. ASSUME NEW c \in Chunk, RemoteUpload(c) \/ RemoteUploadFails(c)
      PROVE  UNCHANGED <<main, shutdown, stdout_closed, start, r_bitmap>>
  BY <1>5 DEF RemoteUpload, RemoteUploadFails, ReadAndSeal, PutObject, SendReady,
              CancelUpload, ReadFails, PutObjectFails, task
<1> QED
  BY <1>1, <1>2, <1>3, <1>4, <1>5 DEF RemoteMove

(* A session's phase never goes back, and it opens its files only over a   *)
(* connection.                                                             *)
LEMMA PhaseMoves ==
  ASSUME IInv, Staged, TaskMove
  PROVE  /\ phase' \in Early => phase \in Early
         /\ phase' # "down"
         /\ dispatcher # "off"
<1> USE DEF Early
<1>1. CASE dispatcher = "up" /\ (OpenTemp \/ OpenTempFails)
  BY <1>1 DEF OpenTemp, OpenTempFails
<1>2. CASE Load \/ Create \/ Created \/ LoadFails \/ CreateFails
  BY <1>2 DEF Load, Create, Created, LoadFails, CreateFails, Staged
<1>3. ASSUME NEW c \in Chunk, Task(c) \/ TaskFails(c)
      PROVE  phase' = phase /\ phase \notin Early
  <2>1. phase' = phase /\ job[c] # "idle"
    BY <1>3 DEF Task, TaskFails, GetObject, GetObjectFails, Decrypt, DeleteObject,
                DeleteObjectFails, LockMetadata, WriteChunk, WriteChunkFails,
                MarkAndTruncate, MarkUnsaved, Save, SaveFails
  <2> QED
    BY <2>1 DEF IInv, Inv, OnlyActiveRuns
<1>4. CASE Conclude
  <2>1. phase \in {"active", "verified", "renamed"} /\ phase' \notin Early
    BY <1>4 DEF Conclude, Verify, Rename, RemoveMetadata, FinalizeFails
  <2> QED
    BY <2>1 DEF Staged
<1> QED
  BY <1>1, <1>2, <1>3, <1>4 DEF TaskMove, Prepare, Staged

(* Both halves stay in step: no session without its gmf-remote, and no     *)
(* shutdown while somebody listens.                                        *)
LEMMA StagedStep ==
  IInv /\ RemoteInv /\ LinkInv /\ [TransferNext]_world => Staged'
<1> SUFFICES ASSUME IInv, RemoteInv, LinkInv, [TransferNext]_world PROVE Staged'
  OBVIOUS
<1>0. StartInv /\ Told /\ LinkTypeOK /\ Staged
  BY DEF RemoteInv, LinkInv
<1> USE DEF Staged
<1>1. CASE RemoteMove
  <2>1. UNCHANGED <<phase, loop, events, dispatcher, session>>
    BY <1>0, <1>1, RemoteMoves DEF Apart, IInv, memory, loop_vars, control, link
  <2>2. session = 0 => dispatcher = "off"
    BY <1>0
  <2> QED
    BY <1>0, <1>1, <2>1, <2>2, RemoteStages DEF Early
<1>2. CASE StaleUpload \/ CleanUp \/ UNCHANGED world
  <2>1. UNCHANGED <<phase, loop, events, dispatcher, session, main, shutdown, stdout_closed,
                    start, r_bitmap>>
    BY <1>2 DEF StaleUpload, CleanUp, world, all_vars, vars, memory, loop_vars, control,
                remote, task, link
  <2> QED
    BY <1>0, <2>1
<1>3. CASE Dispatch
  <2>1. /\ dispatcher = "up"
        /\ UNCHANGED <<phase, loop, dispatcher, session, main, shutdown, stdout_closed,
                       start, r_bitmap>>
    BY <1>3 DEF Dispatch, vars, memory, control, remote, task
  <2> QED
    BY <1>0, <2>1
<1>4. CASE ClientLoop
  <2>1. /\ UNCHANGED <<dispatcher, session, main, shutdown, stdout_closed, start, r_bitmap>>
        /\ loop = "out" => dispatcher = "up" /\ start # "off"
    BY <1>4 DEF ClientLoop, Local, remote, task, link
  <2>2. phase' = phase
    BY <1>0, <1>4, LoopMoves DEF ClientLoop, vars, memory, Spawn
  <2>3. loop = "out" => phase = "active"
    BY <1>4 DEF ClientLoop, Loop, Enter, AllDone, Leave, Drain, ReapSuccess, ReapFailure,
                RecvChunkReady, SkipChunkReady, RecvUploadCompleted, AllBranchesDisabled,
                Receive, Selecting
  <2>4. phase \notin Early /\ start # "off" /\ dispatcher # "off"
    BY <1>0, <2>1, <2>3 DEF Early
  <2> QED
    BY <1>0, <2>1, <2>2, <2>4
<1>5. CASE TaskMove
  <2>1. UNCHANGED <<loop, events, dispatcher, session, main, shutdown, stdout_closed, start,
                    r_bitmap>>
    BY <1>5, TaskMoves DEF Alive, Local, loop_vars, control, remote, task, link
  <2> QED
    BY <1>0, <1>5, <2>1, PhaseMoves
<1>6. CASE Exit /\ Gone
  <2>1. /\ phase' = "down" /\ events' = <<>> /\ loop' = "out" /\ dispatcher' = "off"
        /\ UNCHANGED <<session, main, shutdown, stdout_closed, start, r_bitmap>>
    BY <1>6 DEF Exit, Die, Gone, remote, task
  <2> QED
    BY <1>0, <2>1
<1>7. CASE GiveUp
  <2>1. /\ phase = "down" /\ dispatcher = "stopped" /\ dispatcher' = "off"
        /\ UNCHANGED <<phase, loop, events, session, main, shutdown, stdout_closed, start,
                       r_bitmap>>
    BY <1>7 DEF GiveUp, all_vars, vars, memory, loop_vars, control, remote, task
  <2>2. start = "off"
    BY <1>0, <2>1 DEF Early
  <2>3. events = <<>>
    <3>1. Len(stdout) = 0
      BY <1>0, <2>2, SilentUntilStart
    <3>2. events \in Seq(Message) /\ Len(events) <= read /\ read \in 0 .. Len(stdout)
      BY <1>0 DEF LinkInv, Follows, LinkTypeOK
    <3> QED
      BY <3>1, <3>2
  <2> QED
    BY <1>0, <2>1, <2>3
<1>8. CASE ConnectionCut
  <2>1. /\ dispatcher = "up" /\ dispatcher' = "stopped"
        /\ UNCHANGED <<phase, loop, events, session, main, shutdown, stdout_closed, start,
                       r_bitmap>>
    BY <1>8 DEF ConnectionCut, all_vars, vars, memory, loop_vars, control, remote, task
  <2> QED
    BY <1>0, <2>1
<1>9. CASE NewSession
  <2>1. /\ dispatcher' = "up" /\ dispatcher = "off" /\ session' = session + 1
        /\ main' = "serving" /\ shutdown' = FALSE /\ stdout_closed' = FALSE
        /\ start' = "off" /\ r_bitmap' = {}
        /\ UNCHANGED <<phase, loop, events>>
    BY <1>9 DEF NewSession, FreshRemote, all_vars, vars, memory, loop_vars, control
  <2>2. session' > 0
    BY <1>0, <2>1, SessionsAreKeys DEF LinkTypeOK
  <2>3. loop = "out"
    BY <1>0, <2>1 DEF Early
  <2> QED
    BY <2>1, <2>2, <2>3
<1> QED
  BY <1>1, <1>2, <1>3, <1>4, <1>5, <1>6, <1>7, <1>8, <1>9, Kinds

(* The channel keeps holding the last lines that were read.                *)
LEMMA FollowsStep ==
  IInv /\ RemoteInv /\ LinkInv /\ [TransferNext]_world => Follows'
<1> SUFFICES ASSUME IInv, RemoteInv, LinkInv, [TransferNext]_world PROVE Follows'
  OBVIOUS
<1>0. StartInv /\ Told /\ LinkTypeOK /\ Staged /\ Follows /\ TypeOK
  BY DEF RemoteInv, LinkInv, IInv
<1>n. /\ read \in Nat /\ Len(events) \in Nat /\ Len(stdout) \in Nat
      /\ Len(events) <= read /\ read <= Len(stdout)
  BY <1>0 DEF LinkTypeOK, Follows, Told, DataTypeOK
<1>1. CASE RemoteMove
  <2>1. UploadNext /\ UNCHANGED <<events, read>>
    BY <1>0, <1>1, RemoteMoves DEF Apart, loop_vars, link
  <2>2. \A i \in 1 .. Len(stdout) : stdout'[i] = stdout[i]
    BY <2>1, LinesGrow
  <2>3. \A i \in 1 .. Len(events) : received + i \in 1 .. Len(stdout)
    BY <1>n DEF received
  <2> QED
    BY <1>0, <2>1, <2>2, <2>3 DEF Follows, received
<1>2. CASE StaleUpload \/ CleanUp \/ UNCHANGED world \/ GiveUp \/ ConnectionCut
  <2>1. UNCHANGED <<events, read, stdout>>
    BY <1>2 DEF StaleUpload, CleanUp, world, GiveUp, ConnectionCut, all_vars, loop_vars,
                remote, link
  <2> QED
    BY <1>0, <2>1 DEF Follows, received
<1>3. CASE Dispatch
  <2>1. /\ events' = Append(events, stdout[read + 1]) /\ read' = read + 1
        /\ UNCHANGED stdout /\ Len(events') = Len(events) + 1
    BY <1>0, <1>3, DispatchTypes DEF Dispatch, remote, RemoteInv
  <2>2. /\ \A i \in 1 .. Len(events) : events'[i] = events[i]
        /\ events'[Len(events) + 1] = stdout[read + 1]
    <3>1. events \in Seq(Message)
      BY <1>0 DEF LinkTypeOK
    <3> QED
      BY <2>1, <3>1
  <2>3. received' = received /\ received' + Len(events) + 1 = read + 1
    BY <1>n, <2>1 DEF received
  <2>4. \A i \in 1 .. Len(events) + 1 : i \in 1 .. Len(events) \/ i = Len(events) + 1
    BY <1>n
  <2>5. \A i \in 1 .. Len(events') : events'[i] = stdout[received' + i]
    <3> SUFFICES ASSUME NEW i \in 1 .. Len(events') PROVE events'[i] = stdout[received' + i]
      OBVIOUS
    <3>1. CASE i \in 1 .. Len(events)
      BY <1>0, <2>2, <2>3, <3>1 DEF Follows
    <3>2. CASE i = Len(events) + 1
      <4>1. received' + i = read + 1
        BY <1>n, <2>3, <3>2 DEF received
      <4> QED
        BY <2>2, <3>2, <4>1
    <3> QED
      BY <2>1, <2>4, <3>1, <3>2
  <2>6. Len(events') <= read'
    BY <1>n, <2>1
  <2> QED
    BY <2>1, <2>5, <2>6 DEF Follows
<1>4. CASE ClientLoop
  <2>1. UNCHANGED <<read, stdout>>
    BY <1>4 DEF ClientLoop, Local, remote, link
  <2>2. CASE events' = events
    BY <1>0, <2>1, <2>2 DEF Follows, received
  <2>3. CASE events # <<>> /\ events' = Tail(events)
    <3>1. /\ Len(events') = Len(events) - 1
          /\ \A i \in 1 .. Len(events') : events'[i] = events[i + 1]
      BY <1>0, <2>3, TailOfEvents
    <3>2. \A i \in 1 .. Len(events') :
            i + 1 \in 1 .. Len(events) /\ received' + i = received + (i + 1)
      BY <1>n, <2>1, <3>1 DEF received
    <3>3. Len(events') <= read'
      BY <1>n, <2>1, <3>1
    <3> QED
      BY <1>0, <2>1, <3>1, <3>2, <3>3 DEF Follows
  <2> QED
    BY <1>0, <1>4, <2>2, <2>3, LoopTypes
<1>5. CASE TaskMove
  BY <1>0, <1>5, TaskMoves DEF Alive, Local, loop_vars, remote, link, Follows, received
<1>6. CASE \/ Exit /\ Gone
           \/ NewSession
  <2>1. events' = <<>> /\ read' \in Nat
    BY <1>0, <1>6, <1>n DEF Exit, Gone, NewSession, Staged, all_vars, loop_vars
  <2>2. Len(events') = 0
    BY <2>1
  <2> QED
    BY <2>1, <2>2 DEF Follows
<1> QED
  BY <1>1, <1>2, <1>3, <1>4, <1>5, <1>6, Kinds

(* All of it holds before the first session.                               *)
LEMMA TransferInitInv == TransferInit => IInv /\ RemoteInv /\ LinkInv
<1> SUFFICES ASSUME TransferInit PROVE IInv /\ RemoteInv /\ LinkInv
  OBVIOUS
<1>1. IInv
  BY InitInv DEF TransferInit, LoopInit
<1>2. RemoteInv
  <2>1. StartInv
    BY FS_EmptySet, ConcurrencyAssumption
       DEF TransferInit, UploadInit, StartInv, TaskTypeOK, StartPc, UploadPc, Counted,
           Placed, Over, Emptied
  <2>2. LInv
    BY StartedLInv DEF TransferInit
  <2> QED
    BY <2>1, <2>2 DEF RemoteInv, LInv
<1>3. LinkTypeOK
  <2>1. 0 \in 0 .. total_chunks
    BY FileAssumption, FS_CardinalityType DEF total_chunks
  <2>2. events = <<>> /\ stdout = <<>> /\ events \in Seq(Message)
    BY DEF TransferInit, LoopInit, UploadInit
  <2>3. Len(events) = 0 /\ Len(stdout) = 0 /\ Len(events) <= EventCapacity
    BY <2>2, EventCapacityAssumption
  <2>4. read \in 0 .. Len(stdout) /\ session \in 0 .. MaxSessions
    BY <2>3, SessionsAreKeys DEF TransferInit
  <2> QED
    BY <2>1, <2>2, <2>3, <2>4 DEF TransferInit, LoopInit, LinkTypeOK, LoopPc
<1>4. Staged
  BY DEF TransferInit, LoopInit, Init, UploadInit, Staged
<1>5. Follows
  <2>1. events = <<>> /\ read = 0
    BY DEF TransferInit, LoopInit
  <2>2. Len(events) = 0
    BY <2>1
  <2> QED
    BY <2>1, <2>2 DEF Follows
<1> QED
  BY <1>1, <1>2, <1>3, <1>4, <1>5 DEF LinkInv

(* And ever after.                                                         *)
LEMMA HalvesInvariance == TransferSpec => [](IInv /\ RemoteInv /\ LinkInv)
<1>1. IInv /\ RemoteInv /\ LinkInv /\ [TransferNext]_world =>
        (IInv /\ RemoteInv /\ LinkInv)'
  BY HalvesStep, LinkTypeStep, StagedStep, FollowsStep DEF LinkInv
<1> QED
  BY <1>1, TransferInitInv, PTL DEF TransferSpec

(* Types, of both halves and all that is between them.                     *)
THEOREM TransferTypes == TransferSpec => []TransferTypeOK
<1>1. IInv /\ RemoteInv /\ LinkInv => TransferTypeOK
  <2> SUFFICES ASSUME IInv, RemoteInv, LinkInv PROVE TransferTypeOK
    OBVIOUS
  <2>1. UploadTypeOK
    BY InvariantTypes DEF RemoteInv
  <2> QED
    BY <2>1 DEF IInv, LinkInv, LinkTypeOK, TransferTypeOK
<1> QED
  BY <1>1, HalvesInvariance, PTL

(* Whatever becomes of the connection, of gmf-remote and of the bucket, a  *)
(* file under the user's name is the remote file (file.rs:304-324).        *)
THEOREM TransferDeliversIntact == TransferSpec => []FinalsIntact
<1>1. IInv => FinalsIntact
  BY DEF IInv, Inv
<1> QED
  BY <1>1, HalvesInvariance, PTL

(* And any number of sessions, with what each leaves to the next on disk   *)
(* and in the bucket, are one resumable download.                          *)
THEOREM TransferIsResumable == TransferSpec => IsResumableDownload
<1>1. TransferInit => RD!Init
  BY DEF TransferInit, LoopInit, Init, RD!Init
<1>2. IInv /\ RemoteInv /\ LinkInv /\ [TransferNext]_world => [RD!Next]_<<saved, finals>>
  <2> SUFFICES ASSUME IInv, RemoteInv, LinkInv, [TransferNext]_world
               PROVE  [RD!Next]_<<saved, finals>>
    OBVIOUS
  <2>1. IInv' /\ ([Next]_vars \/ UNCHANGED <<disk, memory>>)
    BY HalvesStep DEF LinkInv
  <2>2. CASE [Next]_vars
    BY <2>1, <2>2, RefinementStep
  <2>3. CASE UNCHANGED <<disk, memory>>
    BY <2>3 DEF disk
  <2> QED
    BY <2>1, <2>2, <2>3
<1> QED
  BY <1>1, <1>2, HalvesInvariance, PTL DEF TransferSpec, IsResumableDownload, RD!Spec

-----------------------------------------------------------------------------
(* What gmf-remote owes the client.  An upload that has succeeded has its  *)
(* line; and behind UploadCompleted nothing was left out or cancelled.     *)
Names(i, c) == Lines[i] # UploadCompleted /\ Lines[i].chunk_id = c

Reported ==
  \A c \in Chunk : upload[c] = "ok" => \E i \in 1 .. Len(Lines) : Names(i, c)

NoneCancelled == \A c \in Chunk : upload[c] # "cancelled"

Tried ==
  /\ main = "waiting" => shutdown
  /\ start = "aborted" => shutdown \/ stdout_closed
  /\ ~shutdown /\ start # "aborted" => NoneCancelled
  /\ start = "completing" => NoneCancelled
  /\ \A i \in 1 .. Len(Lines) :
       Lines[i] = UploadCompleted => iter = {} /\ NoneCancelled

OwedInv == Reported /\ Tried

(* An upload succeeds by handing over its line, and a failure is final.    *)
LEMMA UploadEnds ==
  ASSUME StartInv, UploadNext, NEW c \in Chunk
  PROVE  /\ upload'[c] = "ok" => upload[c] = "ok" \/ SendReady(c)
         /\ upload[c] = "err" => upload'[c] = "err"
         /\ upload[c] = "ok" => upload'[c] = "ok"
<1> USE DEF StartInv, TaskTypeOK, Placed, Over
<1>1. CASE \/ Start \/ Main \/ PrintPanics
           \/ \E done \in SUBSET Chunk : StartRequest(done)
  BY <1>1 DEF StartRequest, Start, Prewarm, SpawnUpload, Prewarmed, Reap, ReapOnly,
              ReapAndSpawn, Finish, SendCompleted, Main, EndOfInput, StartJoined,
              AbortStart, DropStart, Drained, PrintPanics, task
<1>2. ASSUME NEW d \in Chunk, UploadChunk(d)
      PROVE  /\ upload'[c] = "ok" => upload[c] = "ok" \/ SendReady(c)
             /\ upload[c] = "err" => upload'[c] = "err"
             /\ upload[c] = "ok" => upload'[c] = "ok"
  BY <1>2 DEF UploadChunk, UploadAt, ReadAndSeal, ReadFails, PutObject, PutObjectFails,
              SendReady, CancelUpload
<1>3. CASE PrintLine \/ StdoutCloses \/ EditSource \/ \E d \in Chunk : Taken(d)
  BY <1>3 DEF PrintLine, StdoutCloses, EditSource, Taken
<1> QED
  BY <1>1, <1>2, <1>3 DEF UploadNext

(* An upload that ends well hands over its line.                           *)
LEMMA ReportedStep == RemoteInv /\ Reported /\ UploadNext => Reported'
<1> SUFFICES ASSUME RemoteInv, Reported, UploadNext, NEW c \in Chunk, upload'[c] = "ok"
             PROVE  \E i \in 1 .. Len(Lines') : Names(i, c)'
  BY DEF Reported
<1>1. CASE upload[c] = "ok"
  <2>1. PICK i \in 1 .. Len(Lines) : Names(i, c)
    BY <1>1 DEF Reported
  <2>2. i \in 1 .. Len(Lines') /\ Lines'[i] = Lines[i]
    BY LinesGrow
  <2> QED
    BY <2>1, <2>2 DEF Names
<1>2. CASE SendReady(c)
  <2>1. /\ Lines \in Seq(Message) /\ ChunkReady(c, sealed[c].key) \in Message
        /\ Lines' = Append(Lines, ChunkReady(c, sealed[c].key))
    BY <1>2, ReadyIsALine DEF RemoteInv, Told
  <2>2. /\ Len(Lines) + 1 \in 1 .. Len(Lines')
        /\ Lines'[Len(Lines) + 1] = ChunkReady(c, sealed[c].key)
    BY <2>1
  <2> QED
    BY <2>2, MessageFields DEF Names
<1> QED
  BY <1>1, <1>2, UploadEnds DEF RemoteInv

(* UploadCompleted comes only when nothing was left out or cancelled.      *)
LEMMA TriedStep == RemoteInv /\ Tried /\ UploadNext => Tried'
<1> SUFFICES ASSUME RemoteInv, Tried, UploadNext PROVE Tried'
  OBVIOUS
<1>1. /\ main' = "waiting" => shutdown'
      /\ shutdown => shutdown'
      /\ start' = "aborted" => start = "aborted" \/ shutdown' \/ stdout_closed'
      /\ stdout_closed => stdout_closed'
      /\ start = "aborted" => start' = "aborted"
      /\ start' = "completing" => start = "completing" \/ ~shutdown'
  BY DEF Tried, UploadNext, task, StartRequest, Start, Prewarm, Prewarmed, Reap, Finish,
         SendCompleted, UploadChunk, ReadAndSeal, ReadFails, PutObject, PutObjectFails,
         SendReady, CancelUpload, PrintLine, Main, EndOfInput, StartJoined, AbortStart,
         DropStart, Drained, StdoutCloses, PrintPanics, EditSource, Taken
(* Only a task that works is cancelled, after the shutdown or with its     *)
(* process.                                                                *)
<1>2. ASSUME NEW c \in Chunk, upload'[c] = "cancelled", upload[c] # "cancelled"
      PROVE  /\ shutdown' \/ start' = "aborted"
             /\ c \in Busy /\ (start' = "completing" => start = "completing")
  <2> USE DEF RemoteInv, StartInv, TaskTypeOK, Placed, Emptied, Over, Busy, UploadPc
  <2>1. CASE Start \/ Main \/ \E done \in SUBSET Chunk : StartRequest(done)
    BY <1>2, <2>1
       DEF StartRequest, Start, Prewarm, SpawnUpload, Prewarmed, Reap, ReapOnly,
           ReapAndSpawn, Finish, SendCompleted, Main, EndOfInput, StartJoined,
           AbortStart, DropStart, Drained, task, Tried
  <2>2. ASSUME NEW d \in Chunk, UploadChunk(d)
        PROVE  shutdown' /\ c \in Busy /\ start' = start
    BY <1>2, <2>2
       DEF UploadChunk, UploadAt, ReadAndSeal, ReadFails, PutObject, PutObjectFails,
           SendReady, CancelUpload, task
  <2>3. CASE PrintPanics
    BY <1>2, <2>3 DEF PrintPanics, DropStart
  <2>4. CASE PrintLine \/ StdoutCloses \/ EditSource \/ \E d \in Chunk : Taken(d)
    BY <1>2, <2>4 DEF PrintLine, StdoutCloses, EditSource, Taken
  <2> QED
    BY <2>1, <2>2, <2>3, <2>4 DEF UploadNext
<1>4. ~shutdown' /\ start' # "aborted" => NoneCancelled'
  BY <1>1, <1>2 DEF Tried, NoneCancelled
<1>5. start' = "completing" => NoneCancelled'
  <2>1. start = "completing" => Busy = {}
    BY DEF RemoteInv, StartInv, Placed, Emptied, Busy
  <2> QED
    BY <1>1, <1>2, <1>4, <2>1 DEF Tried, NoneCancelled
<1>6. ASSUME NEW i \in 1 .. Len(Lines'), Lines'[i] = UploadCompleted
      PROVE  iter' = {} /\ NoneCancelled'
  <2>1. /\ Lines \in Seq(Message)
        /\ \/ Lines' = Lines
           \/ \E c \in Chunk : SendReady(c) /\ Lines' = Append(Lines, ChunkReady(c, sealed[c].key))
           \/ SendCompleted /\ Lines' = Append(Lines, UploadCompleted)
    BY LinesChange DEF RemoteInv, Told
  <2>2. ASSUME NEW j \in 1 .. Len(Lines), Lines[j] = UploadCompleted
        PROVE  iter' = {} /\ NoneCancelled'
    <3>1. start = "exit" /\ Busy = {} /\ iter = {} /\ NoneCancelled
      BY <2>2 DEF RemoteInv, Told, LinesAreOk, Tried
    <3>2. NoneCancelled'
      BY <1>2, <3>1 DEF NoneCancelled
    <3>3. iter' = iter
      BY <3>1 DEF UploadNext, task, StartRequest, Start, Prewarm, Prewarmed, Reap, Finish,
         SendCompleted, UploadChunk, ReadAndSeal, ReadFails, PutObject, PutObjectFails,
         SendReady, CancelUpload, PrintLine, Main, EndOfInput, StartJoined, AbortStart,
         DropStart, Drained, StdoutCloses, PrintPanics, EditSource, Taken
    <3> QED
      BY <3>1, <3>2, <3>3
  <2>3. CASE Lines' = Lines
    BY <1>6, <2>2, <2>3
  <2>4. ASSUME NEW c \in Chunk, SendReady(c), Lines' = Append(Lines, ChunkReady(c, sealed[c].key))
        PROVE  \E j \in 1 .. Len(Lines) : Lines[j] = UploadCompleted
    <3>1. ChunkReady(c, sealed[c].key) \in Message
      BY <2>4, ReadyIsALine DEF RemoteInv, Told
    <3>2. /\ \A j \in 1 .. Len(Lines) : Lines'[j] = Lines[j]
          /\ Lines'[Len(Lines) + 1] = ChunkReady(c, sealed[c].key)
          /\ i \in 1 .. Len(Lines) \/ i = Len(Lines) + 1
      BY <2>1, <2>4, <3>1
    <3> QED
      BY <1>6, <3>2, MessageFields
  <2>5. CASE SendCompleted
    <3>1. start = "completing" /\ UNCHANGED <<iter, upload>>
      BY <2>5 DEF SendCompleted
    <3> QED
      BY <3>1 DEF RemoteInv, StartInv, Emptied, Tried, NoneCancelled
  <2> QED
    BY <2>1, <2>2, <2>3, <2>4, <2>5
<1> QED
  BY <1>1, <1>4, <1>5, <1>6 DEF Tried

(* Both also when a new gmf-remote starts, or something else happens.      *)
LEMMA OwedStep ==
  IInv /\ RemoteInv /\ LinkInv /\ OwedInv /\ [TransferNext]_world => OwedInv'
<1> SUFFICES ASSUME IInv, RemoteInv, LinkInv, OwedInv, [TransferNext]_world PROVE OwedInv'
  OBVIOUS
<1>1. CASE RemoteMove
  BY <1>1, RemoteMoves, ReportedStep, TriedStep DEF OwedInv, LinkInv, IInv
<1>2. CASE NewSession
  <2>1. FreshRemote
    BY <1>2 DEF NewSession
  <2>2. Lines' = <<>> /\ Len(Lines') = 0
    BY <2>1 DEF FreshRemote, Lines
  <2> QED
    BY <2>1, <2>2 DEF FreshRemote, OwedInv, Reported, Tried, NoneCancelled
<1>3. ASSUME ~RemoteMove, ~NewSession PROVE UNCHANGED remote
  BY <1>3, Kinds, TaskMoves
     DEF StaleUpload, Dispatch, ClientLoop, Alive, Local, Gone, GiveUp, ConnectionCut,
         CleanUp, world
<1>4. CASE UNCHANGED remote
  BY <1>4 DEF OwedInv, Reported, Tried, NoneCancelled, Names, Lines, remote, task
<1> QED
  BY <1>1, <1>2, <1>3, <1>4

-----------------------------------------------------------------------------
(* What the client has heard.  Every task of a session was announced by a  *)
(* line the loop has received, every line it has received was acted on,    *)
(* and it knows of UploadCompleted only by that line.                      *)
Heard ==
  /\ \A c \in Chunk : job[c] # "idle" => \E i \in 1 .. received : Names(i, c)
  /\ upload_completed => \E i \in 1 .. received : Lines[i] = UploadCompleted
  /\ dispatcher # "off" =>
       /\ r_bitmap \subseteq bitmap
       /\ \A c \in Chunk : \A i \in 1 .. received :
            Names(i, c) => c \in bitmap \/ job[c] # "idle"
       /\ loop = "out" => received = 0

(* The loop's books: the tasks it has not reaped, and the count it cached. *)
Tallied ==
  /\ \A c \in Chunk : job[c] \in {"saving", "success"} => c \in bitmap
  /\ loop = "out" => /\ join_set = {} /\ ~upload_completed
                     /\ \A c \in Chunk : job[c] = "idle"
  /\ loop = "running" =>
       /\ \A c \in Chunk : job[c] \notin {"idle", "success"} => c \in join_set
       /\ join_set = {} => completed_chunks = Cardinality(bitmap)

HeardInv == Heard /\ Tallied

HalvesInv == IInv /\ RemoteInv /\ LinkInv /\ OwedInv

(* The loop has received a part of the lines gmf-remote handed over.       *)
LEMMA Positions ==
  ASSUME RemoteInv, LinkInv
  PROVE  /\ received \in Nat /\ Len(Lines) \in Nat /\ Len(stdout) \in Nat
         /\ Len(events) \in Nat
         /\ received + Len(events) = read /\ read \in Nat /\ read <= Len(stdout)
         /\ Len(stdout) <= Len(Lines) /\ received <= Len(Lines)
         /\ \A i \in 1 .. Len(stdout) : Lines[i] = stdout[i]
<1>1. /\ stdout \in Seq(Message) /\ outbox \in Seq(Message) /\ events \in Seq(Message)
      /\ read \in 0 .. Len(stdout) /\ Len(events) <= read
  BY DEF RemoteInv, Told, DataTypeOK, LinkInv, LinkTypeOK, Follows
<1>2. /\ Len(Lines) = Len(stdout) + Len(outbox)
      /\ \A i \in 1 .. Len(stdout) : Lines[i] = stdout[i]
  BY <1>1 DEF Lines
<1>3. Len(stdout) \in Nat /\ Len(outbox) \in Nat /\ Len(events) \in Nat
  BY <1>1
<1> QED
  BY <1>1, <1>2, <1>3 DEF received

(* Within a session lines are only added.                                  *)
LEMMA LinesStay ==
  ASSUME HalvesInv, [TransferNext]_world, ~NewSession
  PROVE  /\ Len(Lines) \in Nat /\ Len(Lines') \in Nat /\ Len(Lines) <= Len(Lines')
         /\ \A i \in 1 .. Len(Lines) : Lines'[i] = Lines[i]
<1>1. CASE RemoteMove
  BY <1>1, RemoteMoves, LinesGrow DEF HalvesInv, LinkInv, IInv
<1>2. CASE ~RemoteMove
  <2>1. UNCHANGED remote
    BY <1>2, Kinds, TaskMoves
       DEF StaleUpload, Dispatch, ClientLoop, Alive, Local, Gone, GiveUp, ConnectionCut,
           CleanUp, world
  <2>2. Lines' = Lines
    BY <2>1 DEF Lines, remote
  <2> QED
    BY <2>2, Positions DEF HalvesInv
<1> QED
  BY <1>1, <1>2

(* What the loop hears next is the line after those it has received.       *)
LEMMA LoopHears ==
  ASSUME HalvesInv, ClientLoop
  PROVE  \/ UNCHANGED <<vars, events, upload_completed, read, received>>
         \/ /\ received' = received + 1 /\ received + 1 \in 1 .. Len(Lines)
            /\ Lines[received + 1] = Head(events) /\ events # <<>>
            /\ \/ RecvChunkReady /\ Names(received + 1, Head(events).chunk_id)
               \/ SkipChunkReady /\ Names(received + 1, Head(events).chunk_id)
               \/ RecvUploadCompleted /\ Lines[received + 1] = UploadCompleted
<1>1. /\ received \in Nat /\ Len(Lines) \in Nat /\ Len(stdout) \in Nat /\ read \in Nat
      /\ Len(events) \in Nat /\ received + Len(events) = read
      /\ read <= Len(stdout) /\ Len(stdout) <= Len(Lines)
      /\ \A i \in 1 .. Len(stdout) : Lines[i] = stdout[i]
  BY Positions DEF HalvesInv
<1>2. LinkTypeOK /\ Follows /\ UNCHANGED read
  BY DEF HalvesInv, LinkInv, ClientLoop, Local, link
<1>3. CASE UNCHANGED <<vars, events, upload_completed>>
  BY <1>2, <1>3 DEF received
<1>4. ASSUME events # <<>>, events' = Tail(events)
      PROVE  /\ received' = received + 1 /\ received + 1 \in 1 .. Len(Lines)
             /\ Lines[received + 1] = Head(events)
  <2>1. Len(events') = Len(events) - 1 /\ Len(events) \in Nat \ {0} /\ Head(events) = events[1]
    BY <1>2, <1>4, TailOfEvents
  <2>2. events[1] = stdout[received + 1]
    BY <1>2, <2>1 DEF Follows
  <2>3. received + 1 \in 1 .. Len(stdout) /\ received + 1 \in 1 .. Len(Lines)
    BY <1>1, <2>1
  <2>4. received' = received + 1
    BY <1>1, <1>2, <2>1 DEF received
  <2> QED
    BY <1>1, <2>1, <2>2, <2>3, <2>4
<1>5. CASE RecvChunkReady \/ SkipChunkReady
  <2>1. Receive("ChunkReadyForDownload")
    BY <1>5 DEF RecvChunkReady, SkipChunkReady
  <2>2. events # <<>> /\ events' = Tail(events) /\ Head(events) # UploadCompleted
    BY <1>2, <2>1, HeadIsReady DEF Receive
  <2> QED
    BY <1>4, <1>5, <2>2 DEF Names
<1>6. CASE RecvUploadCompleted
  <2>1. events # <<>> /\ events' = Tail(events) /\ Head(events).type = "UploadCompleted"
    BY <1>6 DEF RecvUploadCompleted, Receive
  <2>2. Head(events) \in Message
    BY <1>2, <2>1, HeadTailProperties DEF LinkTypeOK
  <2>3. Head(events) = UploadCompleted
    BY <2>1, <2>2 DEF Message, UploadCompleted
  <2> QED
    BY <1>4, <1>6, <2>1, <2>3
<1>7. RecvChunkReady \/ SkipChunkReady \/ RecvUploadCompleted
        \/ UNCHANGED <<vars, events, upload_completed>>
  BY DEF ClientLoop, Loop, Enter, AllDone, Leave, Drain, ReapSuccess, ReapFailure,
         AllBranchesDisabled
<1> QED
  BY <1>3, <1>5, <1>6, <1>7

(* What a step of the session does to its tasks and to the bucket.         *)
LEMMA JobMoves ==
  ASSUME IInv, TaskMove, NEW c \in Chunk
  PROVE  /\ job'[c] = "idle" <=> job[c] = "idle"
         /\ job'[c] = "get" => job[c] = "get"
         /\ job[c] \in {"idle", "success"} => job'[c] = job[c]
         /\ bucket'[c] # bucket[c] => job[c] = "delete" /\ job'[c] # "get"
         /\ bitmap \subseteq bitmap'
         /\ bitmap' = bitmap \/ phase \in Early \/ \E d \in Chunk : job[d] = "mark"
         /\ job'[c] \in {"saving", "success"}
              => job[c] \in {"saving", "success"} \/ c \in bitmap'
<1> DEFINE Goal ==
      /\ job'[c] = "idle" <=> job[c] = "idle"
      /\ job'[c] = "get" => job[c] = "get"
      /\ job[c] \in {"idle", "success"} => job'[c] = job[c]
      /\ bucket'[c] # bucket[c] => job[c] = "delete" /\ job'[c] # "get"
      /\ bitmap \subseteq bitmap'
      /\ bitmap' = bitmap \/ phase \in Early \/ \E d \in Chunk : job[d] = "mark"
      /\ job'[c] \in {"saving", "success"}
           => job[c] \in {"saving", "success"} \/ c \in bitmap'
<1>0. job \in [Chunk -> JobPc] /\ bucket \in Bucket
  BY DEF IInv, TypeOK
<1>1. CASE Prepare
  <2>1. bitmap = {} \/ UNCHANGED bitmap
    BY <1>1 DEF Prepare, OpenTemp, OpenTempFails, Load, LoadFails, Create, Created,
                CreateFails, IInv, Inv, OnlyActiveRuns
  <2>2. UNCHANGED <<job, bucket>> /\ (UNCHANGED bitmap \/ phase \in Early)
    BY <1>1 DEF Prepare, OpenTemp, OpenTempFails, Load, LoadFails, Create, Created,
                CreateFails, disk, Early
  <2> QED
    BY <2>1, <2>2
<1>2. CASE Conclude
  BY <1>2 DEF Conclude, Verify, Rename, RemoveMetadata, FinalizeFails, disk
<1>3. ASSUME NEW d \in Chunk, Task(d) \/ TaskFails(d) PROVE Goal
  <2> USE <1>0 DEF Goto, Bucket
  <2>1. CASE GetObject(d) \/ GetObjectFails(d)
    BY <2>1 DEF GetObject, GetObjectFails
  <2>2. CASE Decrypt(d) \/ LockMetadata(d) \/ WriteChunk(d) \/ WriteChunkFails(d)
    BY <2>2 DEF Decrypt, LockMetadata, WriteChunk, WriteChunkFails
  <2>3. CASE DeleteObject(d) \/ DeleteObjectFails(d)
    BY <2>3 DEF DeleteObject, DeleteObjectFails, MaybeDone, delete_object
  <2>4. CASE MarkAndTruncate(d) \/ MarkUnsaved(d)
    BY <2>4 DEF MarkAndTruncate, MarkUnsaved, disk
  <2>5. CASE Save(d) \/ SaveFails(d)
    BY <2>5 DEF Save, SaveFails, disk
  <2> QED
    BY <1>3, <2>1, <2>2, <2>3, <2>4, <2>5 DEF Task, TaskFails
<1> QED
  BY <1>1, <1>2, <1>3 DEF TaskMove

(* What has been received stays received and named as it was.              *)
LEMMA NamesStay ==
  ASSUME HalvesInv, [TransferNext]_world, ~NewSession, NEW i \in 1 .. received
  PROVE  /\ Lines'[i] = Lines[i] /\ i \in 1 .. Len(Lines)
         /\ \A c : Names(i, c)' <=> Names(i, c)
<1>1. i \in 1 .. Len(Lines)
  BY Positions DEF HalvesInv
<1>2. Lines'[i] = Lines[i]
  BY <1>1, LinesStay
<1> QED
  BY <1>1, <1>2 DEF Names

(* Whatever moves, the client has acted on each line it has received, and  *)
(* on no other.                                                            *)
LEMMA HeardStep == HalvesInv /\ HeardInv /\ [TransferNext]_world => Heard'
<1> SUFFICES ASSUME HalvesInv, HeardInv, [TransferNext]_world PROVE Heard'
  OBVIOUS
<1>0. /\ IInv /\ RemoteInv /\ LinkInv /\ StartInv /\ LinkTypeOK /\ Staged
      /\ Heard /\ Tallied /\ TypeOK
  BY DEF HalvesInv, HeardInv, RemoteInv, LinkInv, IInv
(* The steps that leave the client's tasks and what it has received alone. *)
<1>a. ASSUME ~NewSession, UNCHANGED <<job, upload_completed, received>>,
             dispatcher' # "off" =>
               /\ UNCHANGED <<bitmap, r_bitmap, loop>> /\ dispatcher # "off"
      PROVE  Heard'
  BY <1>0, <1>a, NamesStay DEF Heard
<1>1. CASE RemoteMove
  <2>1. /\ UNCHANGED <<job, upload_completed, events, read, bitmap, loop, dispatcher>>
        /\ ~NewSession
    BY <1>0, <1>1, RemoteMoves, RemoteStages
       DEF Apart, memory, loop_vars, control, link, NewSession
  <2>2. CASE UNCHANGED r_bitmap
    BY <1>a, <2>1, <2>2 DEF received
  <2>3. CASE RequestStart /\ r_bitmap' = bitmap
    BY <1>0, <2>1, <2>3, NamesStay DEF Heard, received
  <2> QED
    BY <1>0, <1>1, <2>2, <2>3, RemoteStages
<1>2. CASE StaleUpload \/ CleanUp \/ UNCHANGED world \/ GiveUp \/ ConnectionCut
  <2>1. /\ UNCHANGED <<job, upload_completed, events, read, bitmap, r_bitmap, loop>>
        /\ dispatcher' # "off" => dispatcher # "off"
    BY <1>2 DEF StaleUpload, CleanUp, world, GiveUp, ConnectionCut, all_vars, vars, memory,
                loop_vars, control, remote, task, link
  <2>2. ~NewSession
    BY <1>2 DEF StaleUpload, CleanUp, world, GiveUp, ConnectionCut, link, NewSession
  <2> QED
    BY <1>a, <2>1, <2>2 DEF received
<1>3. CASE Dispatch
  <2>1. /\ UNCHANGED <<job, upload_completed, bitmap, r_bitmap, loop, dispatcher>>
        /\ dispatcher = "up" /\ read' = read + 1 /\ Len(events') = Len(events) + 1
    BY <1>0, <1>3, DispatchTypes DEF Dispatch, vars, memory, control, remote, task
  <2>2. received' = received
    BY <1>0, <2>1, Positions DEF received
  <2>3. ~NewSession
    BY <2>1 DEF NewSession
  <2> QED
    BY <1>a, <2>1, <2>2, <2>3
<1>4. CASE ClientLoop
  <2>1. UNCHANGED <<dispatcher, read, r_bitmap>> /\ ~NewSession
    BY <1>4 DEF ClientLoop, Local, link, remote, task, NewSession
  <2>2. loop' # "out" /\ loop # "left"
    BY <1>4 DEF ClientLoop, Loop, Enter, AllDone, Leave, Drain, ReapSuccess, ReapFailure,
                RecvChunkReady, SkipChunkReady, RecvUploadCompleted, AllBranchesDisabled,
                Receive, Selecting, control
  <2>3. CASE UNCHANGED <<vars, events, upload_completed, read, received>>
    BY <1>0, <2>1, <2>2, <2>3, NamesStay DEF Heard, vars, memory
  <2>n. PICK n : n = received + 1
    OBVIOUS
  <2>4. ASSUME received' = n, n \in 1 .. Len(Lines)
        PROVE  /\ \A i \in 1 .. received : i \in 1 .. received'
               /\ \A i \in 1 .. received' : i \in 1 .. received \/ i = n
               /\ Lines'[n] = Lines[n]
               /\ \A c : Names(n, c)' <=> Names(n, c)
               /\ n \in 1 .. received'
    <3>1. received \in Nat
      BY <1>0, Positions
    <3>2. Lines'[n] = Lines[n]
      BY <2>1, <2>4, LinesStay
    <3>3. \A c : Names(n, c)' <=> Names(n, c)
      BY <3>2 DEF Names
    <3> QED
      BY <2>n, <2>4, <3>1, <3>2, <3>3
  <2>5. CASE /\ RecvUploadCompleted /\ received' = n
             /\ n \in 1 .. Len(Lines) /\ Lines[n] = UploadCompleted
    <3>1. UNCHANGED <<job, bitmap>>
      BY <2>5 DEF RecvUploadCompleted, vars, memory
    <3>2. \A c \in Chunk : ~Names(n, c)
      BY <2>5 DEF Names
    <3> QED
      BY <1>0, <2>1, <2>2, <2>4, <2>5, <3>1, <3>2, NamesStay DEF Heard
  <2>6. ASSUME RecvChunkReady, Names(n, Head(events).chunk_id),
               received' = n, n \in 1 .. Len(Lines)
        PROVE  Heard'
    <3> DEFINE d == Head(events).chunk_id
    <3>1. /\ d \in Chunk /\ job \in [Chunk -> JobPc] /\ job' = [job EXCEPT ![d] = "get"]
          /\ UNCHANGED <<bitmap, upload_completed>>
      BY <1>0, <2>6, HeadIsReady DEF RecvChunkReady, Spawn, Goto, TypeOK
    <3>2. \A c \in Chunk : Names(n, c) <=> c = d
      BY <2>6 DEF Names
    <3>3. \A c \in Chunk : job'[c] = IF c = d THEN "get" ELSE job[c]
      BY <3>1
    <3> HIDE DEF d
    <3>4. ASSUME NEW c \in Chunk, job'[c] # "idle"
          PROVE  \E i \in 1 .. received' : Names(i, c)'
      BY <1>0, <2>1, <2>4, <2>6, <3>2, <3>3, <3>4, NamesStay DEF Heard
    <3>5. ASSUME upload_completed' PROVE \E i \in 1 .. received' : Lines'[i] = UploadCompleted
      BY <1>0, <2>1, <2>4, <2>6, <3>1, <3>5, NamesStay DEF Heard
    <3>6. ASSUME dispatcher' # "off", NEW c \in Chunk, NEW i \in 1 .. received', Names(i, c)'
          PROVE  c \in bitmap' \/ job'[c] # "idle"
      BY <1>0, <2>1, <2>4, <2>6, <3>1, <3>2, <3>3, <3>6, NamesStay DEF Heard
    <3>7. dispatcher' # "off" => r_bitmap' \subseteq bitmap'
      BY <1>0, <2>1, <3>1 DEF Heard
    <3> QED
      BY <2>2, <3>4, <3>5, <3>6, <3>7 DEF Heard
  <2>7. ASSUME SkipChunkReady, Names(n, Head(events).chunk_id),
               received' = n, n \in 1 .. Len(Lines)
        PROVE  Heard'
    <3>1. UNCHANGED <<job, bitmap, upload_completed>> /\ Head(events).chunk_id \in bitmap
      BY <2>7 DEF SkipChunkReady, vars, memory, control
    <3>2. \A c \in Chunk : Names(n, c) => c \in bitmap
      BY <2>7, <3>1 DEF Names
    <3> QED
      BY <1>0, <2>1, <2>2, <2>4, <2>7, <3>1, <3>2, NamesStay DEF Heard
  <2> QED
    BY <1>4, <2>n, <2>3, <2>5, <2>6, <2>7, LoopHears
<1>5. CASE TaskMove
  <2>1. UNCHANGED <<dispatcher, read, events, r_bitmap, loop, upload_completed, received>>
    BY <1>5, TaskMoves DEF Alive, Local, link, remote, task, loop_vars, control, received
  <2>2. ~NewSession
    BY <2>1, <1>5, PhaseMoves, <1>0 DEF NewSession
  <2>3. \A c \in Chunk : job'[c] = "idle" <=> job[c] = "idle"
    BY <1>0, <1>5, JobMoves
  <2>4. Chunk = {} \/ bitmap \subseteq bitmap'
    BY <1>0, <1>5, JobMoves
  <2>5. bitmap \subseteq bitmap'
    BY <1>0, <2>4 DEF TypeOK
  <2> QED
    BY <1>0, <2>1, <2>2, <2>3, <2>5, NamesStay DEF Heard
<1>6. CASE Exit /\ Gone
  <2>1. job' = Idle /\ upload_completed' = FALSE /\ dispatcher' = "off"
    BY <1>6 DEF Exit, Die, Gone
  <2> QED
    BY <2>1 DEF Heard, Idle
<1>7. CASE NewSession
  <2>1. /\ dispatcher = "off" /\ phase = "down" /\ r_bitmap' = {} /\ read' = 0
        /\ UNCHANGED <<job, upload_completed, events, loop>>
    BY <1>7 DEF NewSession, FreshRemote, all_vars, vars, memory, loop_vars, control
  <2>2. loop = "out" /\ events' = <<>> /\ Len(events') = 0
    BY <1>0, <2>1 DEF Staged, Early
  <2>3. read' = 0 /\ Len(events') = 0
    BY <2>1, <2>2
  <2>4. received' = 0
    BY <2>3 DEF received
  <2> QED
    BY <1>0, <2>1, <2>2, <2>4 DEF Heard, Tallied
<1> QED
  BY <1>1, <1>2, <1>3, <1>4, <1>5, <1>6, <1>7, Kinds

(* The steps that do not concern the loop's books.                         *)
LEMMA BooksStay ==
  ASSUME IInv, LinkInv, [TransferNext]_world,
         ~ClientLoop, ~TaskMove, ~(Exit /\ Gone)
  PROVE  UNCHANGED <<job, bitmap, phase, control>>
<1>1. CASE RemoteMove
  BY <1>1, RemoteMoves DEF Apart, memory, loop_vars, LinkInv, IInv
<1>2. CASE ~RemoteMove
  BY <1>2, Kinds DEF StaleUpload, Dispatch, GiveUp, ConnectionCut, CleanUp, NewSession, world,
                     all_vars, vars, memory, loop_vars
<1> QED
  BY <1>1, <1>2

(* The loop's books stay right: what runs is in its set, and with the set  *)
(* empty its count is that of the bitmap.                                  *)
LEMMA TalliedStep == HalvesInv /\ HeardInv /\ [TransferNext]_world => Tallied'
<1> SUFFICES ASSUME HalvesInv, HeardInv, [TransferNext]_world PROVE Tallied'
  OBVIOUS
<1>0. /\ IInv /\ RemoteInv /\ LinkInv /\ LinkTypeOK /\ Staged /\ Tallied
      /\ job \in [Chunk -> JobPc] /\ bitmap \in SUBSET Chunk /\ join_set \in SUBSET Chunk
  BY DEF HalvesInv, HeardInv, LinkInv, IInv, TypeOK, LinkTypeOK
<1>1. CASE ClientLoop
  <2>1. CASE Enter
    BY <1>0, <2>1 DEF Enter, Tallied, vars, memory
  <2>2. CASE AllDone \/ Leave \/ AllBranchesDisabled
    BY <1>0, <2>2 DEF AllDone, Leave, AllBranchesDisabled, Selecting, Tallied, vars, memory
  <2>3. ASSUME NEW c \in Chunk, Drain(c) \/ ReapSuccess(c) \/ ReapFailure(c) PROVE Tallied'
    <3>1. UNCHANGED <<job, bitmap, upload_completed>> /\ loop # "out" /\ loop' # "out"
      BY <2>3 DEF Drain, ReapSuccess, ReapFailure, Selecting, vars, memory
    <3>2. loop' = "running" =>
            /\ loop = "running" /\ join_set' = join_set \ {c} /\ job[c] = "success"
            /\ completed_chunks' = Cardinality(bitmap)
      BY <2>3 DEF Drain, ReapSuccess, ReapFailure, Selecting
    <3> QED
      BY <1>0, <3>1, <3>2 DEF Tallied
  <2>4. CASE RecvChunkReady
    <3> DEFINE d == Head(events).chunk_id
    <3>1. Receive("ChunkReadyForDownload")
      BY <2>4 DEF RecvChunkReady
    <3>2. /\ d \in Chunk /\ job' = [job EXCEPT ![d] = "get"] /\ join_set' = join_set \cup {d}
          /\ UNCHANGED <<bitmap, loop, upload_completed, completed_chunks>> /\ loop = "running"
      BY <1>0, <2>4, <3>1, HeadIsReady DEF RecvChunkReady, Spawn, Goto, Receive, Selecting
    <3> HIDE DEF d
    <3>3. \A c \in Chunk : job'[c] = IF c = d THEN "get" ELSE job[c]
      BY <1>0, <3>2
    <3> QED
      BY <1>0, <3>2, <3>3 DEF Tallied
  <2>5. CASE SkipChunkReady \/ RecvUploadCompleted
    BY <1>0, <2>5 DEF SkipChunkReady, RecvUploadCompleted, Receive, Selecting, Tallied, vars,
                      memory, control
  <2> QED
    BY <1>1, <2>1, <2>2, <2>3, <2>4, <2>5 DEF ClientLoop, Loop
<1>2. CASE TaskMove
  <2>1. UNCHANGED <<loop, join_set, upload_completed, completed_chunks>>
    BY <1>2, TaskMoves DEF Alive, loop_vars, control
  <2>2. ASSUME NEW c \in Chunk, job'[c] \in {"saving", "success"} PROVE c \in bitmap'
    BY <1>0, <1>2, <2>2, JobMoves DEF Tallied
  <2>3. loop = "out" => \A c \in Chunk : job'[c] = "idle"
    BY <1>0, <1>2, JobMoves DEF Tallied
  <2>4. ASSUME loop = "running", NEW c \in Chunk, job'[c] \notin {"idle", "success"}
        PROVE  c \in join_set
    BY <1>0, <1>2, <2>4, JobMoves DEF Tallied
  <2>5. ASSUME loop = "running", join_set = {}
        PROVE  completed_chunks = Cardinality(bitmap')
    <3>1. phase \notin Early
      BY <1>0, <2>5 DEF Staged
    <3>2. ~\E d \in Chunk : job[d] = "mark"
      BY <1>0, <2>5 DEF Tallied
    <3>3. CASE Chunk = {}
      <4>1. UNCHANGED bitmap
        BY <1>0, <1>2, <3>1, <3>3
           DEF TaskMove, Prepare, Conclude, OpenTemp, OpenTempFails, Load, LoadFails, Create,
               Created, CreateFails, Verify, Rename, RemoveMetadata, FinalizeFails, Early
      <4> QED
        BY <1>0, <2>5, <4>1 DEF Tallied
    <3>4. CASE Chunk # {}
      <4>1. UNCHANGED bitmap
        BY <1>0, <1>2, <3>1, <3>2, <3>4, JobMoves
      <4> QED
        BY <1>0, <2>5, <4>1 DEF Tallied
    <3> QED
      BY <3>3, <3>4
  <2> QED
    BY <1>0, <2>1, <2>2, <2>3, <2>4, <2>5 DEF Tallied
<1>3. CASE Exit /\ Gone
  BY <1>3 DEF Exit, Die, Idle, Tallied
<1>4. ASSUME ~ClientLoop, ~TaskMove, ~(Exit /\ Gone) PROVE Tallied'
  BY <1>0, <1>4, BooksStay DEF Tallied, control
<1> QED
  BY <1>1, <1>2, <1>3, <1>4

-----------------------------------------------------------------------------
(* A chunk that has been uploaded and whose line the loop has received is  *)
(* marked or being worked on.                                              *)
LEMMA ReceivedIsActedOn ==
  ASSUME HalvesInv, HeardInv, dispatcher # "off", NEW c \in Chunk \ bitmap,
         job[c] = "idle", upload[c] = "ok"
  PROVE  \E i \in received + 1 .. Len(Lines) : Names(i, c)
<1>1. PICK i \in 1 .. Len(Lines) : Names(i, c)
  BY DEF HalvesInv, OwedInv, Reported
<1>2. received \in Nat /\ Len(Lines) \in Nat
  BY Positions DEF HalvesInv
<1>3. i \notin 1 .. received
  BY <1>1 DEF HeardInv, Heard
<1> QED
  BY <1>1, <1>2, <1>3

(* Once start was asked for, a chunk the client lacks waits in iter or has *)
(* been spawned.                                                           *)
LEMMA MissingIsTried ==
  ASSUME HalvesInv, HeardInv, loop # "out", NEW c \in Chunk \ bitmap
  PROVE  /\ dispatcher # "off"
         /\ c \in iter \/ upload[c] # "idle"
<1>1. start # "off" /\ dispatcher # "off"
  BY DEF HalvesInv, LinkInv, Staged, Early
<1>2. c \notin r_bitmap
  BY <1>1 DEF HeardInv, Heard
<1> QED
  BY <1>1, <1>2 DEF HalvesInv, RemoteInv, StartInv, Placed

(* The lines the loop has not received are those on the way.               *)
LEMMA OnTheWayIsALine ==
  ASSUME RemoteInv, LinkInv, NEW c \in Chunk
  PROVE  OnTheWay(c) <=> \E i \in received + 1 .. Len(Lines) : Names(i, c)
<1>1. /\ received \in Nat /\ Len(Lines) \in Nat /\ Len(stdout) \in Nat /\ Len(events) \in Nat
      /\ received + Len(events) = read /\ read \in Nat /\ read <= Len(stdout)
      /\ Len(stdout) <= Len(Lines)
      /\ \A i \in 1 .. Len(stdout) : Lines[i] = stdout[i]
  BY Positions
<1>2. /\ outbox \in Seq(Message) /\ stdout \in Seq(Message)
  BY DEF RemoteInv, Told, DataTypeOK
<1>3. /\ Len(outbox) \in Nat /\ Len(Lines) = Len(stdout) + Len(outbox)
      /\ \A i \in 1 .. Len(outbox) : Lines[Len(stdout) + i] = outbox[i]
  BY <1>2 DEF Lines
<1>4. \A i \in 1 .. Len(events) : events[i] = Lines[received + i]
  <2>1. \A i \in 1 .. Len(events) : events[i] = stdout[received + i]
    BY DEF LinkInv, Follows
  <2>2. \A i \in 1 .. Len(events) : received + i \in 1 .. Len(stdout)
    BY <1>1
  <2> QED
    BY <1>1, <2>1, <2>2
<1>5. ASSUME NEW i \in received + 1 .. Len(Lines)
      PROVE  \/ \E j \in 1 .. Len(events) : Lines[i] = events[j]
             \/ i \in read + 1 .. Len(stdout) /\ Lines[i] = stdout[i]
             \/ \E j \in 1 .. Len(outbox) : Lines[i] = outbox[j]
  <2>1. CASE i <= read
    <3>1. i - received \in 1 .. Len(events) /\ received + (i - received) = i
      BY <1>1, <2>1
    <3> QED
      BY <1>4, <3>1
  <2>2. CASE read < i /\ i <= Len(stdout)
    <3>1. i \in read + 1 .. Len(stdout) /\ i \in 1 .. Len(stdout)
      BY <1>1, <2>2
    <3> QED
      BY <1>1, <3>1
  <2>3. CASE Len(stdout) < i
    <3>1. i - Len(stdout) \in 1 .. Len(outbox) /\ Len(stdout) + (i - Len(stdout)) = i
      BY <1>1, <1>3, <2>3
    <3> QED
      BY <1>3, <3>1
  <2> QED
    BY <1>1, <2>1, <2>2, <2>3
<1>6. \A j \in 1 .. Len(events) : received + j \in received + 1 .. Len(Lines)
  BY <1>1
<1>7. \A j \in read + 1 .. Len(stdout) :
        j \in received + 1 .. Len(Lines) /\ Lines[j] = stdout[j]
  BY <1>1
<1>8. \A j \in 1 .. Len(outbox) : Len(stdout) + j \in received + 1 .. Len(Lines)
  BY <1>1, <1>3
<1>9. ASSUME OnTheWay(c) PROVE \E i \in received + 1 .. Len(Lines) : Names(i, c)
  BY <1>3, <1>4, <1>6, <1>7, <1>8, <1>9 DEF OnTheWay, Names
<1>10. ASSUME NEW i \in received + 1 .. Len(Lines), Names(i, c) PROVE OnTheWay(c)
  BY <1>5, <1>10 DEF OnTheWay, Names
<1> QED
  BY <1>9, <1>10

(* While the loop listens, a chunk that is missing is still to be          *)
(* uploaded, being uploaded, announced or being downloaded, or its upload  *)
(* has failed: none drops out between the bitmap in Start, the two         *)
(* channels, the pipe and the tasks of either side.                        *)
LEMMA LostNowhere == HalvesInv /\ HeardInv => NoChunkLost
<1> SUFFICES ASSUME HalvesInv, HeardInv, loop = "running", dispatcher = "up",
                    NEW c \in Chunk \ bitmap, c \notin iter, job[c] = "idle",
                    upload[c] \notin {"read", "put", "send", "err"}
             PROVE  OnTheWay(c)
  BY DEF NoChunkLost
<1>1. upload[c] # "idle"
  BY MissingIsTried
<1>2. upload[c] # "cancelled"
  BY DEF HalvesInv, OwedInv, Tried, NoneCancelled, LinkInv, Staged
<1>3. upload[c] \in UploadPc
  BY DEF HalvesInv, RemoteInv, StartInv, TaskTypeOK
<1>4. upload[c] = "ok"
  BY <1>1, <1>2, <1>3 DEF UploadPc
<1> QED
  BY <1>4, ReceivedIsActedOn, OnTheWayIsALine DEF HalvesInv

(* When the loop finds all its branches disabled, gmf-remote has tried     *)
(* everything and the loop has received it all: what is missing has failed *)
(* there, or its task would still be in the set.                           *)
LEMMA PanicHasACause ==
  ASSUME HalvesInv, HeardInv, AllBranchesDisabled
  PROVE  \E c \in Chunk \ bitmap : upload[c] = "err"
<1>1. /\ loop = "running" /\ completed_chunks # total_chunks /\ upload_completed
      /\ join_set = {}
  BY DEF AllBranchesDisabled, Selecting
<1>2. completed_chunks = Cardinality(bitmap)
  BY <1>1 DEF HeardInv, Tallied
<1>3. PICK c \in Chunk \ bitmap : TRUE
  BY <1>1, <1>2 DEF total_chunks, HalvesInv, IInv, TypeOK
<1>4. PICK i \in 1 .. received : Lines[i] = UploadCompleted
  BY <1>1 DEF HeardInv, Heard
<1>5. received \in Nat /\ Len(Lines) \in Nat /\ received <= Len(Lines)
  BY Positions DEF HalvesInv
<1>6. i \in 1 .. Len(Lines)
  BY <1>5
<1>7. i = Len(Lines) /\ Busy = {} /\ iter = {} /\ NoneCancelled
  BY <1>4, <1>6 DEF HalvesInv, RemoteInv, Told, LinesAreOk, OwedInv, Tried
<1>8. job[c] = "idle"
  BY <1>1, <1>3 DEF HeardInv, Tallied
<1>9. dispatcher # "off" /\ upload[c] # "idle"
  BY <1>1, <1>3, <1>7, MissingIsTried
<1>10. upload[c] \in {"ok", "err"}
  BY <1>3, <1>7, <1>9
     DEF Busy, Over, NoneCancelled, HalvesInv, RemoteInv, StartInv, TaskTypeOK, UploadPc
<1>11. upload[c] # "ok"
  <2>1. received + 1 .. Len(Lines) = {}
    BY <1>5, <1>7
  <2> QED
    BY <1>3, <1>8, <1>9, <2>1, ReceivedIsActedOn
<1> QED
  BY <1>3, <1>10, <1>11

(* And no step makes up for a failed upload.                               *)
LEMMA BlameStep ==
  HalvesInv /\ HeardInv /\ PanicOnlyAfterFailedUpload /\ [TransferNext]_world =>
    PanicOnlyAfterFailedUpload'
<1> SUFFICES ASSUME HalvesInv, HeardInv, PanicOnlyAfterFailedUpload, [TransferNext]_world,
                    loop' = "panicked"
             PROVE  \E c \in Chunk \ bitmap' : upload'[c] = "err"
  BY DEF PanicOnlyAfterFailedUpload
<1>0. IInv /\ LinkInv /\ LinkTypeOK /\ RemoteInv
  BY DEF HalvesInv, LinkInv
<1>1. CASE AllBranchesDisabled /\ ClientLoop
  BY <1>1, PanicHasACause DEF AllBranchesDisabled, ClientLoop, Local, remote, vars, memory
<1>2. CASE ClientLoop /\ ~AllBranchesDisabled
  BY <1>2 DEF ClientLoop, Loop, Enter, AllDone, Leave, Drain, ReapSuccess, ReapFailure,
              RecvChunkReady, SkipChunkReady, RecvUploadCompleted, Receive, Selecting, control
<1>3. ASSUME loop = "panicked", UNCHANGED bitmap,
             \A c \in Chunk : upload[c] = "err" => upload'[c] = "err"
      PROVE  \E c \in Chunk \ bitmap' : upload'[c] = "err"
  BY <1>3 DEF PanicOnlyAfterFailedUpload
<1>4. CASE TaskMove
  BY <1>4, TaskMoves DEF Alive, loop_vars, control
<1>5. CASE Exit /\ Gone
  BY <1>5 DEF Exit
<1>6. CASE RemoteMove
  <2>1. UNCHANGED <<bitmap, loop>> /\ UploadNext
    BY <1>0, <1>6, RemoteMoves DEF Apart, memory, loop_vars, control, IInv
  <2>2. \A c \in Chunk : upload[c] = "err" => upload'[c] = "err"
    BY <1>0, <2>1, UploadEnds DEF RemoteInv
  <2> QED
    BY <1>3, <2>1, <2>2
<1>7. CASE NewSession
  <2>1. UNCHANGED loop /\ dispatcher = "off"
    BY <1>7 DEF NewSession, all_vars, loop_vars, control
  <2> QED
    BY <1>0, <2>1 DEF LinkInv, Staged, Early
<1>8. CASE StaleUpload \/ Dispatch \/ GiveUp \/ ConnectionCut \/ CleanUp \/ UNCHANGED world
  <2>1. UNCHANGED <<loop, bitmap, upload>>
    BY <1>8 DEF StaleUpload, Dispatch, GiveUp, ConnectionCut, CleanUp, world, remote, all_vars,
                vars, memory, loop_vars, control
  <2> QED
    BY <1>3, <2>1
<1> QED
  BY <1>1, <1>2, <1>4, <1>5, <1>6, <1>7, <1>8, Kinds

-----------------------------------------------------------------------------
(* What a session's own gmf-remote seals carries the session's number, and *)
(* there are uploads of an earlier one only if a connection was cut or a   *)
(* session did not wait for the end of the one before.                     *)
Own == \A c \in Chunk : upload[c] \in {"put", "send", "ok"} => sealed[c].key = session

LeftBehind ==
  /\ orphaned => faults["cut"] > 0
  /\ stale # {} => faults["cut"] + faults["hurry"] > 0

(* From the PUT to the GET of its task the object is there.                *)
Awaited(c) ==
  \/ upload[c] = "send"
  \/ \E i \in received + 1 .. Len(Lines) : Names(i, c)
  \/ job[c] = "get"

Right(c) ==
  /\ bucket[c] # NoObject
  /\ bucket[c].key = session \/ faults["cut"] + faults["hurry"] > 0

Fetchable == dispatcher = "up" => \A c \in Chunk : Awaited(c) => Right(c)

StoreInv == Own /\ LeftBehind /\ Fetchable

(* Seals and objects in one step of a session's gmf-remote.                *)
LEMMA SealsMove ==
  ASSUME HalvesInv, RemoteMove, NEW c \in Chunk
  PROVE  /\ upload'[c] \in {"put", "send", "ok"} =>
              \/ upload[c] \in {"put", "send", "ok"} /\ sealed'[c] = sealed[c]
              \/ sealed'[c].key = session
         /\ bucket'[c] = bucket[c] \/ (upload[c] = "put" /\ bucket'[c] = sealed[c])
         /\ upload'[c] = "send" => upload[c] = "send" \/ bucket'[c] = sealed[c]
         /\ upload'[c] = "send" => upload[c] \in {"put", "send"}
         /\ session' = session
<1> DEFINE Goal ==
      /\ upload'[c] \in {"put", "send", "ok"} =>
           \/ upload[c] \in {"put", "send", "ok"} /\ sealed'[c] = sealed[c]
           \/ sealed'[c].key = session
      /\ bucket'[c] = bucket[c] \/ (upload[c] = "put" /\ bucket'[c] = sealed[c])
      /\ upload'[c] = "send" => upload[c] = "send" \/ bucket'[c] = sealed[c]
      /\ upload'[c] = "send" => upload[c] \in {"put", "send"}
<1>0. /\ upload \in [Chunk -> UploadPc] /\ sealed \in [Chunk -> Object \cup {NoObject}]
      /\ bucket \in [Chunk -> Object \cup {NoObject}]
  BY DEF HalvesInv, RemoteInv, StartInv, TaskTypeOK, Told, DataTypeOK, Bucket
<1>1. ASSUME RequestStart \/ RemotePrint PROVE Goal
  BY <1>1 DEF RequestStart, RemotePrint, StartRequest, PrintLine
<1>2. ASSUME RemoteStart PROVE Goal
  BY <1>0, <1>2 DEF RemoteStart, Start, Prewarm, SpawnUpload, Prewarmed, Reap, ReapOnly,
                    ReapAndSpawn, Finish, SendCompleted
<1>3. ASSUME RemoteMain PROVE Goal
  <2>1. ASSUME AbortStart \/ PrintPanics PROVE Goal
    <3>1. \A d \in Chunk :
            /\ bucket'[d] = bucket[d] \/ (upload[d] = "put" /\ bucket'[d] = sealed[d])
            /\ upload'[d] = upload[d] \/ upload'[d] = "cancelled"
      BY <2>1 DEF AbortStart, PrintPanics, DropStart
    <3>2. sealed' = sealed
      BY <2>1 DEF AbortStart, PrintPanics
    <3> QED
      BY <3>1, <3>2
  <2>2. ASSUME EndOfInput \/ StartJoined \/ Drained \/ StdoutCloses PROVE Goal
    BY <2>2 DEF EndOfInput, StartJoined, Drained, StdoutCloses
  <2> QED
    BY <1>3, <2>1, <2>2 DEF RemoteMain
<1>4. ASSUME NEW d \in Chunk, RemoteUpload(d) PROVE Goal
  <2>1. CASE ReadAndSeal(d, session)
    BY <1>0, <2>1 DEF ReadAndSeal, UploadAt
  <2>2. CASE PutObject(d)
    BY <1>0, <2>2 DEF PutObject, UploadAt, put_object
  <2>3. CASE SendReady(d)
    BY <1>0, <2>3 DEF SendReady, UploadAt
  <2>4. CASE CancelUpload(d)
    BY <1>0, <2>4 DEF CancelUpload, UploadAt, MaybeDone, put_object
  <2> QED
    BY <1>4, <2>1, <2>2, <2>3, <2>4 DEF RemoteUpload
<1>5. ASSUME NEW d \in Chunk, RemoteUploadFails(d) PROVE Goal
  BY <1>0, <1>5 DEF RemoteUploadFails, ReadFails, PutObjectFails, UploadAt, MaybeDone,
                    put_object
<1>6. session' = session
  BY RemoteMoves DEF HalvesInv, LinkInv, IInv, Apart, link
<1> QED
  BY <1>1, <1>2, <1>3, <1>4, <1>5, <1>6 DEF RemoteMove

(* Every seal of a session is its own.                                     *)
LEMMA OwnStep == HalvesInv /\ Own /\ [TransferNext]_world => Own'
<1> SUFFICES ASSUME HalvesInv, Own, [TransferNext]_world PROVE Own'
  OBVIOUS
<1>1. CASE RemoteMove
  BY <1>1, SealsMove DEF Own
<1>2. CASE NewSession
  BY <1>2 DEF NewSession, FreshRemote, Own
<1>3. CASE ~RemoteMove /\ ~NewSession
  BY <1>3, Kinds, TaskMoves
     DEF StaleUpload, Dispatch, ClientLoop, Alive, Local, Gone, GiveUp, ConnectionCut,
         CleanUp, world, remote, link, Own
<1> QED
  BY <1>1, <1>2, <1>3

(* An upload that outlives its session has been cut off, or the next       *)
(* session has not waited for it.                                          *)
LEMMA LeftStep == HalvesInv /\ LeftBehind /\ [TransferNext]_world => LeftBehind'
<1> SUFFICES ASSUME HalvesInv, LeftBehind, [TransferNext]_world PROVE LeftBehind'
  OBVIOUS
<1>0. /\ LinkTypeOK /\ StartInv /\ Staged
      /\ faults["cut"] \in Nat /\ faults["hurry"] \in Nat
      /\ faults'["cut"] \in Nat /\ faults'["hurry"] \in Nat
      /\ faults'["cut"] >= faults["cut"] /\ faults'["hurry"] >= faults["hurry"]
  BY FaultStep DEF HalvesInv, LinkInv, RemoteInv, LinkTypeOK, FaultKind
<1>1. CASE ConnectionCut
  <2>1. faults'["cut"] = faults["cut"] + 1
    BY <1>0, <1>1 DEF ConnectionCut, Fault, LinkTypeOK, FaultKind
  <2> QED
    BY <1>0, <2>1 DEF LeftBehind
<1>2. CASE Connect
  <2>1. orphaned' = FALSE /\ (stale' = stale \/ stale' = stale \cup Pending)
        /\ (orphaned \/ session = 0 \/ stale' = stale)
    BY <1>2 DEF Connect, NewSession
  <2>2. session = 0 => Pending = {}
    BY <1>0, NothingPending DEF Staged
  <2> QED
    BY <1>0, <2>1, <2>2 DEF LeftBehind
<1>3. CASE ConnectEarly
  <2>1. orphaned' = FALSE /\ faults'["hurry"] = faults["hurry"] + 1
    BY <1>0, <1>3 DEF ConnectEarly, NewSession, Fault, LinkTypeOK, FaultKind
  <2> QED
    BY <1>0, <2>1 DEF LeftBehind
<1>4. CASE ~ConnectionCut /\ ~Connect /\ ~ConnectEarly
  <2>1. UNCHANGED orphaned /\ stale' \subseteq stale
    <3>1. CASE RemoteMove
      BY <3>1, RemoteMoves DEF HalvesInv, LinkInv, IInv, Apart, link
    <3>2. CASE ~RemoteMove
      BY <1>4, <3>2, Kinds, TaskMoves
         DEF StaleUpload, Dispatch, ClientLoop, Alive, Local, Gone, GiveUp, CleanUp, world,
             link
    <3> QED
      BY <3>1, <3>2
  <2> QED
    BY <1>0, <2>1 DEF LeftBehind
<1> QED
  BY <1>1, <1>2, <1>3, <1>4

(* A line that gmf-remote's step adds announces a chunk it had to send.    *)
LEMMA NewLines ==
  ASSUME HalvesInv, RemoteMove, NEW c \in Chunk, NEW i \in 1 .. Len(Lines'), Names(i, c)'
  PROVE  (i \in 1 .. Len(Lines) /\ Names(i, c)) \/ upload[c] = "send"
<1>1. UploadNext /\ RemoteInv
  BY RemoteMoves DEF HalvesInv, LinkInv, IInv
<1>2. /\ Lines \in Seq(Message)
      /\ \/ Lines' = Lines
         \/ \E d \in Chunk : SendReady(d) /\ Lines' = Append(Lines, ChunkReady(d, sealed[d].key))
         \/ SendCompleted /\ Lines' = Append(Lines, UploadCompleted)
  BY <1>1, LinesChange DEF RemoteInv, Told
<1>3. CASE Lines' = Lines
  BY <1>3 DEF Names
<1>4. ASSUME NEW m \in Message, Lines' = Append(Lines, m)
      PROVE  (i \in 1 .. Len(Lines) /\ Lines'[i] = Lines[i]) \/ Lines'[i] = m
  BY <1>2, <1>4
<1>5. ASSUME NEW d \in Chunk, SendReady(d), Lines' = Append(Lines, ChunkReady(d, sealed[d].key))
      PROVE  (i \in 1 .. Len(Lines) /\ Names(i, c)) \/ upload[c] = "send"
  <2>1. ChunkReady(d, sealed[d].key) \in Message
    BY <1>1, <1>5, ReadyIsALine DEF RemoteInv, Told
  <2>2. CASE Lines'[i] = ChunkReady(d, sealed[d].key)
    <3>1. d = c
      BY <2>2, MessageFields DEF Names
    <3> QED
      BY <1>5, <3>1 DEF SendReady
  <2> QED
    BY <1>4, <1>5, <2>1, <2>2 DEF Names
<1>6. CASE Lines' = Append(Lines, UploadCompleted)
  <2>1. UploadCompleted \in Message
    BY DEF Message
  <2> QED
    BY <1>4, <1>6, <2>1 DEF Names
<1> QED
  BY <1>2, <1>3, <1>5, <1>6

(* The object of a chunk stays from its PUT until its own task deletes it: *)
(* nobody else overwrites it, and no clean-up happens under a session that *)
(* listens.                                                                *)
LEMMA FetchStep ==
  HalvesInv /\ HeardInv /\ StoreInv /\ [TransferNext]_world => Fetchable'
<1> SUFFICES ASSUME HalvesInv, HeardInv, StoreInv, [TransferNext]_world, dispatcher' = "up",
                    NEW c \in Chunk, Awaited(c)'
             PROVE  Right(c)'
  BY DEF Fetchable
<1>0. /\ IInv /\ RemoteInv /\ LinkInv /\ LinkTypeOK /\ Staged /\ Told /\ Sealed
      /\ Own /\ LeftBehind /\ Fetchable
      /\ faults["cut"] \in Nat /\ faults["hurry"] \in Nat
      /\ faults'["cut"] \in Nat /\ faults'["hurry"] \in Nat
      /\ faults'["cut"] >= faults["cut"] /\ faults'["hurry"] >= faults["hurry"]
  BY FaultStep
     DEF HalvesInv, LinkInv, RemoteInv, LinkTypeOK, Told, StoreInv, FaultKind
<1>p. /\ received \in Nat /\ Len(Lines) \in Nat /\ Len(events) \in Nat
      /\ received <= Len(Lines)
  BY <1>0, Positions
<1>a. ASSUME dispatcher = "up", Awaited(c), bucket'[c] = bucket[c], session' = session
      PROVE  Right(c)'
  BY <1>0, <1>a DEF Fetchable, Right
<1>b. ASSUME UNCHANGED <<upload, received, Lines, job, session, dispatcher>>,
             bucket'[c] = bucket[c]
      PROVE  Right(c)'
  <2>1. Awaited(c)
    BY <1>b DEF Awaited, Names
  <2> QED
    BY <1>a, <1>b, <2>1
<1>1. CASE RemoteMove
  <2>1. /\ UNCHANGED <<job, events, read, dispatcher, received>> /\ session' = session
        /\ bucket'[c] = bucket[c] \/ (upload[c] = "put" /\ bucket'[c] = sealed[c])
        /\ upload'[c] = "send" => upload[c] = "send" \/ bucket'[c] = sealed[c]
        /\ upload'[c] = "send" => upload[c] \in {"put", "send"}
    BY <1>0, <1>1, RemoteMoves, SealsMove
       DEF Apart, memory, loop_vars, link, received, IInv
  <2>2. CASE upload[c] = "put" /\ bucket'[c] = sealed[c]
    <3>1. sealed[c] # NoObject /\ sealed[c].key = session
      BY <1>0, <2>2, NoObjectAssumption DEF Sealed, Own
    <3> QED
      BY <2>1, <2>2, <3>1 DEF Right
  <2>3. CASE bucket'[c] = bucket[c] /\ ~(upload[c] = "put" /\ bucket'[c] = sealed[c])
    <3>1. CASE upload'[c] = "send" \/ job'[c] = "get"
      <4>1. Awaited(c)
        BY <2>1, <2>3, <3>1 DEF Awaited
      <4> QED
        BY <1>a, <2>1, <2>3, <4>1
    <3>2. ASSUME NEW i \in received + 1 .. Len(Lines'), Names(i, c)'
          PROVE  Right(c)'
      <4>1. Len(Lines') \in Nat /\ i \in 1 .. Len(Lines')
        BY <1>0, <1>p, <1>1, <3>2, RemoteMoves, LinesGrow DEF IInv
      <4>2. (i \in 1 .. Len(Lines) /\ Names(i, c)) \/ upload[c] = "send"
        BY <1>1, <3>2, <4>1, NewLines
      <4>3. Awaited(c)
        BY <1>p, <3>2, <4>1, <4>2 DEF Awaited
      <4> QED
        BY <1>a, <2>1, <2>3, <4>3
    <3> QED
      BY <2>1, <3>1, <3>2 DEF Awaited
  <2> QED
    BY <2>1, <2>2, <2>3
<1>2. CASE StaleUpload
  <2>1. UNCHANGED <<upload, received, Lines, job, session, dispatcher>>
    BY <1>2 DEF StaleUpload, memory, loop_vars, remote, received, Lines
  <2>2. faults' = faults /\ faults["cut"] + faults["hurry"] > 0
    BY <1>0, <1>2 DEF StaleUpload, LeftBehind
  <2>3. PICK p \in stale : bucket' \in MaybeDone(bucket, put_object(bucket, p[1], p[2]))
    BY <1>2 DEF StaleUpload
  <2>4. p[2] \in Object /\ p[2] # NoObject
    BY <1>0, NoObjectAssumption DEF LinkTypeOK
  <2>5. bucket'[c] = bucket[c] \/ bucket'[c] = p[2]
    BY <1>0, <2>3 DEF MaybeDone, put_object, IInv, TypeOK, Bucket
  <2> QED
    BY <1>b, <2>1, <2>2, <2>4, <2>5 DEF Right
<1>3. CASE Dispatch
  <2>1. /\ UNCHANGED <<upload, Lines, job, session, dispatcher, bucket>>
        /\ read' = read + 1 /\ Len(events') = Len(events) + 1 /\ read \in Nat
    BY <1>0, <1>3, DispatchTypes, Positions DEF Dispatch, vars, memory, remote, Lines
  <2>2. received' = received
    BY <1>p, <2>1 DEF received
  <2> QED
    BY <1>b, <2>1, <2>2
<1>4. CASE ClientLoop
  <2>1. UNCHANGED <<upload, Lines, session, dispatcher>>
    BY <1>4 DEF ClientLoop, Local, remote, link, Lines
  <2>2. CASE UNCHANGED <<vars, events, upload_completed, read, received>>
    BY <1>b, <2>1, <2>2 DEF vars, memory
  <2>3. ASSUME received' = received + 1, received + 1 \in 1 .. Len(Lines), UNCHANGED bucket,
               job'[c] = "get" => job[c] = "get" \/ Names(received + 1, c)
        PROVE  Right(c)'
    <3>1. ASSUME NEW i \in received' + 1 .. Len(Lines'), Names(i, c)'
          PROVE  i \in received + 1 .. Len(Lines) /\ Names(i, c)
      BY <1>p, <2>1, <2>3, <3>1 DEF Names
    <3>2. received + 1 \in received + 1 .. Len(Lines)
      BY <1>p, <2>3
    <3>3. Awaited(c)
      BY <2>1, <2>3, <3>1, <3>2 DEF Awaited
    <3> QED
      BY <1>a, <2>1, <2>3, <3>3
  <2>4. ASSUME RecvChunkReady, Names(received + 1, Head(events).chunk_id)
        PROVE  /\ UNCHANGED bucket
               /\ job'[c] = "get" => job[c] = "get" \/ Names(received + 1, c)
    <3>1. Head(events).chunk_id \in Chunk /\ job \in [Chunk -> JobPc]
      BY <1>0, <2>4, HeadIsReady DEF RecvChunkReady, IInv, TypeOK
    <3> QED
      BY <2>4, <3>1 DEF RecvChunkReady, Spawn, Goto
  <2>5. SkipChunkReady \/ RecvUploadCompleted => UNCHANGED <<bucket, job>>
    BY DEF SkipChunkReady, RecvUploadCompleted, vars, memory
  <2> QED
    BY <1>4, <2>2, <2>3, <2>4, <2>5, LoopHears
<1>5. CASE TaskMove
  <2>1. UNCHANGED <<upload, received, Lines, session, dispatcher>>
    BY <1>5, TaskMoves DEF Alive, Local, loop_vars, remote, link, received, Lines
  <2>2. CASE bucket'[c] = bucket[c]
    <3>1. Awaited(c)
      BY <1>0, <1>5, <2>1, JobMoves DEF Awaited, Names
    <3> QED
      BY <1>a, <2>1, <2>2, <3>1
  <2>3. CASE bucket'[c] # bucket[c]
    <3>1. job[c] = "delete" /\ job'[c] # "get"
      BY <1>0, <1>5, <2>3, JobMoves
    <3>2. PICK i \in 1 .. received : Names(i, c)
      BY <3>1 DEF HeardInv, Heard
    <3>3. i \in 1 .. Len(Lines)
      BY <1>p
    <3>4. upload[c] = "ok"
      BY <1>0, <3>2, <3>3 DEF Told, LinesAreOk, Names
    <3>5. PICK j \in received + 1 .. Len(Lines) : Names(j, c)
      BY <2>1, <3>1, <3>4 DEF Awaited, Names
    <3>6. j \in 1 .. Len(Lines) /\ j # i
      BY <1>p
    <3> QED
      BY <1>0, <3>2, <3>3, <3>5, <3>6 DEF Told, Distinct, Names
  <2> QED
    BY <2>2, <2>3
<1>6. CASE (Exit /\ Gone) \/ GiveUp \/ ConnectionCut \/ CleanUp
  BY <1>6 DEF Gone, GiveUp, ConnectionCut, CleanUp, link
<1>7. CASE UNCHANGED world
  BY <1>b, <1>7 DEF world, all_vars, vars, memory, loop_vars, remote, link, received, Lines
<1>8. CASE NewSession
  <2>1. /\ UNCHANGED <<job, events>> /\ phase = "down" /\ read' = 0
        /\ upload'[c] = "idle" /\ Lines' = <<>> /\ dispatcher = "off"
    BY <1>8 DEF NewSession, FreshRemote, all_vars, vars, memory, loop_vars, Lines
  <2>2. job'[c] = "idle"
    BY <1>0, <2>1 DEF IInv, Inv, OnlyActiveRuns
  <2>3. events' = <<>>
    BY <1>0, <2>1 DEF Staged
  <2>4. Len(Lines') = 0 /\ Len(events') = 0
    BY <2>1, <2>3
  <2>5. received' = 0
    BY <2>1, <2>4 DEF received
  <2>6. received' + 1 .. Len(Lines') = {}
    BY <2>4, <2>5
  <2> QED
    BY <2>1, <2>2, <2>6 DEF Awaited
<1> QED
  BY <1>1, <1>2, <1>3, <1>4, <1>5, <1>6, <1>7, <1>8, Kinds

-----------------------------------------------------------------------------
(* All that holds of the whole, from the start and through every step.     *)
TransferInv ==
  IInv /\ RemoteInv /\ LinkInv /\ OwedInv /\ HeardInv /\ StoreInv
    /\ PanicOnlyAfterFailedUpload

(* Before the first session there is nothing to hear, to reap or to fetch. *)
LEMMA TransferInvInit == TransferInit => TransferInv
<1> SUFFICES ASSUME TransferInit PROVE TransferInv
  OBVIOUS
<1>0. IInv /\ RemoteInv /\ LinkInv
  BY TransferInitInv
<1>1. /\ job = Idle /\ bitmap = {} /\ loop = "out" /\ join_set = {} /\ upload_completed = FALSE
      /\ dispatcher = "off" /\ main = "serving" /\ shutdown = FALSE /\ start = "off"
      /\ upload = [c \in Chunk |-> "idle"] /\ orphaned = FALSE /\ stale = {}
  BY DEF TransferInit, LoopInit, Init, UploadInit
<1>2. Len(Lines) = 0
  BY <1>0, <1>1, SilentUntilStart DEF RemoteInv
<1>3. OwedInv
  BY <1>1, <1>2 DEF OwedInv, Reported, Tried, NoneCancelled
<1>4. HeardInv
  BY <1>1 DEF HeardInv, Heard, Tallied, Idle
<1>5. StoreInv
  BY <1>1 DEF StoreInv, Own, LeftBehind, Fetchable
<1>6. PanicOnlyAfterFailedUpload
  BY <1>1 DEF PanicOnlyAfterFailedUpload
<1> QED
  BY <1>0, <1>3, <1>4, <1>5, <1>6 DEF TransferInv

(* The invariant of the whole.                                             *)
LEMMA TransferInvariance == TransferSpec => []TransferInv
<1>1. TransferInv /\ [TransferNext]_world => TransferInv'
  <2> SUFFICES ASSUME TransferInv, [TransferNext]_world PROVE TransferInv'
    OBVIOUS
  <2>1. HalvesInv /\ HeardInv /\ StoreInv /\ PanicOnlyAfterFailedUpload
    BY DEF TransferInv, HalvesInv
  <2>2. IInv' /\ RemoteInv'
    BY <2>1, HalvesStep DEF HalvesInv, LinkInv
  <2>3. LinkInv'
    BY <2>1, LinkTypeStep, StagedStep, FollowsStep DEF HalvesInv, LinkInv
  <2>4. OwedInv'
    BY <2>1, OwedStep DEF HalvesInv
  <2>5. HeardInv'
    BY <2>1, HeardStep, TalliedStep DEF HeardInv
  <2>6. StoreInv'
    BY <2>1, OwnStep, LeftStep, FetchStep DEF StoreInv
  <2>7. PanicOnlyAfterFailedUpload'
    BY <2>1, BlameStep
  <2> QED
    BY <2>2, <2>3, <2>4, <2>5, <2>6, <2>7 DEF TransferInv
<1> QED
  BY <1>1, TransferInvInit, PTL DEF TransferSpec

(* While the loop listens, a chunk that is missing is still to be          *)
(* uploaded, being uploaded, announced or being downloaded, or its upload  *)
(* has failed (client.rs:340-400, server.rs:98-190): for every number of   *)
(* chunks, every capacity and every concurrency.                           *)
THEOREM NothingIsLost == TransferSpec => []NoChunkLost
<1>1. TransferInv => NoChunkLost
  BY LostNowhere DEF TransferInv, HalvesInv
<1> QED
  BY <1>1, TransferInvariance, PTL

(* From the announcement to the GET of its task the object is in the       *)
(* bucket under the announced passphrase; only a gmf-remote that was left  *)
(* behind, by a cut connection or by a session in a hurry, can put another *)
(* one there.                                                              *)
THEOREM AnnouncementsAreFetchable == TransferSpec => []AnnouncedIsFetchable
<1>1. TransferInv => AnnouncedIsFetchable
  <2> SUFFICES ASSUME TransferInv, dispatcher = "up", NEW c \in Chunk,
                      OnTheWay(c) \/ job[c] = "get"
               PROVE  Right(c)
    BY DEF AnnouncedIsFetchable, Right
  <2>1. Awaited(c)
    BY OnTheWayIsALine DEF TransferInv, Awaited
  <2> QED
    BY <2>1 DEF TransferInv, StoreInv, Fetchable
<1> QED
  BY <1>1, TransferInvariance, PTL

(* select! panics over its disabled branches (client.rs:359) only when     *)
(* gmf-remote has failed to upload a chunk, whatever the order in which    *)
(* the last tasks end and UploadCompleted arrives.                         *)
THEOREM PanicsOnlyOverFailedUploads == TransferSpec => []PanicOnlyAfterFailedUpload
<1>1. TransferInv => PanicOnlyAfterFailedUpload
  BY DEF TransferInv
<1> QED
  BY <1>1, TransferInvariance, PTL

(* The code starts a task for every announced chunk that is not marked and *)
(* does not ask whether one is at work on it already (client.rs:382): it   *)
(* need not, no announcement it takes names a chunk that has a task.       *)
FreeToSpawn ==
  Selecting /\ ~upload_completed /\ events # <<>> /\ Head(events) # UploadCompleted =>
    job[Head(events).chunk_id] = "idle"

(* So the loop never runs two tasks on one chunk (client.rs:382-388).      *)
THEOREM OneTaskPerChunk == TransferSpec => []FreeToSpawn
<1>1. TransferInv => FreeToSpawn
  <2> SUFFICES ASSUME TransferInv, events # <<>>, Head(events) # UploadCompleted
               PROVE  job[Head(events).chunk_id] = "idle"
    BY DEF FreeToSpawn
  <2> DEFINE c == Head(events).chunk_id
  <2>0. RemoteInv /\ LinkInv /\ LinkTypeOK /\ Heard /\ Distinct
    BY DEF TransferInv, LinkInv, HeardInv, RemoteInv, Told
  <2>1. /\ received \in Nat /\ Len(Lines) \in Nat /\ Len(events) \in Nat
        /\ received + Len(events) <= Len(stdout) /\ Len(stdout) <= Len(Lines)
        /\ Len(stdout) \in Nat
        /\ \A i \in 1 .. Len(stdout) : Lines[i] = stdout[i]
    BY <2>0, Positions
  <2>2. events \in Seq(Message) /\ Head(events) = events[1] /\ Len(events) \in Nat \ {0}
    BY <2>0, TailOfEvents DEF LinkTypeOK
  <2>3. received + 1 \in 1 .. Len(Lines) /\ received + 1 \in 1 .. Len(stdout)
    BY <2>1, <2>2
  <2>4. Names(received + 1, c)
    BY <2>0, <2>1, <2>2, <2>3 DEF LinkInv, Follows, Names
  <2>5. c \in Chunk
    BY <2>2, MessageFields
  <2>6. ASSUME job[c] # "idle" PROVE FALSE
    <3>1. PICK i \in 1 .. received : Names(i, c)
      BY <2>0, <2>5, <2>6 DEF Heard
    <3>2. i \in 1 .. Len(Lines) /\ i # received + 1
      BY <2>1, <2>3
    <3> QED
      BY <2>0, <2>3, <2>4, <3>1, <3>2 DEF Distinct, Names
  <2> QED
    BY <2>6
<1> QED
  BY <1>1, TransferInvariance, PTL
=============================================================================

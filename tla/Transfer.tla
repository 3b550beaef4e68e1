------------------------------- MODULE Transfer -------------------------------
(***************************************************************************)
(* A download from end to end: gmf-remote's uploads, the lines it prints,  *)
(* the client's dispatcher, its download loop and its session, the bucket  *)
(* between them, and the user who runs gmf again until the file is there.  *)
(*                                                                         *)
(* Each session starts a new gmf-remote, which seals its chunks with       *)
(* passphrases no other session draws: the number of the session stands    *)
(* for them.  A session whose connection is cut may leave its gmf-remote   *)
(* behind, and that one still uploads to the same names.                   *)
(***************************************************************************)
EXTENDS DownloadLoop, Uploader

CONSTANTS
  FaultPlans, \* the most faults that may happen, by kind; bound of the model
  MaxSessions \* how often the user runs gmf, bound of the model

FaultKind == {"network", "cut", "crash", "disk", "hurry"}
ASSUME PlansAssumption == FaultPlans \subseteq [FaultKind -> Nat]
ASSUME SessionsAreKeys == MaxSessions \in Nat /\ Key = 1 .. MaxSessions

VARIABLES
  dispatcher, \* "off" without a session, "up", or "stopped" by an error
  read,       \* how many lines of stdout it has dispatched
  session,    \* the number of the session
  orphaned,   \* has this session's connection been cut
  stale,      \* the uploads a gmf-remote left behind may still make
  faults      \* how many faults of each kind have happened

remote ==
  <<main, shutdown, stdout_closed, task, upload, sealed, outbox, stdout, src>>
link == <<dispatcher, read, session, orphaned, stale>>
world == <<all_vars, remote, link, faults>>

Fault(kind) ==
  /\ faults' = [faults EXCEPT ![kind] = @ + 1]
  /\ \E p \in FaultPlans : \A k \in FaultKind : faults'[k] <= p[k]
Harmless == UNCHANGED faults

TransferInit ==
  /\ LoopInit
  /\ UploadInit
  /\ dispatcher = "off" /\ read = 0 /\ session = 0
  /\ orphaned = FALSE /\ stale = {} /\ faults = [k \in FaultKind |-> 0]

-----------------------------------------------------------------------------
(* gmf-remote.  It shares the bucket with the client, nothing else.        *)
Apart == UNCHANGED <<disk, memory, loop_vars, link>>
Up == session > 0

RequestStart ==
  /\ dispatcher = "up" /\ phase = "active" /\ loop = "out"
  /\ StartRequest(bitmap)
  /\ Harmless /\ Apart

RemoteStart == Up /\ Start /\ Harmless /\ Apart

RemoteUpload(c) ==
  /\ Up
  /\ \/ ReadAndSeal(c, session) \/ PutObject(c) \/ SendReady(c)
     \/ CancelUpload(c)
  /\ Harmless /\ Apart

RemoteUploadFails(c) ==
  /\ Up
  /\ \/ ReadFails(c) /\ Fault("disk")
     \/ PutObjectFails(c) /\ Fault("network")
  /\ Apart

(* As long as somebody reads, the pipe and the SSH window push back.       *)
RemotePrint ==
  /\ Up
  /\ dispatcher = "up" => Len(stdout) - read < EventCapacity
  /\ PrintLine
  /\ Harmless /\ Apart

RemoteMain ==
  /\ Up
  /\ \/ dispatcher # "up" /\ EndOfInput
     \/ dispatcher # "up" /\ StdoutCloses
     \/ StartJoined \/ AbortStart \/ Drained \/ PrintPanics
  /\ Harmless /\ Apart

(* A PUT of a gmf-remote that was left behind arrives, or it never will.   *)
StaleUpload ==
  \E p \in stale :
    /\ stale' = stale \ {p}
    /\ bucket' \in MaybeDone(bucket, put_object(bucket, p[1], p[2]))
    /\ UNCHANGED <<disk, memory, loop_vars, remote, dispatcher, read, session,
                   orphaned, faults>>

-----------------------------------------------------------------------------
(* The client.                                                             *)
Local == UNCHANGED <<remote, link>>

(* Faulty variants: the channel grows without bound; an event that finds   *)
(* it full is dropped.                                                     *)
DispatchUnbounded ==
  /\ dispatcher = "up"
  /\ read < Len(stdout)
  /\ events' = Append(events, stdout[read + 1])
  /\ read' = read + 1
  /\ UNCHANGED <<vars, control, remote, dispatcher, session, orphaned, stale,
                 faults>>

DispatchOrDrop ==
  /\ dispatcher = "up"
  /\ read < Len(stdout)
  /\ events' = IF Len(events) < EventCapacity THEN Append(events, stdout[read + 1])
                                         ELSE events
  /\ read' = read + 1
  /\ UNCHANGED <<vars, control, remote, dispatcher, session, orphaned, stale,
                 faults>>

(* The lines of stdout go to the download loop one by one (client.rs:167). *)
Dispatch ==
  /\ dispatcher = "up"
  /\ read < Len(stdout) /\ Len(events) < EventCapacity
  /\ events' = Append(events, stdout[read + 1])
  /\ read' = read + 1
  /\ UNCHANGED <<vars, control, remote, dispatcher, session, orphaned, stale,
                 faults>>

(* Nothing comes through any more: the dispatcher returns (client.rs:185   *)
(* and 193), and the loop waits on a channel nobody writes to.             *)
ConnectionCut ==
  /\ dispatcher = "up"
  /\ Fault("cut")
  /\ dispatcher' = "stopped"
  /\ orphaned' = TRUE
  /\ UNCHANGED <<all_vars, remote, read, session, stale>>

(* The loop starts when the acknowledgement of Start arrives.              *)
ClientLoop ==
  /\ loop = "out" => dispatcher = "up" /\ start # "off"
  /\ Loop
  /\ Harmless /\ Local

Alive == loop # "panicked" /\ UNCHANGED loop_vars /\ Local

Prepare ==
  /\ Alive
  /\ \/ dispatcher = "up" /\ OpenTemp /\ Harmless
     \/ (Load \/ Create \/ Created) /\ Harmless
     \/ LoadFails /\ meta = "torn" /\ Harmless
     \/ dispatcher = "up" /\ OpenTempFails /\ Fault("disk")
     \/ CreateFails /\ Fault("disk")

Task(c) ==
  /\ Alive
  /\ \/ GetObject(c)
     \/ GetObjectFails(c) /\ bucket[c] = NoObject
     \/ Decrypt(c) \/ DeleteObject(c) \/ LockMetadata(c) \/ WriteChunk(c)
     \/ MarkAndTruncate(c) \/ Save(c)
  /\ Harmless

TaskFails(c) ==
  /\ Alive
  /\ \/ (GetObjectFails(c) \/ DeleteObjectFails(c)) /\ Fault("network")
     \/ (WriteChunkFails(c) \/ MarkUnsaved(c) \/ SaveFails(c)) /\ Fault("disk")

Conclude ==
  /\ Alive /\ loop = "left"
  /\ \/ (Verify \/ Rename \/ RemoveMetadata) /\ Harmless
     \/ FinalizeFails /\ Fault("disk")

-----------------------------------------------------------------------------
(* Sessions.                                                               *)
Gone ==
  /\ dispatcher' = "off"
  /\ UNCHANGED <<remote, read, session, orphaned, stale>>

(* gmf ends by itself, or the user interrupts it because nothing happens.  *)
(* Neither cuts into new or finalize, which have no await, and the SSH and *)
(* R2 requests before the exit leave a save the time to finish.            *)
Quit ==
  /\ \/ phase \in {"done", "failed"}
     \/ loop \in {"bailed", "panicked"}
     \/ dispatcher = "stopped" /\ phase = "active" /\ loop # "left"
  /\ loop # "panicked" => md_lock = {}
  /\ Exit /\ Harmless /\ Gone

(* Before the session is open, its end is that of the connection.          *)
GiveUp ==
  /\ dispatcher = "stopped" /\ phase = "down"
  /\ dispatcher' = "off"
  /\ UNCHANGED <<all_vars, remote, read, session, orphaned, stale, faults>>

Kill == Exit /\ Fault("crash") /\ Gone

(* Faulty variant: the bucket is cleaned while a session is up.            *)
CleanUpAnyTime ==
  /\ bucket # EmptyBucket
  /\ bucket' = EmptyBucket
  /\ UNCHANGED <<disk, memory, loop_vars, remote, link, faults>>

(* delete_bucket at the end of real_main.                                  *)
CleanUp ==
  /\ dispatcher = "off" /\ bucket # EmptyBucket
  /\ bucket' = EmptyBucket
  /\ UNCHANGED <<disk, memory, loop_vars, remote, link, faults>>

FreshRemote ==
  /\ main' = "serving" /\ shutdown' = FALSE /\ stdout_closed' = FALSE
  /\ r_bitmap' = {} /\ start' = "off" /\ iter' = {} /\ in_flight' = 0
  /\ uploads' = {} /\ upload' = [c \in Chunk |-> "idle"]
  /\ sealed' = EmptyBucket /\ outbox' = <<>> /\ stdout' = <<>>
  /\ UNCHANGED src

(* What the gmf-remote of this session would still upload.                 *)
Pending == {<<c, [key |-> session, data |-> src]>> :
              c \in iter \cup {d \in Chunk : upload[d] \in {"read", "put"}}}

NewSession ==
  /\ dispatcher = "off" /\ phase = "down" /\ session < MaxSessions
  /\ finals = {}
  /\ stale' = IF main = "done" THEN stale ELSE stale \cup Pending
  /\ dispatcher' = "up" /\ read' = 0 /\ session' = session + 1
  /\ orphaned' = FALSE
  /\ FreshRemote
  /\ UNCHANGED all_vars

(* The user runs gmf again: after gmf-remote has ended, or without knowing *)
(* that it has not, because the connection was cut.                        *)
Connect ==
  /\ main = "done" \/ orphaned \/ session = 0
  /\ NewSession /\ Harmless

(* Or so soon that it has not ended: gmf closes its stdin (client.rs:423)  *)
(* and does not wait for it to notice.                                     *)
ConnectEarly ==
  /\ main # "done" /\ session > 0
  /\ NewSession /\ Fault("hurry")

Finished ==
  /\ dispatcher = "off" /\ main = "done" /\ stale = {}
  /\ finals # {} \/ session = MaxSessions
  /\ UNCHANGED world

ClientStep ==
  \/ Dispatch \/ ClientLoop \/ Prepare \/ Conclude
  \/ \E c \in Chunk : Task(c) \/ TaskFails(c)

RemoteStep ==
  \/ RequestStart \/ RemoteStart \/ RemotePrint \/ RemoteMain
  \/ \E c \in Chunk : RemoteUpload(c) \/ RemoteUploadFails(c)
  \/ StaleUpload

Session ==
  \/ Quit \/ GiveUp \/ Kill \/ ConnectionCut
  \/ CleanUp \/ Connect \/ ConnectEarly

TransferNext == ClientStep \/ RemoteStep \/ Session \/ Finished

TransferSpec == TransferInit /\ [][TransferNext]_world

(* Fairness.  Every task of either process is polled and every request is  *)
(* answered, main waits ten seconds at most, the pipe of a client that has *)
(* left closes, a left-behind gmf-remote ends, and the user tries again.   *)
(* No fairness for a fault, a clean-up or a hasty user, and none for the   *)
(* lines that gmf-remote prints when nobody reads them.                    *)
FairSpec ==
  /\ TransferSpec
  /\ WF_world(RequestStart) /\ WF_world(RemoteStart)
  /\ WF_world(dispatcher = "up" /\ RemotePrint)
  /\ WF_world(RemoteMain) /\ WF_world(StaleUpload)
  /\ \A c \in Chunk : WF_world(RemoteUpload(c)) /\ WF_world(Task(c))
  /\ WF_world(Dispatch) /\ WF_world(ClientLoop)
  /\ WF_world(Prepare) /\ WF_world(Conclude)
  /\ WF_world(Quit) /\ WF_world(GiveUp) /\ WF_world(Connect)

-----------------------------------------------------------------------------
TransferTypeOK ==
  /\ TypeOK /\ UploadTypeOK
  /\ loop \in LoopPc
  /\ completed_chunks \in 0 .. total_chunks
  /\ join_set \in SUBSET Chunk
  /\ upload_completed \in BOOLEAN
  /\ events \in Seq(Message) /\ Len(events) <= EventCapacity
  /\ dispatcher \in {"off", "up", "stopped"}
  /\ read \in 0 .. Len(stdout)
  /\ session \in 0 .. MaxSessions
  /\ orphaned \in BOOLEAN
  /\ stale \in SUBSET (Chunk \X Object)
  /\ faults \in [FaultKind -> Nat]

(* The announcements between the upload task and the download loop.        *)
OnTheWay(c) ==
  \E line \in {outbox[i] : i \in 1 .. Len(outbox)}
             \cup {stdout[i] : i \in read + 1 .. Len(stdout)}
             \cup {events[i] : i \in 1 .. Len(events)} :
    line # UploadCompleted /\ line.chunk_id = c

(* While the loop listens, every chunk that is missing is somewhere: still *)
(* to be uploaded, being uploaded, announced, being downloaded -- or its   *)
(* upload or download has failed.  Nothing drops out between the server's  *)
(* bitmap, the two channels, the pipe and the tasks.                       *)
NoChunkLost ==
  loop = "running" /\ dispatcher = "up" =>
    \A c \in Chunk \ bitmap :
      \/ c \in iter
      \/ upload[c] \in {"read", "put", "send", "err"}
      \/ OnTheWay(c)
      \/ job[c] # "idle"

(* An announced chunk can be fetched with the announced passphrase until   *)
(* its own task deletes it, whatever earlier sessions left in the bucket.  *)
(* Only a gmf-remote that runs beside the next session's, because its own  *)
(* connection was cut or has just been left, can put another one there.    *)
AnnouncedIsFetchable ==
  dispatcher = "up" =>
    \A c \in Chunk : OnTheWay(c) \/ job[c] = "get" =>
      /\ bucket[c] # NoObject
      /\ bucket[c].key = session \/ faults["cut"] + faults["hurry"] > 0

(* The loop finds all its branches disabled (client.rs:359) only when      *)
(* gmf-remote failed to upload a chunk, never from a race between the last *)
(* tasks and UploadCompleted.                                              *)
PanicOnlyAfterFailedUpload ==
  loop = "panicked" => \E c \in Chunk \ bitmap : upload[c] = "err"

(* "网络异常也能无缝恢复" (README.md:13): a network error does not take    *)
(* the client down.                                                        *)
NetworkErrorsAreHandled == loop # "panicked"

(* Network errors, cut connections and what they leave behind, failed      *)
(* writes and kills at any step only delay the download: running gmf again *)
(* completes it.  The one exception: a write of the json file that a kill  *)
(* or an error ends half way (file.rs:102) leaves a file that no session   *)
(* can load.                                                               *)
Delivered ==
  <>(\/ finals # {}
     \/ faults["crash"] + faults["disk"] > 0 /\ meta = "torn" /\ phase = "down")
=============================================================================

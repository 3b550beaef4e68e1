------------------------------- MODULE Uploader -------------------------------
(***************************************************************************)
(* gmf-remote after Setup: the start task, which keeps up to               *)
(* MAX_CONCURRENCY upload_chunk tasks going (gmf-remote/src/server.rs),    *)
(* the channel through which every task hands its responses to the writer, *)
(* and the shutdown that the end of stdin sets off (gmf-remote/src/main.rs)*)
(*                                                                         *)
(* A step is what a task does between two awaits.  Heartbeats, which share *)
(* the channel, only make it fuller: a small Capacity stands for them.     *)
(***************************************************************************)
EXTENDS Interface, FiniteSets, Sequences

CONSTANTS
  MAX_CONCURRENCY, \* 5 in the code
  Capacity         \* of the response channel, 100 in the code

ASSUME ConcurrencyAssumption == MAX_CONCURRENCY \in Nat \ {0}
ASSUME CapacityAssumption == Capacity \in Nat \ {0}

VARIABLES
  main,      \* where gmf-remote's main function stands
  shutdown,  \* the cancellation token
  r_bitmap,  \* the chunks the client said it has, as of Start
  start,     \* where the start task stands
  iter,      \* the pending ids that no task has been spawned for
  in_flight, \* the start task's own count of its tasks
  uploads,   \* start's join_set: the tasks spawned and not yet reaped
  upload,    \* where the upload_chunk task of each chunk stands
  sealed,    \* the encrypted chunk that task holds
  outbox,    \* the response channel, from the tasks to the writer
  stdout,    \* every response the writer has printed, in order
  stdout_closed, \* has the other end of the pipe gone
  src        \* what the file holds now: what was hashed, or something else

task == <<r_bitmap, start, iter, in_flight, uploads>>
upload_vars ==
  <<main, shutdown, stdout_closed, task, upload, sealed, outbox, stdout, src,
    bucket>>

UploadPc == {"idle", "read", "put", "send", "ok", "err", "cancelled"}
Over == {"ok", "err", "cancelled"}
StartPc == {"off", "prewarm", "reap", "completing", "exit", "aborted"}

UploadInit ==
  /\ main = "serving"
  /\ shutdown = FALSE
  /\ stdout_closed = FALSE
  /\ r_bitmap = {}
  /\ start = "off"
  /\ iter = {}
  /\ in_flight = 0
  /\ uploads = {}
  /\ upload = [c \in Chunk |-> "idle"]
  /\ sealed = EmptyBucket
  /\ outbox = <<>>
  /\ stdout = <<>>
  /\ src = "orig"
  /\ bucket = EmptyBucket

Send(m) ==
  /\ Len(outbox) < Capacity
  /\ outbox' = Append(outbox, m)

-----------------------------------------------------------------------------
(* Faulty variant: the client's bitmap is ignored.                         *)
StartFromScratch(done) ==
  /\ main = "serving" /\ start = "off"
  /\ start' = "prewarm"
  /\ r_bitmap' = done
  /\ iter' = Chunk
  /\ UNCHANGED <<main, shutdown, stdout_closed, in_flight, uploads, upload,
                 sealed, outbox, stdout, src, bucket>>

(* main: a Start request carries the client's bitmap of completed chunks.  *)
StartRequest(done) ==
  /\ main = "serving" /\ start = "off"
  /\ start' = "prewarm"
  /\ r_bitmap' = done
  /\ iter' = Chunk \ done
  /\ UNCHANGED <<main, shutdown, stdout_closed, in_flight, uploads, upload,
                 sealed, outbox, stdout, src, bucket>>

-----------------------------------------------------------------------------
(* start.  Its iterator yields the pending ids in ascending order.         *)
SpawnUpload(c) ==
  /\ c \in iter /\ \A d \in iter : c <= d
  /\ iter' = iter \ {c}
  /\ upload' = [upload EXCEPT ![c] = "read"]

(* Faulty variant: one task too many.                                      *)
PrewarmOneMore ==
  /\ start = "prewarm"
  /\ in_flight <= MAX_CONCURRENCY
  /\ \E c \in Chunk : SpawnUpload(c) /\ uploads' = uploads \cup {c}
  /\ in_flight' = in_flight + 1
  /\ UNCHANGED <<main, shutdown, stdout_closed, r_bitmap, start, sealed,
                 outbox, stdout, src, bucket>>

(* The prewarming loop does not look at the token.                         *)
Prewarm ==
  /\ start = "prewarm"
  /\ in_flight < MAX_CONCURRENCY
  /\ \E c \in Chunk : SpawnUpload(c) /\ uploads' = uploads \cup {c}
  /\ in_flight' = in_flight + 1
  /\ UNCHANGED <<main, shutdown, stdout_closed, r_bitmap, start, sealed,
                 outbox, stdout, src, bucket>>

Prewarmed ==
  /\ start = "prewarm"
  /\ in_flight >= MAX_CONCURRENCY \/ iter = {}
  /\ start' = "reap"
  /\ UNCHANGED <<main, shutdown, stdout_closed, r_bitmap, iter, in_flight,
                 uploads, upload, sealed, outbox, stdout, src, bucket>>

ReapOnly(c) ==
  /\ shutdown \/ iter = {}
  /\ uploads' = uploads \ {c}
  /\ in_flight' = in_flight - 1
  /\ UNCHANGED <<iter, upload>>

(* Faulty variant: the new task is not counted.                            *)
ReapAndSpawnUncounted(c) ==
  /\ ~shutdown
  /\ \E d \in Chunk : SpawnUpload(d) /\ uploads' = (uploads \ {c}) \cup {d}
  /\ in_flight' = in_flight - 1

ReapAndSpawn(c) ==
  /\ ~shutdown
  /\ \E d \in Chunk : SpawnUpload(d) /\ uploads' = (uploads \ {c}) \cup {d}
  /\ UNCHANGED in_flight

Reap(c) ==
  /\ start = "reap" /\ in_flight > 0
  /\ c \in uploads /\ upload[c] \in Over
  /\ ReapOnly(c) \/ ReapAndSpawn(c)
  /\ UNCHANGED <<main, shutdown, stdout_closed, r_bitmap, start, sealed,
                 outbox, stdout, src, bucket>>

(* Faulty variants: start does not wait for its last tasks; it ends        *)
(* without a word to the client.                                           *)
FinishEarly ==
  /\ start = "reap" /\ iter = {}
  /\ start' = IF shutdown THEN "exit" ELSE "completing"
  /\ UNCHANGED <<main, shutdown, stdout_closed, r_bitmap, iter, in_flight,
                 uploads, upload, sealed, outbox, stdout, src, bucket>>

FinishSilently ==
  /\ start = "reap" /\ in_flight = 0
  /\ start' = "exit"
  /\ UNCHANGED <<main, shutdown, stdout_closed, r_bitmap, iter, in_flight,
                 uploads, upload, sealed, outbox, stdout, src, bucket>>

Finish ==
  /\ start = "reap" /\ in_flight = 0
  /\ start' = IF shutdown THEN "exit" ELSE "completing"
  /\ UNCHANGED <<main, shutdown, stdout_closed, r_bitmap, iter, in_flight,
                 uploads, upload, sealed, outbox, stdout, src, bucket>>

SendCompleted ==
  /\ start = "completing"
  /\ Send(UploadCompleted)
  /\ start' = "exit"
  /\ UNCHANGED <<main, shutdown, stdout_closed, r_bitmap, iter, in_flight,
                 uploads, upload, sealed, stdout, src, bucket>>

-----------------------------------------------------------------------------
(* upload_chunk.                                                           *)
UploadAt(c, pc) == upload' = [upload EXCEPT ![c] = pc]

(* Read the chunk from the file and encrypt it under a fresh passphrase.   *)
ReadAndSeal(c, k) ==
  /\ upload[c] = "read"
  /\ sealed' = [sealed EXCEPT ![c] = [key |-> k, data |-> src]]
  /\ UploadAt(c, "put")
  /\ UNCHANGED <<main, shutdown, stdout_closed, task, outbox, stdout, src,
                 bucket>>

(* The file is gone, unreadable, or now ends before this chunk.            *)
ReadFails(c) ==
  /\ upload[c] = "read"
  /\ UploadAt(c, "err")
  /\ UNCHANGED <<main, shutdown, stdout_closed, task, sealed, outbox, stdout,
                 src, bucket>>

PutObject(c) ==
  /\ upload[c] = "put"
  /\ bucket' = put_object(bucket, c, sealed[c])
  /\ UploadAt(c, "send")
  /\ UNCHANGED <<main, shutdown, stdout_closed, task, sealed, outbox, stdout,
                 src>>

(* Faulty variant: the answer to the PUT is not looked at.                 *)
PutFailsUnseen(c) ==
  /\ upload[c] = "put"
  /\ bucket' \in MaybeDone(bucket, put_object(bucket, c, sealed[c]))
  /\ UploadAt(c, "send")
  /\ UNCHANGED <<main, shutdown, stdout_closed, task, sealed, outbox, stdout,
                 src>>

PutObjectFails(c) ==
  /\ upload[c] = "put"
  /\ bucket' \in MaybeDone(bucket, put_object(bucket, c, sealed[c]))
  /\ UploadAt(c, "err")
  /\ UNCHANGED <<main, shutdown, stdout_closed, task, sealed, outbox, stdout,
                 src>>

SendReady(c) ==
  /\ upload[c] = "send"
  /\ Send(ChunkReady(c, sealed[c].key))
  /\ UploadAt(c, "ok")
  /\ UNCHANGED <<main, shutdown, stdout_closed, task, sealed, stdout, src,
                 bucket>>

(* Faulty variant: the send is outside the select!.                        *)
CancelPutOnly(c) ==
  /\ shutdown
  /\ upload[c] = "put"
  /\ bucket' \in MaybeDone(bucket, put_object(bucket, c, sealed[c]))
  /\ UploadAt(c, "cancelled")
  /\ UNCHANGED <<main, shutdown, stdout_closed, task, sealed, outbox, stdout,
                 src>>

(* select! drops whatever the task was awaiting.                           *)
CancelUpload(c) ==
  /\ shutdown
  /\ \/ /\ upload[c] = "put"
        /\ bucket' \in MaybeDone(bucket, put_object(bucket, c, sealed[c]))
     \/ upload[c] = "send" /\ bucket' = bucket
  /\ UploadAt(c, "cancelled")
  /\ UNCHANGED <<main, shutdown, stdout_closed, task, sealed, outbox, stdout,
                 src>>

-----------------------------------------------------------------------------
(* The writer task.                                                        *)
PrintLine ==
  /\ outbox # <<>> /\ main # "done" /\ ~stdout_closed
  /\ stdout' = Append(stdout, Head(outbox))
  /\ outbox' = Tail(outbox)
  /\ UNCHANGED <<main, shutdown, stdout_closed, task, upload, sealed, src,
                 bucket>>

-----------------------------------------------------------------------------
(* main: the end of stdin, the wait of at most ten seconds for the start   *)
(* task, the wait for the writer.                                          *)
EndOfInput ==
  /\ main = "serving"
  /\ shutdown' = TRUE
  /\ main' = IF start = "off" THEN "draining" ELSE "waiting"
  /\ UNCHANGED <<stdout_closed, task, upload, sealed, outbox, stdout, src,
                 bucket>>

StartJoined ==
  /\ main = "waiting" /\ start = "exit"
  /\ main' = "draining"
  /\ UNCHANGED <<shutdown, stdout_closed, task, upload, sealed, outbox, stdout,
                 src, bucket>>

(* The start task is gone, and with its JoinSet the tasks in it.           *)
DropStart ==
  /\ start' = IF start \in {"off", "exit"} THEN start ELSE "aborted"
  /\ \E done \in SUBSET {c \in uploads : upload[c] = "put"} :
       bucket' = [c \in Chunk |-> IF c \in done THEN sealed[c] ELSE bucket[c]]
  /\ upload' = [c \in Chunk |-> IF c \in uploads /\ upload[c] \notin Over
                                THEN "cancelled" ELSE upload[c]]

AbortStart ==
  /\ main = "waiting" /\ start # "exit"
  /\ main' = "draining"
  /\ DropStart
  /\ UNCHANGED <<shutdown, stdout_closed, r_bitmap, iter, in_flight, uploads,
                 sealed, outbox, stdout, src>>

(* Faulty variant: main keeps its sender, and the writer waits for more.   *)
NeverDrained ==
  /\ main = "draining" /\ FALSE
  /\ main' = "done"
  /\ UNCHANGED <<shutdown, stdout_closed, task, upload, sealed, outbox, stdout,
                 src, bucket>>

Drained ==
  /\ main = "draining" /\ outbox = <<>>
  /\ main' = "done"
  /\ UNCHANGED <<shutdown, stdout_closed, task, upload, sealed, outbox, stdout,
                 src, bucket>>

(* The client's end of stdout goes away, with its process, with the SSH    *)
(* channel or with the connection; stdin may end before or after.          *)
StdoutCloses ==
  /\ ~stdout_closed
  /\ stdout_closed' = TRUE
  /\ UNCHANGED <<main, shutdown, task, upload, sealed, outbox, stdout, src,
                 bucket>>

(* println! panics over the closed pipe (main.rs:51), and a panic aborts   *)
(* the process (Cargo.toml:15), wherever its tasks are.                    *)
PrintPanics ==
  /\ outbox # <<>> /\ main # "done" /\ stdout_closed
  /\ main' = "done"
  /\ DropStart
  /\ UNCHANGED <<shutdown, stdout_closed, r_bitmap, iter, in_flight, uploads,
                 sealed, outbox, stdout, src>>

-----------------------------------------------------------------------------
(* Somebody on the remote host changes the file after it was hashed.       *)
EditSource ==
  /\ src = "orig"
  /\ src' = "edited"
  /\ UNCHANGED <<main, shutdown, stdout_closed, task, upload, sealed, outbox,
                 stdout, bucket>>

(* The client deletes an object it has been told of.                       *)
Announced(c) ==
  \E i \in 1 .. Len(stdout) :
    stdout[i] # UploadCompleted /\ stdout[i].chunk_id = c

Taken(c) ==
  /\ bucket[c] # NoObject /\ Announced(c)
  /\ bucket' = delete_object(bucket, c)
  /\ UNCHANGED <<main, shutdown, stdout_closed, task, upload, sealed, outbox,
                 stdout, src>>

Start ==
  \/ Prewarm \/ Prewarmed
  \/ \E c \in Chunk : Reap(c)
  \/ Finish \/ SendCompleted

UploadChunk(c) ==
  \/ \E k \in Key : ReadAndSeal(c, k)
  \/ ReadFails(c)
  \/ PutObject(c) \/ PutObjectFails(c)
  \/ SendReady(c)
  \/ CancelUpload(c)

Main == EndOfInput \/ StartJoined \/ AbortStart \/ Drained

UploadNext ==
  \/ \E done \in SUBSET Chunk : StartRequest(done)
  \/ Start
  \/ \E c \in Chunk : UploadChunk(c)
  \/ PrintLine \/ PrintPanics
  \/ Main \/ StdoutCloses
  \/ EditSource
  \/ \E c \in Chunk : Taken(c)

UploadSpec == UploadInit /\ [][UploadNext]_upload_vars

(* Fairness.  Every task is polled, and every read and every request to R2 *)
(* comes back with an answer or an error.  Nothing makes the client close  *)
(* stdin, read stdout or go away: what it does, and that main and the      *)
(* writer run, are premises of the properties that need them.              *)
TasksRun ==
  WF_upload_vars(Start) /\ \A c \in Chunk : WF_upload_vars(UploadChunk(c))

UploadFairSpec == UploadSpec /\ TasksRun

MainRuns == WF_upload_vars(StartJoined \/ AbortStart \/ Drained)
Read == WF_upload_vars(PrintLine)
HangsUpWholly ==
  WF_upload_vars(PrintPanics) /\ WF_upload_vars(shutdown /\ StdoutCloses)

-----------------------------------------------------------------------------
UploadTypeOK ==
  /\ main \in {"serving", "waiting", "draining", "done"}
  /\ shutdown \in BOOLEAN
  /\ stdout_closed \in BOOLEAN
  /\ r_bitmap \in SUBSET Chunk
  /\ start \in StartPc
  /\ iter \in SUBSET Chunk
  /\ in_flight \in 0 .. MAX_CONCURRENCY
  /\ uploads \in SUBSET Chunk
  /\ upload \in [Chunk -> UploadPc]
  /\ sealed \in Bucket
  /\ outbox \in Seq(Message) /\ Len(outbox) <= Capacity
  /\ stdout \in Seq(Message)
  /\ src \in Content
  /\ bucket \in Bucket

Lines == stdout \o outbox   \* everything handed to the writer, in order
Busy == {c \in Chunk : upload[c] \notin {"idle"} \cup Over}

(* The client is told of a chunk only once it can fetch it: a response     *)
(* that waits in the channel names an object that is in the bucket, sealed *)
(* with the passphrase the response carries (server.rs:264-282).           *)
AnnouncedIsStored ==
  \A i \in 1 .. Len(outbox) : outbox[i] # UploadCompleted =>
    LET c == outbox[i].chunk_id IN
      bucket[c] # NoObject /\ bucket[c].key = outbox[i].passphrase

(* One Start announces no chunk twice and none the client already has:     *)
(* DownloadSession relies on it to run one task per chunk.                 *)
AnnouncedOnce ==
  \A i \in 1 .. Len(Lines) : Lines[i] # UploadCompleted =>
    /\ Lines[i].chunk_id \notin r_bitmap
    /\ \A j \in 1 .. i - 1 : Lines[j] # UploadCompleted
         => Lines[j].chunk_id # Lines[i].chunk_id

(* UploadCompleted is the last response and no task is left to send one:   *)
(* the client stops listening when it sees it (client.rs:379).             *)
CompletedIsLast ==
  \A i \in 1 .. Len(Lines) : Lines[i] = UploadCompleted =>
    i = Len(Lines) /\ Busy = {}

(* Read, encryption, PUT or a blocked send: at most MAX_CONCURRENCY chunks *)
(* of the file are in memory (server.rs:98-180), shutdown or not.          *)
BoundedConcurrency == Cardinality(Busy) <= MAX_CONCURRENCY

(* When start says it is finished it has tried every chunk the client      *)
(* lacked; none was dropped by the reaping or by the count of tasks.       *)
EveryChunkTried ==
  start = "completing" => \A c \in Chunk \ r_bitmap : upload[c] \in Over

(* A Start always gets to UploadCompleted, however small the channel and   *)
(* whatever fails, if its lines are read and the client stays.             *)
StartCompletes ==
  Read => (start = "prewarm" ~>
    \/ shutdown \/ stdout_closed
    \/ \E i \in 1 .. Len(stdout) : stdout[i] = UploadCompleted)

(* After the hang-up the uploads stop by themselves even if nobody reads   *)
(* stdout any more: a task blocked in the channel is cancelled.  Only the  *)
(* send of UploadCompleted has no cancellation and needs the abort.        *)
ShutdownStopsUploads ==
  shutdown ~> start \in {"off", "exit", "aborted", "completing"}

(* Once the client hangs up, gmf-remote ends, without anybody reading what *)
(* it still has to say: the tasks that would fill the channel are stopped, *)
(* and once stdout has closed too, what is left in the channel ends the    *)
(* process, by the panic of its println!, instead of keeping it.           *)
ShutdownEnds == MainRuns /\ HangsUpWholly => (shutdown ~> main = "done")

(* "所有分块上传完成" (server.rs:185): all chunks have been uploaded.      *)
AllUploaded ==
  start = "completing" => \A c \in Chunk \ r_bitmap : upload[c] = "ok"

(* "存储占用控制在几十 MiB" (README.md:51): with chunks of 10 MiB          *)
(* (consts.rs:2), fewer than ten objects at any time.                      *)
StorageBounded == Cardinality({c \in Chunk : bucket[c] # NoObject}) < 10
=============================================================================

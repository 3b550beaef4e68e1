----------------------------- MODULE DownloadLoop -----------------------------
(***************************************************************************)
(* GMFClient::download_loop (gmf/src/client.rs): it receives the events    *)
(* the dispatcher forwards, spawns a handle_chunk task for each announced  *)
(* chunk, reaps the tasks, and calls finalize once the session says that   *)
(* every chunk is completed.  The session is DownloadSession; here its     *)
(* tasks are spawned and its finalize called by the loop only.             *)
(***************************************************************************)
EXTENDS DownloadSession, Sequences

CONSTANT EventCapacity   \* of the channel of download events, 100 in the code

ASSUME EventCapacityAssumption == EventCapacity \in Nat \ {0}
ASSUME FileAssumption == IsFiniteSet(Chunk)

VARIABLES
  loop,             \* where the loop stands
  completed_chunks, \* the count it last read from the session
  join_set,         \* the tasks it has spawned and not yet reaped
  upload_completed, \* has it seen UploadCompleted
  events            \* the channel of download events

control == <<loop, completed_chunks, join_set, upload_completed>>
loop_vars == <<control, events>>
all_vars == <<vars, loop_vars>>

LoopPc == {"out", "running", "draining", "left", "bailed", "panicked"}

LoopInit ==
  /\ Init
  /\ loop = "out"
  /\ completed_chunks = 0
  /\ join_set = {}
  /\ upload_completed = FALSE
  /\ events = <<>>

total_chunks == Cardinality(Chunk)

-----------------------------------------------------------------------------
Enter ==
  /\ loop = "out" /\ phase = "active"
  /\ loop' = "running"
  /\ completed_chunks' = Cardinality(bitmap)
  /\ UNCHANGED <<vars, join_set, upload_completed, events>>

(* The test at the head of the loop, on the cached count.                  *)
AllDone ==
  /\ loop = "running" /\ completed_chunks = total_chunks
  /\ loop' = "draining"
  /\ UNCHANGED <<vars, completed_chunks, join_set, upload_completed, events>>

(* The tasks still in the set are awaited and their results ignored.       *)
Drain(c) ==
  /\ loop = "draining"
  /\ c \in join_set /\ job[c] \in Ended
  /\ join_set' = join_set \ {c}
  /\ UNCHANGED <<vars, loop, completed_chunks, upload_completed, events>>

Leave ==
  /\ loop = "draining" /\ join_set = {}
  /\ loop' = "left"
  /\ UNCHANGED <<vars, completed_chunks, join_set, upload_completed, events>>

Selecting == loop = "running" /\ completed_chunks # total_chunks

(* Faulty variant: the count is not read again.                            *)
ReapWithoutCount(c) ==
  /\ Selecting
  /\ c \in join_set /\ job[c] = "success"
  /\ join_set' = join_set \ {c}
  /\ UNCHANGED <<vars, loop, completed_chunks, upload_completed, events>>

(* The first branch.  completed_chunks() waits for the metadata mutex.     *)
ReapSuccess(c) ==
  /\ Selecting
  /\ c \in join_set /\ job[c] = "success"
  /\ md_lock = {}
  /\ join_set' = join_set \ {c}
  /\ completed_chunks' = Cardinality(bitmap)
  /\ UNCHANGED <<vars, loop, upload_completed, events>>

ReapFailure(c) ==
  /\ Selecting
  /\ c \in join_set /\ job[c] = "failure"
  /\ loop' = "bailed"
  /\ UNCHANGED <<vars, completed_chunks, join_set, upload_completed, events>>

(* The second branch.  select! is biased, but a task may finish between    *)
(* the poll of the first branch and that of the second.                    *)
Receive(type) ==
  /\ Selecting /\ ~upload_completed
  /\ events # <<>> /\ Head(events).type = type
  /\ events' = Tail(events)

RecvChunkReady ==
  /\ Receive("ChunkReadyForDownload")
  /\ LET c == Head(events).chunk_id IN
       /\ md_lock = {} /\ c \notin bitmap
       /\ Spawn(c, Head(events).passphrase)
       /\ join_set' = join_set \cup {c}
  /\ UNCHANGED <<loop, completed_chunks, upload_completed>>

SkipChunkReady ==
  /\ Receive("ChunkReadyForDownload")
  /\ md_lock = {} /\ Head(events).chunk_id \in bitmap
  /\ UNCHANGED <<vars, control>>

RecvUploadCompleted ==
  /\ Receive("UploadCompleted")
  /\ upload_completed' = TRUE
  /\ UNCHANGED <<vars, loop, completed_chunks, join_set>>

(* The task set is empty, the other two branches are switched off: select! *)
(* panics, and the release profile aborts the process.                     *)
AllBranchesDisabled ==
  /\ Selecting
  /\ upload_completed /\ join_set = {}
  /\ loop' = "panicked"
  /\ UNCHANGED <<vars, completed_chunks, join_set, upload_completed, events>>

-----------------------------------------------------------------------------
(* The end of the process takes the loop with it.                          *)
Exit ==
  /\ Die
  /\ loop' = "out"
  /\ completed_chunks' = 0
  /\ join_set' = {}
  /\ upload_completed' = FALSE
  /\ events' = <<>>

Loop ==
  \/ Enter \/ AllDone \/ Leave
  \/ \E c \in Chunk : Drain(c) \/ ReapSuccess(c) \/ ReapFailure(c)
  \/ RecvChunkReady \/ SkipChunkReady \/ RecvUploadCompleted
  \/ AllBranchesDisabled
=============================================================================

------------------------------- MODULE Requests -------------------------------
(***************************************************************************)
(* The two requests of a session, Setup and Start, from the client's       *)
(* bitmap on disk to gmf-remote's list of pending chunks and back, over    *)
(* both directions of the line protocol and over several sessions.         *)
(*                                                                         *)
(* Up carries the lines to gmf-remote's stdin, Down those of its stdout.   *)
(* The transfer itself is one action: a pending chunk is completed.        *)
(***************************************************************************)
EXTENDS Chunking, Sequences

CONSTANTS
  Geometries,  \* the sizes a file and its chunks may have
  Capacity,    \* of the channels behind the two readers, 100 in the code
  MaxSessions, \* how often the user runs gmf, bound of the model
  NotJson,     \* a line that is not a message
  None         \* a write-once cell that is not set, a file that is absent

ASSUME GeometriesAssumption ==
  Geometries \subseteq [size : 0 .. 2^Precision - 1, chunk_size : Nat \ {0}]
ASSUME MaxSessionsAssumption == MaxSessions \in Nat
ASSUME NoneAssumption ==
  /\ None \notin [file_size : Nat, chunk_size : Nat, total_chunks : Nat]
  /\ None \notin [len : Nat, ones : SUBSET Nat]

VARIABLES
  file,       \* the file on the remote host, with what setup finds there
  json,       \* the bitmap in the client's json file, as it was serialised
  client,     \* where the client stands, panicked included
  bitmap,     \* its bitmap in memory
  remaining,  \* the answer to Start
  remote,     \* is gmf-remote up, or has it panicked
  METADATA,   \* its write-once cells
  CHUNK_BITMAP,
  session,
  up_stream, up_buffer, requests,
  down_stream, down_buffer, responses

up == <<up_stream, up_buffer, requests>>
down == <<down_stream, down_buffer, responses>>
cells == <<METADATA, CHUNK_BITMAP>>
local == <<json, client, bitmap, remaining>>
vars == <<file, local, remote, cells, session, up, down>>

-----------------------------------------------------------------------------
(* The messages.                                                           *)
Packed(bm) == [k |-> Words(bm.len), words |-> Serialize(bm)]
Unpacked(p) == Deserialize(p.k, p.words)

Setup(chunk_size) == [type |-> "Setup", chunk_size |-> chunk_size]
Start(bm) == [type |-> "Start", chunk_bitmap |-> Packed(bm)]
SetupSuccess(m) ==
  [type |-> "SetupSuccess", file_size |-> m.file_size, total_chunks |-> m.total_chunks]
StartSuccess(n) == [type |-> "StartSuccess", remaining_size |-> n]
Error == [type |-> "Error"]
Heartbeat == [type |-> "Heartbeat"]

Bitmaps(n) == [len : {n}, ones : SUBSET (0 .. n - 1)]
Counts == {total_chunks(g.size, g.chunk_size) : g \in Geometries}

Request ==
  {Setup(g.chunk_size) : g \in Geometries}
    \cup UNION {{Start(bm) : bm \in Bitmaps(n) \cup Bitmaps(Words(n) * WordBits)} : n \in Counts}
Response ==
  {Error, Heartbeat}
    \cup {SetupSuccess([file_size |-> g.size,
                        total_chunks |-> total_chunks(g.size, g.chunk_size)]) : g \in Geometries}
    \cup {StartSuccess(n) : n \in 0 .. 2^Precision - 1}

ASSUME NotJsonAssumption == NotJson \notin Request \cup Response

Up == INSTANCE Framing WITH
  stream <- up_stream, buffer <- up_buffer, channel <- requests, Message <- Request
Down == INSTANCE Framing WITH
  stream <- down_stream, buffer <- down_buffer, channel <- responses, Message <- Response

Quiet == UNCHANGED <<file, session>>
Local == UNCHANGED local
Remote == UNCHANGED <<remote, cells>>

Init ==
  /\ file \in [geometry : Geometries, state : {"readable", "missing", "unreadable"}]
  /\ json = None /\ client = "off" /\ bitmap = NewBitmap(0) /\ remaining = 0
  /\ remote = "off" /\ METADATA = None /\ CHUNK_BITMAP = None
  /\ session = 0
  /\ Up!Empty /\ Down!Empty

-----------------------------------------------------------------------------
(* The client.                                                             *)

(* What the login scripts of the host print comes before gmf-remote.       *)
Connect ==
  /\ client = "off" /\ session < MaxSessions
  /\ session' = session + 1
  /\ client' = "connected" /\ remote' = "up"
  /\ Up!Empty /\ UNCHANGED up
  /\ Down!WriteLine(NotJson) \/ UNCHANGED down
  /\ UNCHANGED <<file, json, bitmap, remaining, cells>>

(* wait_ready waits for the first heartbeat.  Later ones may come between  *)
(* any two other messages.                                                 *)
RecvHeartbeat ==
  /\ client \notin {"off", "stopped", "panicked"}
  /\ Down!Handle(Heartbeat)
  /\ client' = IF client = "connected" THEN "ready" ELSE client
  /\ UNCHANGED <<json, bitmap, remaining, up>> /\ Remote /\ Quiet

SendSetup ==
  /\ client = "ready"
  /\ Up!WriteLine(Setup(file.geometry.chunk_size))
  /\ client' = "setup"
  /\ UNCHANGED <<json, bitmap, remaining, down>> /\ Remote /\ Quiet

(* DownloadSession::new: the json file has the bitmap of an earlier        *)
(* session, or is created with an empty one.                               *)
RecvSetupSuccess ==
  /\ client = "setup"
  /\ \E m \in Response :
       /\ m.type = "SetupSuccess" /\ Down!Handle(m)
       /\ bitmap' = IF json = None THEN NewBitmap(m.total_chunks) ELSE Unpacked(json)
       /\ json' = IF json = None THEN Packed(bitmap') ELSE json
  /\ client' = "opened"
  /\ UNCHANGED <<remaining, up>> /\ Remote /\ Quiet

(* The bitmap of an empty file has no word, and bytemuck::cast_slice       *)
(* panics when the empty Vec it is decoded to is not aligned for a u64:    *)
(* Metadata::load here, gmf-remote in HandleStart.                         *)
LoadPanics ==
  /\ client = "setup" /\ json # None /\ json.k = 0
  /\ \E m \in Response : m.type = "SetupSuccess" /\ Down!Handle(m)
  /\ client' = "panicked"
  /\ UNCHANGED <<json, bitmap, remaining, up>> /\ Remote /\ Quiet

(* Faulty variant: Start does not wait for the answer to Setup.            *)
SendStartAtOnce ==
  /\ client \in {"setup", "opened"}
  /\ Up!WriteLine(Start(bitmap))
  /\ client' = "start"
  /\ UNCHANGED <<json, bitmap, remaining, down>> /\ Remote /\ Quiet

SendStart ==
  /\ client = "opened"
  /\ Up!WriteLine(Start(bitmap))
  /\ client' = "start"
  /\ UNCHANGED <<json, bitmap, remaining, down>> /\ Remote /\ Quiet

RecvStartSuccess ==
  /\ client = "start"
  /\ \E m \in Response :
       /\ m.type = "StartSuccess" /\ Down!Handle(m)
       /\ remaining' = m.remaining_size
  /\ client' = "transfer"
  /\ UNCHANGED <<json, bitmap, up>> /\ Remote /\ Quiet

(* The dispatcher returns; setup and start wait on.                        *)
RecvError ==
  /\ client \in {"setup", "start"}
  /\ Down!Handle(Error)
  /\ client' = "stopped"
  /\ UNCHANGED <<json, bitmap, remaining, up>> /\ Remote /\ Quiet

(* handle_chunk marks the chunk and saves the whole bitmap.                *)
Complete(c) ==
  /\ client = "transfer" /\ remote = "up"
  /\ c \in pending_ids(CHUNK_BITMAP) \ bitmap.ones
  /\ bitmap' = mark_completed(bitmap, c)
  /\ json' = Packed(bitmap')
  /\ UNCHANGED <<client, remaining, up, down>> /\ Remote /\ Quiet

(* The end of a session: everything but the json file is gone, and that    *)
(* one too if finalize has published the file.                             *)
End ==
  /\ client # "off"
  /\ json' \in {json} \cup (IF client = "transfer" /\ METADATA # None
                               /\ completed_count(bitmap) = METADATA.total_chunks
                            THEN {None} ELSE {})
  /\ client' = "off" /\ bitmap' = NewBitmap(0) /\ remaining' = 0
  /\ remote' = "off" /\ METADATA' = None /\ CHUNK_BITMAP' = None
  /\ Up!Reset /\ Down!Reset /\ Quiet

-----------------------------------------------------------------------------
(* gmf-remote.                                                             *)
Answer(m) == Down!WriteLine(m)

(* A panic takes the process with it (Cargo.toml, panic = "abort").        *)
Panic == remote' = "panicked" /\ UNCHANGED <<cells, down>>

(* Bound of the model: at most one line lies ahead of a heartbeat.         *)
Beat ==
  /\ remote = "up" /\ Len(down_stream) <= Len(Down!Line(Heartbeat))
  /\ Answer(Heartbeat)
  /\ UNCHANGED up /\ Local /\ Remote /\ Quiet

HandleSetup ==
  /\ remote = "up"
  /\ Up!Handle(Setup(file.geometry.chunk_size))
  /\ \/ /\ file.state = "missing"
        /\ Answer(Error) /\ UNCHANGED <<remote, cells>>
     \/ (file.state = "unreadable" \/ METADATA # None) /\ Panic
     \/ LET g == file.geometry IN
        /\ file.state = "readable" /\ METADATA = None
        /\ METADATA' = [file_size |-> g.size, chunk_size |-> g.chunk_size,
                        total_chunks |-> total_chunks(g.size, g.chunk_size)]
        /\ Answer(SetupSuccess(METADATA'))
        /\ UNCHANGED <<remote, CHUNK_BITMAP>>
  /\ Local /\ Quiet

(* Faulty variant: the bitmap is taken as it was decoded.                  *)
AsDecoded(bm) == bm

Fitted(bm) ==
  IF bm.len > METADATA.total_chunks THEN truncate(bm, METADATA.total_chunks) ELSE bm

HandleStart ==
  /\ remote = "up"
  /\ \E m \in Request :
       /\ m.type = "Start" /\ Up!Handle(m)
       /\ \/ (METADATA = None \/ CHUNK_BITMAP # None \/ m.chunk_bitmap.k = 0) /\ Panic
          \/ /\ METADATA # None /\ CHUNK_BITMAP = None
             /\ CHUNK_BITMAP' = Fitted(Unpacked(m.chunk_bitmap))
             /\ Answer(StartSuccess(remaining_size(METADATA.file_size,
                         METADATA.chunk_size, completed_count(CHUNK_BITMAP'))))
             /\ UNCHANGED <<remote, METADATA>>
  /\ Local /\ Quiet

-----------------------------------------------------------------------------
UpStep ==
  /\ remote = "up" /\ (Up!Packet \/ Up!Forward)
  /\ UNCHANGED down /\ Local /\ Remote /\ Quiet

DownStep ==
  /\ client \notin {"off", "panicked"} /\ (Down!Packet \/ Down!Forward \/ Down!Ignore)
  /\ UNCHANGED up /\ Local /\ Remote /\ Quiet

Next ==
  \/ Connect \/ RecvHeartbeat \/ SendSetup \/ RecvSetupSuccess \/ LoadPanics
  \/ SendStart \/ RecvStartSuccess \/ RecvError \/ End
  \/ \E c \in 0 .. bitmap.len - 1 : Complete(c)
  \/ Beat \/ HandleSetup \/ HandleStart
  \/ UpStep \/ DownStep

Spec == Init /\ [][Next]_vars

-----------------------------------------------------------------------------
TypeOK ==
  /\ client \in {"off", "connected", "ready", "setup", "opened", "start", "transfer",
                 "stopped", "panicked"}
  /\ remote \in {"off", "up", "panicked"}
  /\ bitmap.ones \subseteq 0 .. bitmap.len - 1
  /\ METADATA # None =>
       METADATA \in [file_size : Nat, chunk_size : Nat, total_chunks : Nat]
  /\ CHUNK_BITMAP # None => CHUNK_BITMAP.ones \subseteq 0 .. CHUNK_BITMAP.len - 1
  /\ session \in 0 .. MaxSessions

Size == file.geometry.size
ChunkSize == file.geometry.chunk_size

(* Every byte of the file is in exactly one of the chunks that setup       *)
(* counts, and no chunk is empty, although the count is a quotient of      *)
(* floats (server.rs:58).                                                  *)
ChunksTileFile ==
  METADATA # None =>
    LET Chunks == {ChunkBytes(c, Size, ChunkSize) : c \in 0 .. METADATA.total_chunks - 1}
    IN /\ UNION Chunks = 0 .. Size - 1
       /\ {} \notin Chunks
       /\ Cardinality(Chunks) = METADATA.total_chunks

(* gmf-remote will upload exactly the chunks that the client lacks: no     *)
(* completed one again, and none of the padding that the bitmap acquires   *)
(* each time it is serialised, in the json file and in the request         *)
(* (main.rs:92).                                                           *)
Lacking == {c \in 0 .. Size : ChunkBytes(c, Size, ChunkSize) # {}} \ bitmap.ones

PendingIsExact ==
  client = "start" /\ CHUNK_BITMAP # None => pending_ids(CHUNK_BITMAP) = Lacking

(* remaining_size counts a short last chunk as a whole one (main.rs:99):   *)
(* it is never more than what is missing, and less by no whole chunk.      *)
MissingBytes ==
  {b \in 0 .. Size - 1 : b \div ChunkSize \in pending_ids(CHUNK_BITMAP)}

RemainingIsClose ==
  client = "transfer" /\ CHUNK_BITMAP # None =>
    LET missing == Cardinality(MissingBytes)
    IN remaining <= missing /\ missing < remaining + ChunkSize

(* The client's order of requests never sets a cell twice nor reads one    *)
(* that is not set, also after an Error (metadata.rs:41-61): gmf-remote    *)
(* panics only over a file it cannot hash or over an empty one, and the    *)
(* client only over the json file of an empty one (chunk_bitmap.rs:70).    *)
PanicsOnlyOverTheFile ==
  /\ remote = "panicked" => file.state = "unreadable" \/ Size = 0
  /\ client = "panicked" => Size = 0

(* Either direction is a queue of whole messages, however the stream is    *)
(* cut (comm.rs:44, msg.rs:27) and whatever else is printed.               *)
Connection == <<session, client = "off">>
UpFifo == INSTANCE Fifo WITH
  queue <- Up!InFlight, channel <- requests, connection <- Connection, Message <- Request,
  Noise <- {NotJson}
DownFifo == INSTANCE Fifo WITH
  queue <- Down!InFlight, channel <- responses, connection <- Connection, Message <- Response,
  Noise <- {NotJson}
RequestsInOrder == UpFifo!Spec
ResponsesInOrder == DownFifo!Spec
=============================================================================

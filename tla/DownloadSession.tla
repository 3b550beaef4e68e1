--------------------------- MODULE DownloadSession ---------------------------
(***************************************************************************)
(* gmf/src/file.rs: the local half of a download.  A session keeps two     *)
(* files, <xxh3>.gmf in the working directory (the chunks as they arrive)  *)
(* and <xxh3>.json in the application directory (which chunks have), and   *)
(* runs one handle_chunk task per announced chunk.  The process may die at *)
(* any step; the next session finds what is on disk.                       *)
(*                                                                         *)
(* A step of the model is what happens between two points where another    *)
(* task or the death of the process can intervene: an await, a system call *)
(* that changes a file, a request to R2.  Metadata::save is two steps,     *)
(* because fs::write truncates the file before it writes it, and what it   *)
(* writes was serialised before that.                                      *)
(***************************************************************************)
EXTENDS Interface, FiniteSets

CONSTANT NoKey   \* the passphrase of a chunk that has no task

ASSUME NoKeyAssumption == NoKey \notin Key

VARIABLES
  (* on disk *)
  temp_exists, \* does <xxh3>.gmf exist
  temp,        \* what each chunk's region of it holds; "hole" if nothing yet
  meta,        \* <xxh3>.json: "absent", "torn" by an unfinished write, "valid"
  saved,       \* the chunk_bitmap in it, as of the last finished write
  finals,      \* the contents of the files a session has published
  (* in the memory of the process *)
  phase,       \* where the session stands
  bitmap,      \* Metadata.chunk_bitmap: the chunks marked completed
  md_lock,     \* the tasks inside the metadata mutex
  job,         \* where the handle_chunk task of each chunk stands
  pass,        \* the passphrase it was given
  got,         \* the object it has downloaded
  metadata_content \* the bits it has serialised and not yet written out

disk == <<temp_exists, temp, meta, saved, finals>>
memory == <<phase, bitmap, md_lock, job, pass, got, metadata_content>>
vars == <<disk, bucket, memory>>

Region == Content \cup {"hole"}
Phase == {"down", "opening", "creating", "active", "verified", "renamed",
          "done", "failed"}
JobPc == {"idle", "get", "decrypt", "delete", "lock", "write", "mark",
          "saving", "success", "failure"}

EmptyFile == [c \in Chunk |-> "hole"]
Original == [c \in Chunk |-> "orig"]

Idle == [c \in Chunk |-> "idle"]
NoPass == [c \in Chunk |-> NoKey]
NoContent == [c \in Chunk |-> {}]

Ended == {"success", "failure"}
Critical == {"write", "mark", "saving"}   \* inside the metadata mutex
Running(c) == job[c] \notin {"idle"} \cup Ended

Init ==
  /\ temp_exists = FALSE
  /\ temp = EmptyFile
  /\ meta = "absent"
  /\ saved = {}
  /\ finals = {}
  /\ bucket = EmptyBucket
  /\ phase = "down"
  /\ bitmap = {}
  /\ md_lock = {}
  /\ job = Idle
  /\ pass = NoPass
  /\ got = EmptyBucket
  /\ metadata_content = NoContent

-----------------------------------------------------------------------------
(* DownloadSession::new: open or create <xxh3>.gmf, then load or create    *)
(* <xxh3>.json.                                                            *)

(* Faulty variant: the file is opened with truncation.                     *)
OpenTempTruncating ==
  /\ phase = "down"
  /\ phase' = "opening"
  /\ temp_exists' = TRUE
  /\ temp' = EmptyFile
  /\ UNCHANGED <<meta, saved, finals, bucket, bitmap, md_lock, job, pass, got,
                 metadata_content>>

OpenTemp ==
  /\ phase = "down"
  /\ phase' = "opening"
  /\ temp_exists' = TRUE
  /\ UNCHANGED <<temp, meta, saved, finals, bucket, bitmap, md_lock, job, pass,
                 got, metadata_content>>

(* The file is there but cannot be opened, or cannot be given its size.    *)
OpenTempFails ==
  /\ phase = "down"
  /\ phase' = "failed"
  /\ temp_exists' \in {temp_exists, TRUE}
  /\ UNCHANGED <<temp, meta, saved, finals, bucket, bitmap, md_lock, job, pass,
                 got, metadata_content>>

Load ==
  /\ phase = "opening" /\ meta = "valid"
  /\ bitmap' = saved
  /\ phase' = "active"
  /\ UNCHANGED <<disk, bucket, md_lock, job, pass, got, metadata_content>>

(* serde_json rejects a half-written file; load itself rejects one written *)
(* for another path, size or chunk size.  Either way setup gives up.       *)
LoadFails ==
  /\ phase = "opening" /\ meta # "absent"
  /\ phase' = "failed"
  /\ UNCHANGED <<disk, bucket, bitmap, md_lock, job, pass, got,
                 metadata_content>>

Create ==
  /\ phase = "opening" /\ meta = "absent"
  /\ bitmap' = {}
  /\ meta' = "torn"
  /\ phase' = "creating"
  /\ UNCHANGED <<temp_exists, temp, saved, finals, bucket, md_lock, job, pass,
                 got, metadata_content>>

Created ==
  /\ phase = "creating"
  /\ meta' = "valid"
  /\ saved' = bitmap
  /\ phase' = "active"
  /\ UNCHANGED <<temp_exists, temp, finals, bucket, bitmap, md_lock, job, pass,
                 got, metadata_content>>

(* The json file cannot be opened, or is opened and cannot be written.     *)
CreateFails ==
  /\ phase = "creating" \/ (phase = "opening" /\ meta = "absent")
  /\ phase' = "failed"
  /\ UNCHANGED <<disk, bucket, bitmap, md_lock, job, pass, got,
                 metadata_content>>

-----------------------------------------------------------------------------
(* handle_chunk, one task per announced chunk.                             *)

Goto(c, pc) == job' = [job EXCEPT ![c] = pc]

(* download_loop hands over a chunk whose bit is not set; gmf-remote       *)
(* announces no chunk twice, so one task at most works on a chunk.         *)
Spawn(c, k) ==
  /\ phase = "active" /\ job[c] = "idle" /\ c \notin bitmap
  /\ Goto(c, "get")
  /\ pass' = [pass EXCEPT ![c] = k]
  /\ UNCHANGED <<disk, bucket, phase, bitmap, md_lock, got, metadata_content>>

(* Faulty variant: the status code of the answer is not looked at.         *)
GetWhatever(c) ==
  /\ job[c] = "get"
  /\ got' = [got EXCEPT ![c] = bucket[c]]
  /\ Goto(c, "decrypt")
  /\ UNCHANGED <<disk, bucket, phase, bitmap, md_lock, pass, metadata_content>>

GetObject(c) ==
  /\ job[c] = "get"
  /\ bucket[c] # NoObject
  /\ got' = [got EXCEPT ![c] = bucket[c]]
  /\ Goto(c, "decrypt")
  /\ UNCHANGED <<disk, bucket, phase, bitmap, md_lock, pass, metadata_content>>

(* No such object, or no answer after the retries.                         *)
GetObjectFails(c) ==
  /\ job[c] = "get"
  /\ Goto(c, "failure")
  /\ UNCHANGED <<disk, bucket, phase, bitmap, md_lock, pass, got,
                 metadata_content>>

Decrypt(c) ==
  /\ job[c] = "decrypt"
  /\ Goto(c, IF got[c].key = pass[c] THEN "delete" ELSE "failure")
  /\ UNCHANGED <<disk, bucket, phase, bitmap, md_lock, pass, got,
                 metadata_content>>

DeleteObject(c) ==
  /\ job[c] = "delete"
  /\ bucket' = delete_object(bucket, c)
  /\ Goto(c, "lock")
  /\ UNCHANGED <<disk, phase, bitmap, md_lock, pass, got, metadata_content>>

DeleteObjectFails(c) ==
  /\ job[c] = "delete"
  /\ bucket' \in MaybeDone(bucket, delete_object(bucket, c))
  /\ Goto(c, "failure")
  /\ UNCHANGED <<disk, phase, bitmap, md_lock, pass, got, metadata_content>>

(* Faulty variant: the task does not wait for the mutex.                   *)
LockWithoutWaiting(c) ==
  /\ job[c] = "lock"
  /\ md_lock' = md_lock \cup {c}
  /\ Goto(c, "write")
  /\ UNCHANGED <<disk, bucket, phase, bitmap, pass, got, metadata_content>>

(* The file's own mutex is only ever taken inside this one.                *)
LockMetadata(c) ==
  /\ job[c] = "lock" /\ md_lock = {}
  /\ md_lock' = md_lock \cup {c}
  /\ Goto(c, "write")
  /\ UNCHANGED <<disk, bucket, phase, bitmap, pass, got, metadata_content>>

WriteChunk(c) ==
  /\ job[c] = "write"
  /\ temp' = [temp EXCEPT ![c] = got[c].data]
  /\ Goto(c, "mark")
  /\ UNCHANGED <<temp_exists, meta, saved, finals, bucket, phase, bitmap,
                 md_lock, pass, got, metadata_content>>

(* Faulty variant: the error of the write is not looked at.                *)
WriteFailsUnseen(c) ==
  /\ job[c] = "write"
  /\ temp' = [temp EXCEPT ![c] = "hole"]
  /\ Goto(c, "mark")
  /\ UNCHANGED <<temp_exists, meta, saved, finals, bucket, phase, bitmap,
                 md_lock, pass, got, metadata_content>>

(* It fails before the first byte or half way.                             *)
WriteChunkFails(c) ==
  /\ job[c] = "write"
  /\ temp' \in {temp, [temp EXCEPT ![c] = "hole"]}
  /\ md_lock' = md_lock \ {c}
  /\ Goto(c, "failure")
  /\ UNCHANGED <<temp_exists, meta, saved, finals, bucket, phase, bitmap, pass,
                 got, metadata_content>>

(* Faulty variant: the bitmap is serialised before the chunk is marked.    *)
SerialiseAndMark(c) ==
  /\ job[c] = "mark"
  /\ bitmap' = bitmap \cup {c}
  /\ metadata_content' = [metadata_content EXCEPT ![c] = bitmap]
  /\ meta' = "torn"
  /\ Goto(c, "saving")
  /\ UNCHANGED <<temp_exists, temp, saved, finals, bucket, phase, md_lock,
                 pass, got>>

(* mark_completed, then save as far as the open that truncates the file.   *)
MarkAndTruncate(c) ==
  /\ job[c] = "mark"
  /\ bitmap' = bitmap \cup {c}
  /\ metadata_content' = [metadata_content EXCEPT ![c] = bitmap']
  /\ meta' = "torn"
  /\ Goto(c, "saving")
  /\ UNCHANGED <<temp_exists, temp, saved, finals, bucket, phase, md_lock,
                 pass, got>>

(* The bit is set in memory, but the json file cannot even be opened: it   *)
(* stays as it was, with the bits of an earlier save.                      *)
MarkUnsaved(c) ==
  /\ job[c] = "mark"
  /\ bitmap' = bitmap \cup {c}
  /\ md_lock' = md_lock \ {c}
  /\ Goto(c, "failure")
  /\ UNCHANGED <<disk, bucket, phase, pass, got, metadata_content>>

Save(c) ==
  /\ job[c] = "saving"
  /\ meta' = "valid"
  /\ saved' = metadata_content[c]
  /\ metadata_content' = [metadata_content EXCEPT ![c] = {}]
  /\ md_lock' = md_lock \ {c}
  /\ Goto(c, "success")
  /\ UNCHANGED <<temp_exists, temp, finals, bucket, phase, bitmap, pass, got>>

(* The disk is full: the bit stays set in memory, the file stays torn.     *)
SaveFails(c) ==
  /\ job[c] = "saving"
  /\ metadata_content' = [metadata_content EXCEPT ![c] = {}]
  /\ md_lock' = md_lock \ {c}
  /\ Goto(c, "failure")
  /\ UNCHANGED <<disk, bucket, phase, bitmap, pass, got>>

-----------------------------------------------------------------------------
(* finalize.  Its caller has drained the task set, so no task is running.  *)

(* Faulty variant: finalize trusts the bitmap and computes no hash.        *)
VerifyCountOnly ==
  /\ phase = "active"
  /\ \A c \in Chunk : ~Running(c)
  /\ phase' = IF bitmap = Chunk THEN "verified" ELSE "failed"
  /\ UNCHANGED <<disk, bucket, bitmap, md_lock, job, pass, got,
                 metadata_content>>

Verify ==
  /\ phase = "active"
  /\ \A c \in Chunk : ~Running(c)
  /\ phase' = IF bitmap = Chunk /\ temp = Original THEN "verified" ELSE "failed"
  /\ UNCHANGED <<disk, bucket, bitmap, md_lock, job, pass, got,
                 metadata_content>>

Rename ==
  /\ phase = "verified"
  /\ finals' = finals \cup {temp}
  /\ temp_exists' = FALSE
  /\ temp' = EmptyFile
  /\ phase' = "renamed"
  /\ UNCHANGED <<meta, saved, bucket, bitmap, md_lock, job, pass, got,
                 metadata_content>>

RemoveMetadata ==
  /\ phase = "renamed"
  /\ meta' = "absent"
  /\ saved' = {}
  /\ phase' = "done"
  /\ UNCHANGED <<temp_exists, temp, finals, bucket, bitmap, md_lock, job, pass,
                 got, metadata_content>>

(* Faulty variant: a failing finalize clears up behind itself.             *)
FinalizeFailsAndRemoves ==
  /\ phase \in {"verified", "renamed"}
  /\ phase' = "failed"
  /\ meta' = "absent"
  /\ saved' = {}
  /\ UNCHANGED <<temp_exists, temp, finals, bucket, bitmap, md_lock, job, pass,
                 got, metadata_content>>

FinalizeFails ==
  /\ phase \in {"verified", "renamed"}
  /\ phase' = "failed"
  /\ UNCHANGED <<disk, bucket, bitmap, md_lock, job, pass, got,
                 metadata_content>>

-----------------------------------------------------------------------------
(* The end of the process, by whatever cause: it has finished, it gave up, *)
(* the user interrupted it, it panicked, it was killed.                    *)
Die ==
  /\ phase # "down"
  /\ phase' = "down"
  /\ bitmap' = {}
  /\ md_lock' = {}
  /\ job' = Idle
  /\ pass' = NoPass
  /\ got' = EmptyBucket
  /\ metadata_content' = NoContent
  /\ UNCHANGED <<disk, bucket>>

(* Whoever else writes to the bucket: the gmf-remote of this session, one  *)
(* left over from an earlier session, a session of another user.           *)
Outside ==
  /\ \E c \in Chunk :
       \/ \E o \in Object : bucket' = put_object(bucket, c, o)
       \/ bucket' = delete_object(bucket, c)
  /\ UNCHANGED <<disk, memory>>

New ==
  \/ OpenTemp \/ OpenTempFails
  \/ Load \/ LoadFails
  \/ Create \/ Created \/ CreateFails

HandleChunk(c) ==
  \/ GetObject(c) \/ GetObjectFails(c)
  \/ Decrypt(c)
  \/ DeleteObject(c) \/ DeleteObjectFails(c)
  \/ LockMetadata(c)
  \/ WriteChunk(c) \/ WriteChunkFails(c)
  \/ MarkAndTruncate(c) \/ MarkUnsaved(c)
  \/ Save(c) \/ SaveFails(c)

Finalize == Verify \/ Rename \/ RemoveMetadata \/ FinalizeFails

Next ==
  \/ New
  \/ \E c \in Chunk : HandleChunk(c) \/ \E k \in Key : Spawn(c, k)
  \/ Finalize
  \/ Die
  \/ Outside

Spec == Init /\ [][Next]_vars

-----------------------------------------------------------------------------
(* A task past its download holds an object, so that what it decrypts and  *)
(* writes has a type.                                                      *)
HasObject ==
  \A c \in Chunk :
    job[c] \in {"decrypt", "delete", "lock", "write", "mark", "saving"}
      => got[c] \in Object

TypeOK ==
  /\ temp_exists \in BOOLEAN
  /\ temp \in [Chunk -> Region]
  /\ meta \in {"absent", "torn", "valid"}
  /\ saved \in SUBSET Chunk
  /\ finals \in SUBSET [Chunk -> Region]
  /\ bucket \in Bucket
  /\ phase \in Phase
  /\ bitmap \in SUBSET Chunk
  /\ md_lock \in SUBSET Chunk
  /\ job \in [Chunk -> JobPc]
  /\ pass \in [Chunk -> Key \cup {NoKey}]
  /\ got \in Bucket
  /\ metadata_content \in [Chunk -> SUBSET Chunk]
  /\ HasObject

(* Whatever the bucket delivers and wherever the process dies, a file that *)
(* appears under the user's name is the remote file that was asked for.    *)
(* finalize hashes <xxh3>.gmf before it renames it (file.rs:304).          *)
FinalsIntact == finals \subseteq {Original}

(* A bit that a later session will trust is backed by data: handle_chunk   *)
(* writes the chunk before it marks it and saves the bitmap                *)
(* (file.rs:262-273), and a bit without data would never be fetched again. *)
(* One step alone takes the data away from under the bits, the rename of a *)
(* verified file (file.rs:324): the json file is removed after it, and     *)
(* whatever bits it holds stay behind if that fails or the process dies.   *)
OnDisk(c) == temp_exists /\ temp[c] # "hole"

Unbacked == {c \in saved : ~OnDisk(c)}
Publishes == phase = "verified" /\ phase' = "renamed"

SavedIsOnDisk ==
  Unbacked = {} /\ [][Unbacked' \subseteq Unbacked \/ Publishes]_vars

(* The persisted bitmap only grows, across sessions and whatever the order *)
(* in which tasks finish, until finalize has published the file and        *)
(* removes it: no save may write back a bitmap read before another task's. *)
ProgressIsKept == [][saved \subseteq saved' \/ phase = "renamed"]_vars

(* While a session is up and no save is under way or has failed, its json  *)
(* file is whole and says exactly what memory says: an interruption there  *)
(* costs no progress.                                                      *)
QuietSessionIsSaved ==
  (phase = "active" /\ \A c \in Chunk : job[c] \notin {"saving", "failure"})
    => meta = "valid" /\ saved = bitmap

(* The whole of it, seen from outside: a resumable download.  In           *)
(* particular a json file is removed only after the file it describes has  *)
(* been published (file.rs:324-332), never when finalize fails.            *)
RD == INSTANCE ResumableDownload WITH kept <- saved, delivered <- finals,
                                      Whole <- Original
IsResumableDownload == RD!Spec
=============================================================================

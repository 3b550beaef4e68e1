------------------------------ MODULE Interface ------------------------------
(***************************************************************************)
(* What the two halves of gmf exchange: the messages gmf-remote prints for *)
(* its client (gmf-common/src/interface.rs) and the objects it leaves in   *)
(* the R2 bucket (gmf-common/src/r2.rs).                                   *)
(*                                                                         *)
(* A chunk is its id, which is also the name of its object in the bucket.  *)
(* A passphrase is an element of Key.  What a chunk holds is abstracted to *)
(* whether it was read while the remote file was the one that was hashed   *)
(* ("orig") or after somebody edited it ("edited").                        *)
(***************************************************************************)
EXTENDS Naturals

CONSTANTS
  Chunk,     \* the ids 0 .. total_chunks - 1 of one file
  Key,       \* the passphrases encrypt_chunk may draw
  NoObject   \* what the bucket holds under a name with no object

ASSUME ChunkAssumption == Chunk \subseteq Nat

VARIABLE bucket   \* the object under each name, as both halves see it

(* AES-256-GCM: only the passphrase an object was sealed with opens it.    *)
Content == {"orig", "edited"}
Object == [key : Key, data : Content]

ASSUME NoObjectAssumption == NoObject \notin Object

Bucket == [Chunk -> Object \cup {NoObject}]
EmptyBucket == [c \in Chunk |-> NoObject]

put_object(b, c, o) == [b EXCEPT ![c] = o]
delete_object(b, c) == [b EXCEPT ![c] = NoObject]

(* A call that returns an error after its retries: the request may have    *)
(* been carried out all the same, with its answer lost.                    *)
MaybeDone(before, after) == {before, after}

(* The two responses of a transfer that the download loop acts on.         *)
ChunkReady(c, k) ==
  [type |-> "ChunkReadyForDownload", chunk_id |-> c, passphrase |-> k]
UploadCompleted == [type |-> "UploadCompleted"]

Message ==
  [type : {"ChunkReadyForDownload"}, chunk_id : Chunk, passphrase : Key]
    \cup {UploadCompleted}
=============================================================================

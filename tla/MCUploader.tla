------------------------------ MODULE MCUploader ------------------------------
(* Three chunks for two upload tasks and a channel of one response: the    *)
(* scheduler has to spawn after a reap, and sends block.                   *)
EXTENDS Uploader, TLC

CONSTANT k1   \* a passphrase

MCChunk == 0 .. 2
OneKey == {k1}

(* A file of ten chunks, uploaded without a failure to a client that is    *)
(* slower than the server.                                                 *)
LargeChunk == 0 .. 9
SmoothUpload ==
  /\ r_bitmap = {} /\ src = "orig" /\ ~shutdown /\ stdout = <<>>
  /\ \A c \in Chunk : upload[c] # "err"
=============================================================================

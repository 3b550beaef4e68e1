-------------------------- MODULE MCDownloadSession --------------------------
(* A file of two chunks and two passphrases, so that the bucket can hold   *)
(* under a chunk's name the right object, one sealed with another key, one *)
(* read from an edited file, or nothing.                                   *)
EXTENDS DownloadSession, TLC

MCChunk == {0, 1}

CONSTANTS k1, k2
MCKey == {k1, k2}

KeySymmetry == Permutations(MCKey)
=============================================================================

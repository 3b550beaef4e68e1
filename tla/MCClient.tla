------------------------------- MODULE MCClient -------------------------------
(* Two chunks, or one in the run of the finding, and channels of one       *)
(* message: a heartbeat, an announcement and the end of the upload are     *)
(* enough to fill every channel.                                           *)
EXTENDS Client
=============================================================================

----------------------------- MODULE MCHeartbeat -----------------------------
(* Half-second ticks, a delay of up to two seconds, a start of gmf-remote   *)
(* in two seconds and, in the run of the finding, in nine; room for two     *)
(* lines on the way and one in the channel.                                 *)
EXTENDS Heartbeat
=============================================================================

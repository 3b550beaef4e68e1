---------------------------------- MODULE Fifo ----------------------------------
(***************************************************************************)
(* What either direction of the line protocol promises: every message that *)
(* is printed arrives whole, once and in order, or not at all if the       *)
(* connection ends first.  Lines that are no message are skipped, and a    *)
(* new connection may begin with some.                                     *)
(***************************************************************************)
EXTENDS Sequences

CONSTANTS Message, Noise

VARIABLES
  queue,     \* lines that are printed and not yet read
  channel,   \* messages that are read and not yet handled
  connection \* which connection carries them

Init == queue = <<>> /\ channel = <<>>

Put(m) == queue' = Append(queue, m) /\ UNCHANGED <<channel, connection>>

Read ==
  /\ queue # <<>> /\ Head(queue) \in Message
  /\ channel' = Append(channel, Head(queue))
  /\ queue' = Tail(queue)
  /\ UNCHANGED connection

Skip ==
  /\ queue # <<>> /\ Head(queue) \in Noise
  /\ queue' = Tail(queue)
  /\ UNCHANGED <<channel, connection>>

Handle == channel # <<>> /\ channel' = Tail(channel) /\ UNCHANGED <<queue, connection>>

HangUp == connection' # connection /\ queue' \in Seq(Noise) /\ channel' = <<>>

Next == (\E m \in Message : Put(m)) \/ Read \/ Skip \/ Handle \/ HangUp

Spec == Init /\ [][Next]_<<queue, channel, connection>>
=============================================================================

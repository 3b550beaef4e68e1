-------------------------------- MODULE Framing --------------------------------
(***************************************************************************)
(* One direction of the line protocol: lines of JSON through a byte        *)
(* stream, and the reader that puts them together again.  The stream may   *)
(* be cut into packets anywhere.  The reader is SSHCommunicator on the     *)
(* client (gmf/src/comm.rs) and the stdin task on the server               *)
(* (gmf-remote/src/msg.rs); both fill a bounded channel.                   *)
(*                                                                         *)
(* The bytes of a line are abstracted to a head, a tail and a newline.     *)
(* NotJson stands for a line that is no message, such as what a login      *)
(* script of the remote host prints.                                       *)
(***************************************************************************)
EXTENDS Naturals, Sequences

CONSTANTS Message, NotJson, Capacity

VARIABLES stream, buffer, channel

framing == <<stream, buffer, channel>>

Line(m) ==
  [i \in 1 .. 3 |-> [part |-> <<"head", "tail", "newline">>[i], of |-> m]]

IsNewline(t) == t.part = "newline"

Empty == stream = <<>> /\ buffer = <<>> /\ channel = <<>>
Reset == stream' = <<>> /\ buffer' = <<>> /\ channel' = <<>>

(* A println!, or handle_request of the communicator.                      *)
WriteLine(m) == stream' = stream \o Line(m) /\ UNCHANGED <<buffer, channel>>

Newlines == {i \in 1 .. Len(buffer) : IsNewline(buffer[i])}
FirstNewline == CHOOSE i \in Newlines : \A j \in Newlines : i <= j

(* Faulty variant: what the buffer held of an unfinished line is dropped.  *)
PacketReplaces ==
  /\ Newlines = {}
  /\ \E n \in 1 .. Len(stream) :
       /\ buffer' = SubSeq(stream, 1, n)
       /\ stream' = SubSeq(stream, n + 1, Len(stream))
  /\ UNCHANGED channel

(* The next packet, once the buffer holds no whole line any more.          *)
Packet ==
  /\ Newlines = {}
  /\ \E n \in 1 .. Len(stream) :
       /\ buffer' = buffer \o SubSeq(stream, 1, n)
       /\ stream' = SubSeq(stream, n + 1, Len(stream))
  /\ UNCHANGED channel

(* Does the first whole line say m?                                        *)
Says(m) == SubSeq(buffer, 1, FirstNewline) = Line(m)

(* Faulty variant: the buffer is cleared once a line has been found in it. *)
DrainAll == buffer' = <<>>

DrainLine == buffer' = SubSeq(buffer, FirstNewline + 1, Len(buffer))

FirstSaid == Head(buffer).of

Forward ==
  /\ Newlines # {} /\ FirstSaid \in Message /\ Says(FirstSaid)
  /\ Len(channel) < Capacity
  /\ channel' = Append(channel, FirstSaid)
  /\ DrainLine
  /\ UNCHANGED stream

Ignore ==
  /\ Newlines # {} /\ ~(FirstSaid \in Message /\ Says(FirstSaid))
  /\ DrainLine
  /\ UNCHANGED <<stream, channel>>

Handle(m) ==
  /\ channel # <<>> /\ Head(channel) = m
  /\ channel' = Tail(channel)
  /\ UNCHANGED <<stream, buffer>>

(* The lines on their way, in order.                                       *)
InFlight ==
  LET bytes == buffer \o stream
  IN [i \in 1 .. Len(bytes) \div 3 |-> bytes[3 * i].of]
=============================================================================

------------------------------- MODULE Heartbeat -------------------------------
(***************************************************************************)
(* The heartbeat of gmf-remote (gmf-remote/src/main.rs) and the timeout of *)
(* the client's dispatcher (gmf/src/client.rs), in discrete time.          *)
(*                                                                         *)
(* Heartbeats travel with the announced chunks.  The dispatcher stands     *)
(* still while the channel to the download loop is full, and everything    *)
(* behind it fills up as well: the client then hears no heartbeat for as   *)
(* long as a chunk takes to download.                                      *)
(***************************************************************************)
EXTENDS Naturals, Sequences

CONSTANTS
  Second,      \* in ticks of the model's clock
  MaxDelay,    \* of a line between the two programs, in ticks
  MaxStartup,  \* of gmf-remote, in ticks
  Window,      \* lines on their way, bound of the model
  Capacity     \* of the channel of responses, 100 in the code

ASSUME TimesAssumption ==
  /\ Second \in Nat \ {0} /\ MaxDelay \in Nat /\ MaxStartup \in Nat
  /\ Window \in Nat \ {0, 1} /\ Capacity \in Nat \ {0}

Timeout == 5 * Second
ReadyTimeout == 10 * Second

VARIABLES
  remote,      \* gmf-remote: "starting", "up", or "lost" with the connection
  age,         \* time since both sides were spawned
  phase,       \* time since the ticker's last tick
  wire,        \* what is on its way, with how long
  response,
  dispatcher,  \* "select", "sending" to the download loop, "returned"
  slept,       \* the sleep of this turn of the loop
  silence,     \* last_heartbeat.elapsed()
  unnoticed    \* time the dispatcher has spent in select! since the loss

server == <<remote, age, phase>>
client == <<response, dispatcher, slept, silence, unnoticed>>
vars == <<server, wire, client>>

Init ==
  /\ remote = "starting" /\ age = 0 /\ phase = 0
  /\ wire = <<>> /\ response = <<>>
  /\ dispatcher = "select" /\ slept = 0 /\ silence = 0 /\ unnoticed = 0

-----------------------------------------------------------------------------
(* gmf-remote.  r2::init comes first; then the heartbeat task sends one    *)
(* and ticks once a second.  The pipe and the SSH window hold hours of     *)
(* heartbeats: they never wait.  Heartbeats beyond Window are dropped in   *)
(* the model, where one already ends the line.                             *)
PrintLine(m) == wire' = Append(wire, [line |-> m, time |-> 0])

Send == IF Len(wire) < Window THEN PrintLine("heartbeat") ELSE UNCHANGED wire

Started ==
  /\ remote = "starting"
  /\ remote' = "up" /\ phase' = 0
  /\ Send
  /\ UNCHANGED <<age, client>>

Beat ==
  /\ remote = "up" /\ phase >= Second
  /\ phase' = 0
  /\ Send
  /\ UNCHANGED <<remote, age, client>>

Announce ==
  /\ remote = "up" /\ Len(wire) < Window - 1
  /\ PrintLine("chunk")
  /\ UNCHANGED <<server, client>>

Lose ==
  /\ remote = "up"
  /\ remote' = "lost" /\ wire' = <<>>
  /\ UNCHANGED <<age, phase, client>>

-----------------------------------------------------------------------------
(* The client.  Every turn of the dispatcher's loop has a new sleep.       *)
(* Faulty variant: a channel without a bound.                              *)
CanDeliverUnbounded == wire # <<>> /\ dispatcher # "returned"

CanDeliver == wire # <<>> /\ Len(response) < Capacity /\ dispatcher # "returned"

Deliver ==
  /\ CanDeliver
  /\ wire' = Tail(wire)
  /\ response' = Append(response, Head(wire).line)
  /\ UNCHANGED <<server, dispatcher, slept, silence, unnoticed>>

(* Faulty variant: one interval for the whole loop, which goes on while    *)
(* the dispatcher is elsewhere.                                            *)
SameTimer == slept
NewTimer == 0

RecvHeartbeat ==
  /\ dispatcher = "select" /\ response # <<>> /\ Head(response) = "heartbeat"
  /\ response' = Tail(response)
  /\ silence' = 0 /\ slept' = NewTimer
  /\ UNCHANGED <<server, wire, dispatcher, unnoticed>>

RecvChunk ==
  /\ dispatcher = "select" /\ response # <<>> /\ Head(response) = "chunk"
  /\ response' = Tail(response)
  /\ dispatcher' = "sending"
  /\ UNCHANGED <<server, wire, slept, silence, unnoticed>>

(* The download loop takes its time.                                       *)
Sent ==
  /\ dispatcher = "sending"
  /\ dispatcher' = "select" /\ slept' = NewTimer
  /\ UNCHANGED <<server, wire, response, silence, unnoticed>>

(* One tick of the clock stands for anything between it and the next: at   *)
(* Timeout the comparison may go either way.  Faulty variant: the check    *)
(* counts as a sign of life.                                               *)
CheckRefreshes ==
  /\ dispatcher = "select" /\ slept >= Second
  /\ \/ silence >= Timeout /\ dispatcher' = "returned"
     \/ silence <= Timeout /\ UNCHANGED dispatcher
  /\ slept' = NewTimer /\ silence' = 0
  /\ UNCHANGED <<server, wire, response, unnoticed>>

Check ==
  /\ dispatcher = "select" /\ slept >= Second
  /\ \/ silence >= Timeout /\ dispatcher' = "returned"
     \/ silence <= Timeout /\ UNCHANGED dispatcher
  /\ slept' = NewTimer
  /\ UNCHANGED <<server, wire, response, silence, unnoticed>>

-----------------------------------------------------------------------------
(* Time passes when nobody has anything left to do at this moment.  Clocks *)
(* stop where the code no longer tells the difference.                     *)
Urgent ==
  \/ remote = "starting" /\ age >= MaxStartup
  \/ remote = "up" /\ phase >= Second
  \/ CanDeliver /\ Head(wire).time >= MaxDelay
  \/ dispatcher = "select" /\ (response # <<>> \/ slept >= Second)

Upto(n, bound) == IF n < bound THEN n + 1 ELSE bound
Older(m) == [m EXCEPT !.time = Upto(@, MaxDelay)]

Tick ==
  /\ ~Urgent /\ dispatcher # "returned"
  /\ age' = Upto(age, ReadyTimeout)
  /\ phase' = Upto(phase, Second)
  /\ wire' = [i \in DOMAIN wire |-> Older(wire[i])]
  /\ slept' = Upto(slept, Second)
  /\ silence' = Upto(silence, Timeout + 1)
  /\ unnoticed' = IF remote = "lost" /\ dispatcher = "select" THEN unnoticed + 1
                                                              ELSE unnoticed
  /\ UNCHANGED <<remote, response, dispatcher>>

Next ==
  \/ Started \/ Beat \/ Announce \/ Lose
  \/ Deliver \/ RecvHeartbeat \/ RecvChunk \/ Sent \/ Check
  \/ Tick

Spec == Init /\ [][Next]_vars

-----------------------------------------------------------------------------
TypeOK ==
  /\ remote \in {"starting", "up", "lost"}
  /\ age \in 0 .. ReadyTimeout
  /\ phase \in 0 .. Second
  /\ Len(wire) <= Window
  /\ \A i \in DOMAIN wire : wire[i].time \in 0 .. MaxDelay
  /\ Len(response) <= Capacity
  /\ dispatcher \in {"select", "sending", "returned"}
  /\ slept \in 0 .. Second /\ silence \in 0 .. Timeout + 1

(* The dispatcher does not give up on a connection that works, however     *)
(* long the download loop kept it from hearing the heartbeats              *)
(* (client.rs:167-197): what waits for it is heard before the next check.  *)
NoFalseAlarm == dispatcher = "returned" => remote = "lost"

(* After a connection has died without notice the dispatcher spends at     *)
(* most six seconds in its select! before it gives up, whatever it still   *)
(* finds in its channel; SSH itself would need a minute (ssh.rs:45).  The  *)
(* time for which the download loop keeps it waiting in send comes on top. *)
SilenceIsNoticed == unnoticed <= Timeout + Second

(* gmf-remote has ten seconds to start: only then does wait_ready say      *)
(* "服务端启动失败" (client.rs:233-235).                                   *)
StartupIsAwaited == remote = "starting" /\ age < ReadyTimeout => dispatcher # "returned"
=============================================================================

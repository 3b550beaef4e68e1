--------------------------- MODULE Heartbeat_proofs ---------------------------
(***************************************************************************)
(* The dispatcher's timer, for every length of a second, delay, start-up   *)
(* time and channel: a server that starts and is heard in less than five   *)
(* seconds is never given up, and one that is lost is given up after at    *)
(* most six seconds of waiting for a line.                                 *)
(*                                                                         *)
(* The first needs more than the timer: after a long wait for the download *)
(* loop the silence is as long as that wait, and what saves the dispatcher *)
(* is that a heartbeat has been waiting as well.  So the invariant follows *)
(* the oldest heartbeat that has not been heard, through the wire and the  *)
(* channel, up to the sleep after which the silence is measured.           *)
(***************************************************************************)
EXTENDS Heartbeat, TLAPS

(* What the code counts on without saying so.                              *)
Prompt == Second + MaxDelay < Timeout /\ MaxStartup + MaxDelay < Timeout

Line == [line : {"heartbeat", "chunk"}, time : 0 .. MaxDelay]

ShapeOK ==
  /\ wire \in Seq(Line)
  /\ response \in Seq({"heartbeat", "chunk"})
  /\ unnoticed \in Nat

(* Lines arrive in order, and Window leaves room for a last heartbeat.     *)
Ordered ==
  /\ \A i, j \in 1 .. Len(wire) : i < j => wire[j].time <= wire[i].time
  /\ Len(wire) = Window => wire[Window].line = "heartbeat"

Starting ==
  remote = "starting" =>
    /\ wire = <<>> /\ response = <<>> /\ dispatcher # "sending"
    /\ silence <= age /\ age <= MaxStartup

(* The silence is no longer than the time since the last heartbeat, or     *)
(* than the age of one that is on its way and the pause before it, unless  *)
(* that one has come and waits for room in the channel.                    *)
Pause == IF Second < MaxStartup THEN MaxStartup ELSE Second

Unheard(s) == \E i \in 1 .. Len(s) : s[i] = "heartbeat"

Heard ==
  remote = "up" /\ ~Unheard(response) =>
    \/ silence <= phase
    \/ \E i \in 1 .. Len(wire) :
         /\ wire[i].line = "heartbeat"
         /\ wire[i].time < MaxDelay => silence <= Pause + wire[i].time

(* Once the dispatcher has slept a while, nothing old can be on its way.   *)
Rested ==
  remote # "lost" /\ dispatcher = "select" /\ slept > 0 => silence <= Pause + MaxDelay

HInv == TypeOK /\ ShapeOK /\ Ordered /\ Starting /\ Heard /\ Rested /\ NoFalseAlarm

(* When the connection is lost: nothing comes any more, so that the time   *)
(* the dispatcher spends asleep counts for the silence.                    *)
Deaf ==
  /\ remote = "lost" => wire = <<>>
  /\ unnoticed > 0 => remote = "lost" /\ response = <<>> /\ dispatcher # "sending"
  /\ unnoticed <= silence \/ silence = Timeout + 1
  /\ dispatcher # "returned" => unnoticed <= Timeout + slept
  /\ SilenceIsNoticed

-----------------------------------------------------------------------------
(* The two time-outs of the client, in ticks.                              *)
LEMMA Ticks == Timeout \in Nat /\ ReadyTimeout \in Nat /\ Timeout = 5 * Second
               /\ ReadyTimeout = 10 * Second
  BY TimesAssumption DEF Timeout, ReadyTimeout

(* A tick makes a line older, up to the bound, and leaves it what it is.   *)
LEMMA Ageing ==
  ASSUME NEW m \in Line
  PROVE  /\ Older(m) \in Line
         /\ Older(m).line = m.line
         /\ Older(m).time = Upto(m.time, MaxDelay)
  BY TimesAssumption DEF Line, Older, Upto

(* The lines on their way after a tick.                                    *)
LEMMA TickAges ==
  ASSUME wire \in Seq(Line), Tick
  PROVE  /\ wire' \in Seq(Line) /\ Len(wire') = Len(wire)
         /\ \A i \in 1 .. Len(wire) :
              /\ wire'[i].line = wire[i].line
              /\ wire'[i].time = Upto(wire[i].time, MaxDelay)
<1>1. wire' = [i \in 1 .. Len(wire) |-> Older(wire[i])]
  BY DEF Tick
<1>2. \A i \in 1 .. Len(wire) : Older(wire[i]) \in Line
  BY Ageing
<1>3. wire' \in Seq(Line) /\ Len(wire') = Len(wire)
  BY <1>1, <1>2
<1> QED
  BY <1>1, <1>3, Ageing

(* Appending a line and taking the first one away.                         *)
LEMMA Printed ==
  ASSUME NEW w \in Seq(Line), NEW m \in {"heartbeat", "chunk"}, NEW longer,
         longer = Append(w, [line |-> m, time |-> 0])
  PROVE  /\ longer \in Seq(Line) /\ Len(longer) = Len(w) + 1
         /\ \A i \in 1 .. Len(w) : longer[i] = w[i]
         /\ longer[Len(w) + 1].line = m /\ longer[Len(w) + 1].time = 0
<1>1. [line |-> m, time |-> 0] \in Line
  BY TimesAssumption DEF Line
<1> QED
  BY <1>1

(* What is left of a channel after its first message.                      *)
LEMMA Received ==
  ASSUME NEW S, NEW s \in Seq(S), s # <<>>
  PROVE  /\ Tail(s) \in Seq(S) /\ Len(Tail(s)) = Len(s) - 1
         /\ \A i \in 1 .. Len(s) - 1 : Tail(s)[i] = s[i + 1]
  OBVIOUS

(* The oldest line leaves the wire for the response channel.               *)
LEMMA Delivered ==
  ASSUME wire \in Seq(Line), response \in Seq({"heartbeat", "chunk"}), Deliver
  PROVE  /\ wire' \in Seq(Line) /\ Len(wire') = Len(wire) - 1
         /\ \A i \in 1 .. Len(wire') : wire'[i] = wire[i + 1]
         /\ response' \in Seq({"heartbeat", "chunk"})
         /\ response' = Append(response, wire[1].line) /\ wire # <<>>
<1>1. wire # <<>> /\ wire[1] \in Line
  BY DEF Deliver, CanDeliver
<1>2. wire[1].line \in {"heartbeat", "chunk"}
  BY <1>1 DEF Line
<1> QED
  BY <1>1, <1>2 DEF Deliver

(* No line on its way is older than the bound.                             *)
LEMMA LinesAreTimed ==
  ASSUME NEW w \in Seq(Line)
  PROVE  \A i \in 1 .. Len(w) :
           w[i].line \in {"heartbeat", "chunk"} /\ w[i].time \in 0 .. MaxDelay
<1> SUFFICES ASSUME NEW i \in 1 .. Len(w)
             PROVE  w[i].line \in {"heartbeat", "chunk"} /\ w[i].time \in 0 .. MaxDelay
  OBVIOUS
<1>1. w[i] \in Line
  OBVIOUS
<1> QED
  BY <1>1 DEF Line

(* Every clock stays within its bound and every channel keeps its type.    *)
LEMMA TypeStep == TypeOK /\ ShapeOK /\ [Next]_vars => TypeOK' /\ ShapeOK'
<1> SUFFICES ASSUME TypeOK, ShapeOK, [Next]_vars PROVE TypeOK' /\ ShapeOK'
  OBVIOUS
<1>0. /\ wire' \in Seq(Line) /\ Len(wire') <= Window
      /\ response' \in Seq({"heartbeat", "chunk"})
  <2> USE TimesAssumption DEF TypeOK, ShapeOK
  <2>1. CASE Started \/ Beat
    <3>1. response' = response
      BY <2>1 DEF Started, Beat, client
    <3>2. CASE wire' = wire
      BY <3>1, <3>2
    <3>3. CASE Len(wire) < Window /\ wire' = Append(wire, [line |-> "heartbeat", time |-> 0])
      <4>1. wire' \in Seq(Line) /\ Len(wire') = Len(wire) + 1
        BY <3>3, Printed
      <4> QED
        BY <3>1, <3>3, <4>1
    <3> QED
      BY <2>1, <3>2, <3>3 DEF Started, Beat, Send, PrintLine
  <2>2. CASE Announce
    <3>1. wire' = Append(wire, [line |-> "chunk", time |-> 0])
      BY <2>2 DEF Announce, PrintLine
    <3>2. wire' \in Seq(Line) /\ Len(wire') = Len(wire) + 1
      BY <3>1, Printed
    <3>3. Len(wire) < Window - 1 /\ response' = response
      BY <2>2 DEF Announce, client
    <3> QED
      BY <3>2, <3>3
  <2>3. CASE Lose
    BY <2>3 DEF Lose, client
  <2>4. CASE Deliver
    BY <2>4, Delivered
  <2>5. CASE RecvHeartbeat \/ RecvChunk
    BY <2>5, Received DEF RecvHeartbeat, RecvChunk
  <2>8. CASE Sent \/ Check
    BY <2>8 DEF Sent, Check
  <2>6. CASE Tick
    BY <2>6, TickAges DEF Tick
  <2>7. CASE UNCHANGED vars
    BY <2>7 DEF vars, client
  <2> QED
    BY <2>1, <2>2, <2>3, <2>4, <2>5, <2>6, <2>7, <2>8 DEF Next
<1>1. \A i \in DOMAIN wire' : wire'[i].time \in 0 .. MaxDelay
  BY <1>0, LinesAreTimed
<1>2. Len(response') <= Capacity
  <2>1. CASE Deliver
    BY <2>1, TimesAssumption DEF TypeOK, ShapeOK, Deliver, CanDeliver
  <2>2. CASE RecvHeartbeat \/ RecvChunk
    BY <2>2, TimesAssumption DEF TypeOK, ShapeOK, RecvHeartbeat, RecvChunk
  <2>3. CASE response' = response
    BY <2>3 DEF TypeOK
  <2> QED
    BY <2>1, <2>2, <2>3
       DEF Next, Started, Beat, Announce, Lose, Sent, Check, Tick, vars, client
<1>3. /\ remote' \in {"starting", "up", "lost"}
      /\ age' \in 0 .. ReadyTimeout /\ phase' \in 0 .. Second
      /\ dispatcher' \in {"select", "sending", "returned"}
      /\ slept' \in 0 .. Second /\ silence' \in 0 .. Timeout + 1 /\ unnoticed' \in Nat
  <2> USE TimesAssumption, Ticks DEF TypeOK, ShapeOK
  <2>1. CASE Started \/ Beat \/ Announce \/ Lose
    BY <2>1 DEF Started, Beat, Announce, Lose, server, client
  <2>2. CASE Deliver \/ RecvHeartbeat \/ RecvChunk
    <3>1. UNCHANGED <<remote, age, phase, unnoticed>>
      BY <2>2 DEF Deliver, RecvHeartbeat, RecvChunk, server
    <3>2. slept' \in {slept, 0} /\ silence' \in {silence, 0}
      BY <2>2 DEF Deliver, RecvHeartbeat, RecvChunk, NewTimer
    <3>3. dispatcher' \in {dispatcher, "sending"}
      BY <2>2 DEF Deliver, RecvHeartbeat, RecvChunk
    <3> QED
      BY <3>1, <3>2, <3>3
  <2>3. CASE Sent \/ Check
    BY <2>3 DEF Sent, Check, NewTimer, server
  <2>4. CASE Tick
    BY <2>4 DEF Tick, Upto
  <2>5. CASE UNCHANGED vars
    BY <2>5 DEF vars, server, client
  <2> QED
    BY <2>1, <2>2, <2>3, <2>4, <2>5 DEF Next
<1> QED
  BY <1>0, <1>1, <1>2, <1>3 DEF TypeOK, ShapeOK

(* The timer, the lines and the channel keep their types, with at most     *)
(* Window lines on their way and Capacity responses waiting.               *)
THEOREM TypeCorrectness == Spec => []TypeOK
<1>1. Init => TypeOK /\ ShapeOK
  BY TimesAssumption, Ticks DEF Init, TypeOK, ShapeOK
<1> QED
  BY <1>1, TypeStep, PTL DEF Spec

(* After a loss the time the dispatcher sleeps is not wasted: it counts    *)
(* for the silence.                                                        *)
LEMMA DeafStep ==
  TypeOK /\ ShapeOK /\ Deaf /\ [Next]_vars => Deaf'
<1> SUFFICES ASSUME TypeOK, ShapeOK, Deaf, [Next]_vars PROVE Deaf'
  OBVIOUS
<1> USE TimesAssumption, Ticks DEF TypeOK, ShapeOK, Deaf, SilenceIsNoticed, Upto, NewTimer
<1>1. CASE Started
  BY <1>1 DEF Started, client
<1>2. CASE Beat
  BY <1>2 DEF Beat, client
<1>3. CASE Announce
  BY <1>3 DEF Announce, client, server
<1>4. CASE Lose
  BY <1>4 DEF Lose, client
<1>5. CASE Deliver
  BY <1>5 DEF Deliver, CanDeliver, server
<1>6. CASE RecvHeartbeat
  BY <1>6 DEF RecvHeartbeat, server
<1>7. CASE RecvChunk
  BY <1>7 DEF RecvChunk, server
<1>8. CASE Sent
  BY <1>8 DEF Sent, server
<1>9. CASE Check
  BY <1>9 DEF Check, server
<1>10. CASE Tick
  <2>1. remote = "lost" => wire' = <<>>
    BY <1>10, TickAges
  <2> QED
    BY <1>10, <2>1 DEF Tick, Urgent
<1>11. CASE UNCHANGED vars
  BY <1>11 DEF vars, server, client
<1> QED
  BY <1>1, <1>2, <1>3, <1>4, <1>5, <1>6, <1>7, <1>8, <1>9, <1>10, <1>11 DEF Next

(* From the loss of a connection, without notice, to its being given up    *)
(* the dispatcher waits in its select! for no more than Timeout + Second,  *)
(* six seconds, whatever it still finds in its channel; what it waits in   *)
(* between for the download loop is not counted (client.rs:167-197).       *)
THEOREM LossIsNoticed == Spec => []SilenceIsNoticed
<1>1. Init => TypeOK /\ ShapeOK /\ Deaf
  BY TimesAssumption, Ticks DEF Init, TypeOK, ShapeOK, Deaf, SilenceIsNoticed
<1>2. Deaf => SilenceIsNoticed
  BY DEF Deaf
<1> QED
  BY <1>1, <1>2, TypeStep, DeafStep, PTL DEF Spec

-----------------------------------------------------------------------------
(* What each action does to the lines that are on their way.               *)
LEMMA OrderedStep == TypeOK /\ ShapeOK /\ Ordered /\ [Next]_vars => Ordered'
<1> SUFFICES ASSUME TypeOK, ShapeOK, Ordered, [Next]_vars PROVE Ordered'
  OBVIOUS
<1> USE TimesAssumption DEF Ordered
<1>1. ASSUME NEW m \in {"heartbeat", "chunk"}, Len(wire) < Window,
             m = "heartbeat" \/ Len(wire) < Window - 1,
             wire' = Append(wire, [line |-> m, time |-> 0])
      PROVE  Ordered'
  <2>1. /\ Len(wire') = Len(wire) + 1 /\ Len(wire) \in Nat
        /\ \A i \in 1 .. Len(wire) : wire'[i] = wire[i]
        /\ wire'[Len(wire) + 1].line = m /\ wire'[Len(wire) + 1].time = 0
    BY <1>1, Printed DEF ShapeOK
  <2>2. \A i \in 1 .. Len(wire) : wire[i].time \in 0 .. MaxDelay
    BY LinesAreTimed DEF ShapeOK
  <2>3. \A i, j \in 1 .. Len(wire') : i < j => wire'[j].time <= wire'[i].time
    <3> SUFFICES ASSUME NEW i \in 1 .. Len(wire'), NEW j \in 1 .. Len(wire'), i < j
                 PROVE  wire'[j].time <= wire'[i].time
      OBVIOUS
    <3>1. i \in 1 .. Len(wire)
      BY <2>1
    <3>2. CASE j = Len(wire) + 1
      BY <2>1, <2>2, <3>1, <3>2
    <3>3. CASE j \in 1 .. Len(wire)
      BY <2>1, <3>1, <3>3
    <3> QED
      BY <2>1, <3>2, <3>3
  <2> QED
    BY <1>1, <2>1, <2>3
<1>2. CASE wire' = wire
  BY <1>2
<1>3. CASE wire' = <<>>
  BY <1>3
<1>4. CASE Deliver
  <2>1. /\ Len(wire') = Len(wire) - 1 /\ Len(wire) \in Nat /\ Len(wire) <= Window
        /\ \A i \in 1 .. Len(wire') : wire'[i] = wire[i + 1]
    BY <1>4, Delivered DEF ShapeOK, TypeOK
  <2>2. \A i, j \in 1 .. Len(wire') : i < j => wire'[j].time <= wire'[i].time
    <3> SUFFICES ASSUME NEW i \in 1 .. Len(wire'), NEW j \in 1 .. Len(wire'), i < j
                 PROVE  wire'[j].time <= wire'[i].time
      OBVIOUS
    <3>1. i + 1 \in 1 .. Len(wire) /\ j + 1 \in 1 .. Len(wire) /\ i + 1 < j + 1
      BY <2>1
    <3>2. wire[j + 1].time <= wire[i + 1].time
      BY <3>1
    <3> QED
      BY <2>1, <3>2
  <2> QED
    BY <2>1, <2>2
<1>5. CASE Tick
  <2>1. /\ Len(wire') = Len(wire)
        /\ \A i \in 1 .. Len(wire) :
             wire'[i].line = wire[i].line /\ wire'[i].time = Upto(wire[i].time, MaxDelay)
    BY <1>5, TickAges DEF ShapeOK
  <2>2. \A i \in 1 .. Len(wire) : wire[i].time \in 0 .. MaxDelay
    BY LinesAreTimed DEF ShapeOK
  <2>3. \A i, j \in 1 .. Len(wire') : i < j => wire'[j].time <= wire'[i].time
    <3> SUFFICES ASSUME NEW i \in 1 .. Len(wire), NEW j \in 1 .. Len(wire), i < j
                 PROVE  Upto(wire[j].time, MaxDelay) <= Upto(wire[i].time, MaxDelay)
      BY <2>1
    <3>1. wire[j].time <= wire[i].time
      OBVIOUS
    <3> QED
      BY <2>2, <3>1 DEF Upto
  <2>4. Len(wire') = Window => wire'[Window].line = "heartbeat"
    BY <2>1
  <2> QED
    BY <2>3, <2>4
<1>6. CASE Started \/ Beat \/ Announce
  BY <1>1, <1>2, <1>6 DEF Started, Beat, Announce, Send, PrintLine
<1> QED
  BY <1>2, <1>3, <1>4, <1>5, <1>6
     DEF Next, Lose, RecvHeartbeat, RecvChunk, Sent, Check, vars

(* While gmf-remote starts, the silence is no longer than the start has    *)
(* taken.                                                                  *)
LEMMA StartingStep ==
  Prompt /\ TypeOK /\ ShapeOK /\ Starting /\ [Next]_vars => Starting'
<1> SUFFICES ASSUME Prompt, TypeOK, ShapeOK, Starting, [Next]_vars, remote' = "starting"
             PROVE  Starting'
  BY DEF Starting
<1>1. remote = "starting"
  BY DEF Next, Started, Beat, Announce, Lose, Deliver, RecvHeartbeat, RecvChunk, Sent,
         Check, Tick, vars, server
<1> USE <1>1, TimesAssumption, Ticks DEF Starting
<1>2. CASE Tick
  <2>1. wire' = <<>>
    BY <1>2, TickAges DEF ShapeOK
  <2>2. silence' \in Nat /\ silence' <= silence + 1 /\ silence \in Nat /\ age \in Nat
    BY <1>2 DEF Tick, Upto, TypeOK
  <2>3. age < MaxStartup /\ age' = age + 1
    BY <1>2 DEF Tick, Urgent, Upto, TypeOK, Prompt
  <2> QED
    BY <1>2, <2>1, <2>2, <2>3 DEF Tick
<1>3. CASE Check
  BY <1>3 DEF Check, server
<1>4. CASE UNCHANGED vars
  BY <1>4 DEF vars, server, client
<1> QED
  BY <1>2, <1>3, <1>4
     DEF Next, Started, Beat, Announce, Lose, Deliver, CanDeliver, RecvHeartbeat, RecvChunk,
         Sent

(* A dispatcher that has slept until its timer runs out has really heard   *)
(* nothing.                                                                *)
LEMMA RestedStep ==
  Prompt /\ HInv /\ [Next]_vars => (Rested /\ NoFalseAlarm)'
<1> SUFFICES ASSUME Prompt, HInv, [Next]_vars PROVE (Rested /\ NoFalseAlarm)'
  OBVIOUS
<1> USE TimesAssumption, Ticks DEF HInv, TypeOK, Rested, NoFalseAlarm
<1>0. /\ Pause \in Nat /\ Second <= Pause /\ MaxStartup <= Pause
      /\ Pause + MaxDelay < Timeout
  BY DEF Pause, Prompt
<1>1. CASE Started \/ Beat \/ Announce \/ Lose
  BY <1>1 DEF Started, Beat, Announce, Lose, Starting, server, client
<1>2. CASE Deliver \/ RecvHeartbeat \/ RecvChunk \/ Sent
  BY <1>2 DEF Deliver, CanDeliver, RecvHeartbeat, RecvChunk, Sent, NewTimer, server
<1>3. CASE Check
  <2>1. remote # "lost" => silence < Timeout
    BY <1>0, <1>3 DEF Check
  <2> QED
    BY <1>3, <2>1 DEF Check, NewTimer, server
<1>4. CASE Tick
  <2>1. remote' = remote /\ dispatcher' = dispatcher /\ dispatcher # "returned"
    BY <1>4 DEF Tick
  <2>2. ASSUME remote # "lost", dispatcher = "select"
        PROVE  silence' <= Pause + MaxDelay
    <3>1. response = <<>> /\ ~Unheard(response)
      BY <1>4, <2>2 DEF Tick, Urgent, Unheard
    <3>2. silence' <= silence + 1 /\ silence' \in Nat /\ silence \in Nat
      BY <1>4 DEF Tick, Upto
    <3>3. CASE remote = "starting"
      <4>1. silence <= age /\ age < MaxStartup /\ age \in Nat
        BY <1>4, <3>3 DEF Starting, Tick, Urgent
      <4> QED
        BY <1>0, <3>2, <4>1
    <3>4. CASE remote = "up" /\ silence <= phase
      <4>1. phase < Second /\ phase \in Nat
        BY <1>4, <3>4 DEF Tick, Urgent
      <4> QED
        BY <1>0, <3>2, <3>4, <4>1
    <3>5. CASE remote = "up" /\ ~(silence <= phase)
      <4>1. PICK i \in 1 .. Len(wire) :
              wire[i].time < MaxDelay => silence <= Pause + wire[i].time
        BY <3>1, <3>5 DEF Heard
      <4>2. wire # <<>> /\ wire[1].time < MaxDelay
        <5>1. wire # <<>> /\ wire[1].time \in 0 .. MaxDelay
          BY LinesAreTimed DEF ShapeOK
        <5>2. CanDeliver
          BY <2>1, <3>1, <5>1 DEF CanDeliver
        <5>3. ~(Head(wire).time >= MaxDelay)
          BY <1>4, <5>2 DEF Tick, Urgent
        <5> QED
          BY <5>1, <5>3
      <4>3. wire[i].time <= wire[1].time /\ wire[i].time \in 0 .. MaxDelay
            /\ wire[1].time \in 0 .. MaxDelay
        BY <4>2, LinesAreTimed DEF Ordered, ShapeOK
      <4>4. silence <= Pause + wire[i].time /\ wire[i].time < MaxDelay
        BY <4>1, <4>2, <4>3
      <4>5. \A s1, s2, t, p \in Nat :
              s2 <= s1 + 1 /\ s1 <= p + t /\ t < MaxDelay => s2 <= p + MaxDelay
        OBVIOUS
      <4>6. wire[i].time \in Nat
        BY <4>3
      <4> HIDE DEF HInv, TypeOK
      <4> QED
        BY <1>0, <3>2, <4>4, <4>5, <4>6
    <3> QED
      BY <2>2, <3>3, <3>4, <3>5
  <2> QED
    BY <2>1, <2>2
<1>5. CASE UNCHANGED vars
  BY <1>5 DEF vars, server, client
<1> QED
  BY <1>1, <1>2, <1>3, <1>4, <1>5 DEF Next

(* Who vouches for the silence: a line on the wire, seen before and after. *)
Vouches(w, i) ==
  w[i].line = "heartbeat" /\ (w[i].time < MaxDelay => silence <= Pause + w[i].time)

(* A heartbeat that vouches still does so one place further, one tick      *)
(* later, or in the channel; a new one takes over from the ticker's phase. *)
LEMMA HeardStep == Prompt /\ HInv /\ [Next]_vars => Heard'
<1> SUFFICES ASSUME Prompt, HInv, [Next]_vars, remote' = "up", ~Unheard(response')
             PROVE  \/ silence' <= phase'
                    \/ \E i \in 1 .. Len(wire') :
                         /\ wire'[i].line = "heartbeat"
                         /\ wire'[i].time < MaxDelay => silence' <= Pause + wire'[i].time
  BY DEF Heard, Pause, Unheard
<1> USE TimesAssumption, Ticks DEF HInv, TypeOK, ShapeOK
<1>0. Pause \in Nat /\ Second <= Pause /\ MaxStartup <= Pause /\ Len(wire) \in Nat
  BY DEF Pause
<1>1. ASSUME wire' = wire \/ wire' = Append(wire, [line |-> "heartbeat", time |-> 0])
                          \/ wire' = Append(wire, [line |-> "chunk", time |-> 0]),
             silence' = silence, NEW i \in 1 .. Len(wire), Vouches(wire, i)
      PROVE  \E j \in 1 .. Len(wire') :
               /\ wire'[j].line = "heartbeat"
               /\ wire'[j].time < MaxDelay => silence' <= Pause + wire'[j].time
  <2>1. i \in 1 .. Len(wire') /\ wire'[i] = wire[i]
    BY <1>0, <1>1, Printed
  <2> QED
    BY <1>1, <2>1 DEF Vouches
<1>2. ASSUME Send, silence <= Pause, silence' = silence
      PROVE  \E j \in 1 .. Len(wire') :
               /\ wire'[j].line = "heartbeat"
               /\ wire'[j].time < MaxDelay => silence' <= Pause + wire'[j].time
  <2>1. CASE Len(wire) < Window
    <3>1. wire' = Append(wire, [line |-> "heartbeat", time |-> 0])
      BY <1>2, <2>1 DEF Send, PrintLine
    <3>2. /\ Len(wire') = Len(wire) + 1
          /\ wire'[Len(wire) + 1].line = "heartbeat" /\ wire'[Len(wire) + 1].time = 0
      BY <3>1, Printed
    <3>3. Len(wire) + 1 \in 1 .. Len(wire')
      BY <1>0, <3>2
    <3>4. silence' <= Pause + 0
      BY <1>0, <1>2
    <3> HIDE DEF HInv, TypeOK, ShapeOK
    <3> QED
      BY <3>2, <3>3, <3>4
  <2>2. CASE ~(Len(wire) < Window)
    <3>1. wire' = wire /\ Len(wire) = Window
      BY <1>0, <1>2, <2>2 DEF Send
    <3>2. wire[Window].line = "heartbeat" /\ wire[Window].time \in 0 .. MaxDelay
      BY <3>1, LinesAreTimed DEF Ordered
    <3> QED
      BY <1>0, <1>2, <3>1, <3>2
  <2> QED
    BY <2>1, <2>2
<1>3. CASE Started
  <2>1. Send /\ silence' = silence
    BY <1>3 DEF Started, client
  <2>2. silence <= Pause
    BY <1>0, <1>3 DEF Started, Starting
  <2> QED
    BY <1>2, <2>1, <2>2
<1>4. CASE Beat
  <2>1. Send /\ silence' = silence /\ response' = response /\ remote = "up"
    BY <1>4 DEF Beat, client
  <2>2. CASE silence <= phase
    BY <1>0, <1>2, <2>1, <2>2
  <2>3. CASE ~(silence <= phase)
    BY <1>1, <2>1, <2>3 DEF Send, PrintLine, Heard, Vouches
  <2> QED
    BY <2>2, <2>3
<1>5. CASE Announce
  <2>1. /\ wire' = Append(wire, [line |-> "chunk", time |-> 0])
        /\ silence' = silence /\ phase' = phase /\ response' = response /\ remote = "up"
    BY <1>5 DEF Announce, PrintLine, server, client
  <2> QED
    BY <1>1, <2>1 DEF Heard, Vouches
<1>6. CASE Deliver
  <2>1. /\ Len(wire') = Len(wire) - 1 /\ wire # <<>>
        /\ \A i \in 1 .. Len(wire') : wire'[i] = wire[i + 1]
        /\ response' = Append(response, wire[1].line)
    BY <1>6, Delivered
  <2>2. wire[1].line \in {"heartbeat", "chunk"}
    BY <1>0, <2>1, LinesAreTimed
  <2>3. ~Unheard(response)
    <3>1. \A i \in 1 .. Len(response) : response'[i] = response[i] /\ i \in 1 .. Len(response')
      BY <2>1, <2>2
    <3> QED
      BY <3>1 DEF Unheard
  <2>4. wire[1].line # "heartbeat"
    <3>1. Len(response') = Len(response) + 1 /\ response'[Len(response) + 1] = wire[1].line
      BY <2>1, <2>2
    <3> QED
      BY <3>1 DEF Unheard
  <2>5. remote = "up" /\ phase' = phase /\ silence' = silence
    BY <1>6 DEF Deliver, server
  <2>6. CASE silence <= phase
    BY <2>5, <2>6
  <2>7. CASE ~(silence <= phase)
    <3>1. PICK i \in 1 .. Len(wire) : Vouches(wire, i)
      BY <2>3, <2>5, <2>7 DEF Heard, Vouches
    <3>2. i - 1 \in 1 .. Len(wire') /\ wire'[i - 1] = wire[i]
      BY <1>0, <2>1, <2>4, <3>1 DEF Vouches
    <3> QED
      BY <2>5, <3>1, <3>2 DEF Vouches
  <2> QED
    BY <2>6, <2>7
<1>7. CASE RecvHeartbeat
  BY <1>7 DEF RecvHeartbeat, server
<1>8. CASE RecvChunk
  <2>1. /\ response # <<>> /\ response[1] = "chunk" /\ response' = Tail(response)
        /\ wire' = wire /\ silence' = silence /\ phase' = phase /\ remote = "up"
    BY <1>8 DEF RecvChunk, server
  <2>2. \A i \in 1 .. Len(response) - 1 :
          i \in 1 .. Len(response') /\ response'[i] = response[i + 1]
    BY <2>1, Received
  <2>3. ~Unheard(response)
    <3> SUFFICES ASSUME NEW i \in 1 .. Len(response), response[i] = "heartbeat" PROVE FALSE
      BY DEF Unheard
    <3>1. i - 1 \in 1 .. Len(response) - 1 /\ (i - 1) + 1 = i
      BY <2>1
    <3> QED
      BY <2>2, <3>1 DEF Unheard
  <2> QED
    BY <2>1, <2>3 DEF Heard
<1>9. CASE Sent \/ Check
  <2>1. /\ wire' = wire /\ silence' = silence /\ phase' = phase /\ response' = response
        /\ remote = "up"
    BY <1>9 DEF Sent, Check, server
  <2> QED
    BY <2>1 DEF Heard
<1>10. CASE Tick
  <2>1. remote = "up" /\ response' = response /\ phase < Second /\ phase' = phase + 1
    BY <1>10 DEF Tick, Urgent, Upto
  <2>2. silence' <= silence + 1 /\ silence' \in Nat
    <3>1. silence' = Upto(silence, Timeout + 1) /\ silence \in 0 .. Timeout + 1
      BY <1>10 DEF Tick
    <3> QED
      BY <3>1 DEF Upto
  <2>3. CASE silence <= phase
    BY <2>1, <2>2, <2>3
  <2>4. CASE ~(silence <= phase)
    <3>1. PICK i \in 1 .. Len(wire) : Vouches(wire, i)
      BY <2>1, <2>4 DEF Heard, Vouches
    <3>2. /\ Len(wire') = Len(wire) /\ wire'[i].line = wire[i].line
          /\ wire'[i].time = Upto(wire[i].time, MaxDelay) /\ wire[i].time \in 0 .. MaxDelay
      BY <1>10, TickAges, LinesAreTimed
    <3>3. wire'[i].time < MaxDelay =>
            wire[i].time < MaxDelay /\ wire'[i].time = wire[i].time + 1
      BY <3>2 DEF Upto
    <3>4. wire'[i].time < MaxDelay => silence' <= Pause + wire'[i].time
      BY <1>0, <2>2, <3>1, <3>2, <3>3 DEF Vouches
    <3> QED
      BY <3>1, <3>2, <3>4 DEF Vouches
  <2> QED
    BY <2>3, <2>4
<1>11. CASE UNCHANGED vars
  <2>1. /\ wire' = wire /\ silence' = silence /\ phase' = phase /\ response' = response
        /\ remote = "up"
    BY <1>11 DEF vars, server, client
  <2> QED
    BY <2>1 DEF Heard
<1> QED
  BY <1>3, <1>4, <1>5, <1>6, <1>7, <1>8, <1>9, <1>10, <1>11 DEF Next, Lose

(* The dispatcher never gives up a connection that works, however long the *)
(* download loop kept it, when a line takes less than four seconds and     *)
(* gmf-remote and the first line together less than five.                  *)
THEOREM NoFalseAlarms == Prompt => (Spec => []NoFalseAlarm)
<1>1. Init => HInv
  BY TimesAssumption, Ticks
     DEF Init, HInv, TypeOK, ShapeOK, Ordered, Starting, Heard, Rested, NoFalseAlarm, Pause
<1>2. Prompt /\ HInv /\ [Next]_vars => HInv'
  BY TypeStep, OrderedStep, StartingStep, HeardStep, RestedStep DEF HInv
<1>3. HInv => NoFalseAlarm
  BY DEF HInv
<1>4. ASSUME Prompt PROVE Spec => []NoFalseAlarm
  <2>1. HInv /\ [Next]_vars => HInv'
    BY <1>2, <1>4
  <2> QED
    BY <1>1, <1>3, <2>1, PTL DEF Spec
<1> QED
  BY <1>4
=============================================================================

----------------------------- MODULE Client_proofs -----------------------------
(***************************************************************************)
(* A run of gmf, for every file and every capacity of its channels: each   *)
(* answer of gmf-remote finds its waiter, and a download that succeeded    *)
(* leaves no bucket behind.                                                *)
(*                                                                         *)
(* Both count messages.  A request is in one place at a time, as itself or *)
(* as its answer, and as long as it is anywhere the waiter is armed.  The  *)
(* chunks a run has completed and those it is being told of are no more    *)
(* than gmf-remote has announced, and no more than it has stored: when all *)
(* of them are completed no upload is outstanding, and the list of objects *)
(* is complete.                                                            *)
(***************************************************************************)
EXTENDS Client, FiniteSetTheorems, TLAPS

Cnt(s, m) == Cardinality({i \in 1 .. Len(s) : s[i] = m})

ShapeOK ==
  /\ TypeOK
  /\ wire_up \in Seq(Kind) /\ wire_down \in Seq(Message)
  /\ made \in BOOLEAN
  /\ put \in Nat /\ lost \in Nat /\ put + lost <= TotalChunks
  /\ announced \in Nat

(* Where the request of this kind, or its answer, is.                      *)
InTransit(k) ==
  Cnt(commands, k) + Cnt(wire_up, k) + Cnt(wire_down, k) + Cnt(response, k)

(* The kinds main has not come to yet, or has not sent.                    *)
Unsent(k) ==
  \/ k = "setup" /\ kind = "ready"
  \/ k = "start" /\ kind # "start"
  \/ k = kind /\ pc \in {"arm", "send"}

Awaited ==
  /\ \A k \in {"setup", "start"} :
       /\ InTransit(k) \in {0, 1}
       /\ InTransit(k) = 1 => waiter[k] = "armed"
       /\ Unsent(k) => InTransit(k) = 0
  /\ pc = "send" => waiter[kind] = "armed" /\ kind # "ready"
  /\ pc = "joining" => kind = "ready"
  /\ pc = "opened" => kind = "setup"

(* What the run has completed or is being told of.                         *)
Told == got + Cnt(events, "chunk") + Cnt(response, "chunk") + Cnt(wire_down, "chunk")

Stored ==
  /\ Told <= announced /\ Told <= put
  /\ announced <= put \/ (announced = put + 1 /\ put + lost = TotalChunks)

(* After success nothing is added to the bucket, so that what is listed is *)
(* all there is.                                                           *)
Cleaned ==
  /\ result = "success" =>
       /\ got = TotalChunks
       /\ pc \in {"closing", "disconnect", "exit"} \cup CleanUp
       /\ pc = "delete" => objects \subseteq listed
       /\ pc = "remove" => objects = {}
       /\ pc = "exit" /\ ~r2_failed => ~made
  /\ pc \in Business \cup {"joining"} => result = "none"

-----------------------------------------------------------------------------
(* How many times a message occurs in a channel, when one is added to it   *)
(* and when its first one is taken.                                        *)
LEMMA CntType ==
  ASSUME NEW S, NEW s \in Seq(S), NEW m
  PROVE  /\ IsFiniteSet({i \in 1 .. Len(s) : s[i] = m})
         /\ Cnt(s, m) \in Nat
<1>1. IsFiniteSet(1 .. Len(s))
  BY FS_Interval
<1>2. IsFiniteSet({i \in 1 .. Len(s) : s[i] = m})
  BY <1>1, FS_Subset
<1> QED
  BY <1>2, FS_CardinalityType DEF Cnt

(* An empty channel holds no message.                                      *)
LEMMA CntEmpty == ASSUME NEW m PROVE Cnt(<<>>, m) = 0
<1>1. {i \in 1 .. Len(<<>>) : <<>>[i] = m} = {}
  OBVIOUS
<1> QED
  BY <1>1, FS_EmptySet DEF Cnt

(* A message that is added to a channel counts there once more.            *)
LEMMA CntAppend ==
  ASSUME NEW S, NEW s \in Seq(S), NEW x \in S, NEW m
  PROVE  Cnt(Append(s, x), m) = Cnt(s, m) + (IF x = m THEN 1 ELSE 0)
<1> DEFINE Before == {i \in 1 .. Len(s) : s[i] = m}
           New == {i \in 1 .. Len(Append(s, x)) : Append(s, x)[i] = m}
<1>1. IsFiniteSet(Before) /\ Cardinality(Before) \in Nat /\ Cnt(s, m) = Cardinality(Before)
  BY CntType DEF Cnt
<1>0. Cnt(Append(s, x), m) = Cardinality(New)
  BY DEF Cnt
<1>2. CASE x = m
  <2>1. New = Before \cup {Len(s) + 1} /\ Len(s) + 1 \notin Before
    BY <1>2
  <2>2. Cardinality(New) = Cardinality(Before) + 1
    BY <1>1, <2>1, FS_AddElement
  <2> HIDE DEF New, Before
  <2> QED
    BY <1>0, <1>1, <1>2, <2>2
<1>3. CASE x # m
  <2>1. New = Before
    BY <1>3
  <2> HIDE DEF New, Before
  <2> QED
    BY <1>0, <1>1, <1>3, <2>1
<1> QED
  BY <1>2, <1>3

(* And taking the first one takes away that one.                           *)
LEMMA CntTail ==
  ASSUME NEW S, NEW s \in Seq(S), s # <<>>, NEW m
  PROVE  Cnt(s, m) = Cnt(Tail(s), m) + (IF Head(s) = m THEN 1 ELSE 0)
<1> DEFINE All == {i \in 1 .. Len(s) : s[i] = m}
           Rest == {i \in 2 .. Len(s) : s[i] = m}
           New == {i \in 1 .. Len(Tail(s)) : Tail(s)[i] = m}
           back == [i \in New |-> i + 1]
<1>1. Tail(s) \in Seq(S) /\ Len(Tail(s)) = Len(s) - 1 /\ Len(s) \in Nat \ {0}
      /\ \A i \in 1 .. Len(s) - 1 : Tail(s)[i] = s[i + 1]
  OBVIOUS
<1>2. IsFiniteSet(All) /\ IsFiniteSet(New) /\ Cnt(s, m) = Cardinality(All)
      /\ Cnt(Tail(s), m) = Cardinality(New) /\ Cardinality(New) \in Nat
  BY <1>1, CntType DEF Cnt
<1>3. back \in Bijection(New, Rest)
  <2>1. back \in [New -> Rest]
    BY <1>1
  <2>2. \A i, j \in New : back[i] = back[j] => i = j
    OBVIOUS
  <2>3. \A j \in Rest : \E i \in New : back[i] = j
    <3> SUFFICES ASSUME NEW j \in Rest PROVE \E i \in New : back[i] = j
      OBVIOUS
    <3>1. j - 1 \in New /\ back[j - 1] = j
      BY <1>1
    <3> QED
      BY <3>1
  <2> HIDE DEF New, Rest, back
  <2> QED
    BY <2>1, <2>2, <2>3 DEF Bijection, Injection, Surjection, IsInjective
<1>4. IsFiniteSet(Rest) /\ Cardinality(Rest) = Cardinality(New)
  BY <1>2, <1>3, FS_Bijection DEF ExistsBijection
<1>5. CASE Head(s) = m
  <2>1. All = Rest \cup {1} /\ 1 \notin Rest
    BY <1>1, <1>5
  <2> HIDE DEF All, Rest, New
  <2> QED
    BY <1>2, <1>4, <1>5, <2>1, FS_AddElement
<1>6. CASE Head(s) # m
  <2>1. All = Rest
    BY <1>1, <1>6
  <2> HIDE DEF All, Rest, New
  <2> QED
    BY <1>2, <1>4, <1>6, <2>1
<1> QED
  BY <1>5, <1>6

(* Taking the first message, which is one of its kind.                     *)
LEMMA Taken ==
  ASSUME NEW S, NEW s \in Seq(S), s # <<>>
  PROVE  Tail(s) \in Seq(S) /\ Len(Tail(s)) = Len(s) - 1 /\ Head(s) \in S
  OBVIOUS

(* Adding one, where there is room.                                        *)
LEMMA Added ==
  ASSUME NEW S, NEW s \in Seq(S), NEW x \in S, NEW longer, longer = Append(s, x)
  PROVE  longer \in Seq(S) /\ Len(longer) = Len(s) + 1 /\ longer # <<>>
  OBVIOUS

(* A channel to which something may have been added stays within its       *)
(* capacity.                                                               *)
LEMMA Kept ==
  ASSUME NEW S, NEW s \in Seq(S), Len(s) <= Capacity, NEW x \in S, NEW s2,
         s2 = s \/ (Len(s) < Capacity /\ s2 = Append(s, x))
  PROVE  s2 \in Seq(S) /\ Len(s2) <= Capacity /\ (s # <<>> => s2 # <<>>)
<1>1. CASE s2 = s
  BY <1>1
<1>2. CASE Len(s) < Capacity /\ s2 = Append(s, x)
  <2>1. s2 \in Seq(S) /\ Len(s2) = Len(s) + 1 /\ s2 # <<>> /\ Len(s) \in Nat
    BY <1>2, Added
  <2> QED
    BY <1>2, <2>1, CapacityAssumption
<1> QED
  BY <1>1, <1>2

-----------------------------------------------------------------------------
(* A line is printed only when none is on its way, or is lost.             *)
LEMMA Printed ==
  ASSUME ShapeOK, NEW m \in Message, PrintLine(m)
  PROVE  /\ wire_down' \in Seq(Message)
         /\ comm = "sending" => wire_down' # <<>>
         /\ wire_down' = wire_down \/ (wire_down = <<>> /\ wire_down' = <<m>>)
<1>1. <<m>> \in Seq(Message) /\ <<m>> # <<>>
  OBVIOUS
<1>2. wire_down \in Seq(Message) /\ (comm = "sending" => wire_down # <<>>)
  BY DEF ShapeOK, TypeOK
<1>3. wire_down' = wire_down \/ (wire_down = <<>> /\ wire_down' = <<m>>)
  BY DEF PrintLine
<1> QED
  BY <1>1, <1>2, <1>3

(* Every channel keeps its type and its bound.                             *)
LEMMA ChannelsStep ==
  ASSUME ShapeOK, [Next]_vars
  PROVE  /\ commands' \in Seq(Kind) /\ Len(commands') <= Capacity
         /\ response' \in Seq(Message) /\ Len(response') <= Capacity
         /\ events' \in Seq(Message) /\ Len(events') <= Capacity
         /\ wire_up' \in Seq(Kind) /\ wire_down' \in Seq(Message)
         /\ comm' = "sending" => wire_down' # <<>>
         /\ dispatcher' = "sending" => response' # <<>>
<1> USE CapacityAssumption DEF ShapeOK, TypeOK
<1>0. /\ commands \in Seq(Kind) /\ Len(commands) <= Capacity /\ Len(commands) \in Nat
      /\ response \in Seq(Message) /\ Len(response) <= Capacity /\ Len(response) \in Nat
      /\ events \in Seq(Message) /\ Len(events) <= Capacity /\ Len(events) \in Nat
      /\ wire_up \in Seq(Kind) /\ wire_down \in Seq(Message)
      /\ dispatcher = "sending" => response # <<>>
  OBVIOUS
<1>1. CASE Main
  <2>1. CASE init_r2 \/ NewClient \/ spawn_dispatcher \/ Arm
    BY <2>1 DEF init_r2, NewClient, spawn_dispatcher, Arm, channels, wires
  <2>2. CASE send_request
    <3>1. Len(commands) < Capacity /\ commands' = Append(commands, kind)
      BY <2>2 DEF send_request
    <3>2. commands' \in Seq(Kind) /\ Len(commands') <= Capacity
      BY <3>1, Kept
    <3> QED
      BY <2>2, <3>2 DEF send_request, wires
  <2>3. CASE Ready \/ SessionOpened \/ SetupDone \/ StartDone
    BY <2>3 DEF Ready, SessionOpened, SetupDone, StartDone, channels, wires
  <2>4. CASE LoopEvent
    <3>1. Tail(events) \in Seq(Message) /\ Len(Tail(events)) = Len(events) - 1
      BY <2>4, Taken DEF LoopEvent, Hears
    <3> QED
      BY <2>4, <3>1 DEF LoopEvent, wires
  <2>5. CASE AllBranchesDisabled \/ finalize \/ CommJoined \/ Close
    BY <2>5 DEF AllBranchesDisabled, finalize, CommJoined, Close, channels, wires
  <2>6. CASE ListObjects \/ DeleteListed \/ RemoveBucket
    BY <2>6 DEF ListObjects, DeleteListed, RemoveBucket, channels, wires
  <2> QED
    BY <1>1, <2>1, <2>2, <2>3, <2>4, <2>5, <2>6 DEF Main
<1>2. CASE JoinFails \/ Fails \/ Interrupt \/ CleanUpFails
  BY <1>2 DEF JoinFails, Leave, Fails, Interrupt, CleanUpFails, channels, wires
<1>3. CASE Comm
  <2>0. UNCHANGED <<dispatcher, events>>
    BY <1>3 DEF Comm, CommRequest, CommandsClosed, CommRead, CommDeliver, ChannelClosed,
                OnlyComm
  <2>1. CASE CommRequest
    <3>1. /\ commands # <<>> /\ commands' = Tail(commands)
          /\ wire_up' = wire_up \/ wire_up' = Append(wire_up, Head(commands))
      BY <2>1 DEF CommRequest
    <3>2. comm' # "sending" /\ UNCHANGED <<response, wire_down>>
      BY <2>1 DEF CommRequest
    <3>3. commands' \in Seq(Kind) /\ Len(commands') <= Capacity /\ Head(commands) \in Kind
      BY <1>0, <3>1, Taken
    <3>4. wire_up' \in Seq(Kind)
      BY <1>0, <3>1, <3>3, Added
    <3> QED
      BY <1>0, <2>0, <3>2, <3>3, <3>4
  <2>2. CASE CommandsClosed \/ CommRead \/ ChannelClosed
    BY <2>0, <2>2 DEF CommandsClosed, CommRead, ChannelClosed, wires
  <2>3. CASE CommDeliver
    <3>1. /\ wire_down # <<>> /\ wire_down' = Tail(wire_down) /\ comm' = "select"
          /\ UNCHANGED <<commands, wire_up>>
          /\ \/ response' = response
             \/ Len(response) < Capacity /\ response' = Append(response, Head(wire_down))
      BY <2>3 DEF CommDeliver
    <3>2. wire_down' \in Seq(Message) /\ Head(wire_down) \in Message
      BY <1>0, <3>1, Taken
    <3>3. response' \in Seq(Message) /\ Len(response') <= Capacity
          /\ (response # <<>> => response' # <<>>)
      BY <1>0, <3>1, <3>2, Kept
    <3> QED
      BY <1>0, <2>0, <3>1, <3>2, <3>3
  <2> QED
    BY <1>3, <2>1, <2>2, <2>3 DEF Comm
<1>4. CASE Dispatcher
  <2>0. UNCHANGED <<commands, comm, wire_up, wire_down>>
    BY <1>4 DEF Dispatcher, RecvHeartbeat, RecvAnswer, RecvEvent, SendEvent, RecvError,
                DispatcherEnds, OnlyDispatcher, wires
  <2>1. response # <<>> => Tail(response) \in Seq(Message) /\ Len(Tail(response)) = Len(response) - 1
    BY Taken
  <2>2. CASE RecvHeartbeat \/ (\E k \in Kind : RecvAnswer(k)) \/ RecvError
    <3>1. /\ response # <<>> /\ response' = Tail(response) /\ events' = events
          /\ dispatcher' # "sending"
      BY <2>2 DEF RecvHeartbeat, RecvAnswer, RecvError, Receive
    <3> QED
      BY <2>0, <2>1, <3>1
  <2>3. CASE RecvEvent \/ DispatcherEnds
    BY <2>0, <2>3 DEF RecvEvent, Receive, DispatcherEnds
  <2>4. CASE SendEvent
    <3>1. /\ response # <<>> /\ response' = Tail(response) /\ dispatcher' = "select"
          /\ \/ events' = events
             \/ Len(events) < Capacity /\ events' = Append(events, Head(response))
      BY <2>4 DEF SendEvent
    <3>2. Head(response) \in Message
      BY <1>0, <3>1, Taken
    <3>3. events' \in Seq(Message) /\ Len(events') <= Capacity
      BY <1>0, <3>1, <3>2, Kept
    <3> QED
      BY <1>0, <2>0, <2>1, <3>1, <3>3
  <2> QED
    BY <1>4, <2>2, <2>3, <2>4 DEF Dispatcher
<1>5. CASE Remote
  <2>0. UNCHANGED <<commands, comm, response, dispatcher, events>>
    BY <1>5 DEF Remote, RemoteReady, RemoteInitFails, Beat, HandleSetup, HandleStart,
                PutObject, UploadFails, Announce, EndOfInput, OnlyRemote, channels
  <2>1. wire_down' = wire_down \/ \E m \in Message : PrintLine(m)
    <3> USE DEF Message
    <3>1. CASE RemoteReady \/ PutObject \/ UploadFails \/ EndOfInput
      BY <3>1 DEF RemoteReady, PutObject, UploadFails, EndOfInput
    <3>2. CASE RemoteInitFails \/ Beat
      BY <3>2 DEF RemoteInitFails, Beat
    <3>3. CASE HandleSetup \/ HandleStart
      BY <3>3 DEF HandleSetup, HandleStart
    <3>4. CASE Announce
      BY <3>4 DEF Announce
    <3> QED
      BY <1>5, <3>1, <3>2, <3>3, <3>4 DEF Remote
  <2>2. wire_down' \in Seq(Message) /\ (comm = "sending" => wire_down' # <<>>)
    BY <2>1, Printed
  <2>3. wire_up' = wire_up \/ (wire_up # <<>> /\ wire_up' = Tail(wire_up))
    BY <1>5 DEF Remote, RemoteReady, RemoteInitFails, Beat, HandleSetup, HandleStart,
                PutObject, UploadFails, Announce, EndOfInput
  <2>4. wire_up' \in Seq(Kind)
    BY <2>3, Taken
  <2> QED
    BY <2>0, <2>2, <2>4
<1>6. CASE Cut
  BY <1>6 DEF Cut, channels
<1>7. CASE UNCHANGED vars
  BY <1>7 DEF vars, channels, wires
<1> QED
  BY <1>1, <1>2, <1>3, <1>4, <1>5, <1>6, <1>7 DEF Next

(* main's own state, the bucket and the uploads.                           *)
LEMMA MainStep ==
  ASSUME ShapeOK, [Next]_vars
  PROVE  /\ pc' \in {"joining", "closing", "disconnect"} \cup Business \cup CleanUp \cup Over
         /\ joined' \subseteq {"r2", "client"}
         /\ kind' \in Kind
         /\ waiter' \in [Kind -> {"none", "armed", "answered"}]
         /\ result' \in {"none", "success", "error", "interrupted"}
         /\ bar' \in BOOLEAN /\ got' \in 0 .. TotalChunks
         /\ link' \in {"off", "up", "cut", "closed"}
<1> USE DEF ShapeOK, TypeOK, Kind, Business, CleanUp, Over
<1>1. CASE Main
  <2>1. CASE init_r2 \/ NewClient \/ spawn_dispatcher
    BY <2>1 DEF init_r2, NewClient, spawn_dispatcher, After, download, wires, stage
  <2>2. CASE Arm
    BY <2>2 DEF Arm, After, download, wires, stage
  <2>3. CASE send_request \/ Ready
    BY <2>3 DEF send_request, Ready, After, download, wires, stage
  <2>4. CASE SessionOpened \/ SetupDone \/ StartDone
    BY <2>4 DEF SessionOpened, SetupDone, StartDone, After, download, wires, stage
  <2>5. CASE LoopEvent
    BY <2>5, TotalChunksAssumption DEF LoopEvent, wires, stage
  <2>6. CASE AllBranchesDisabled \/ finalize \/ CommJoined \/ Close
    BY <2>6 DEF AllBranchesDisabled, finalize, CommJoined, Close, download, wires, stage
  <2>7. CASE ListObjects \/ DeleteListed \/ RemoveBucket
    BY <2>7 DEF ListObjects, DeleteListed, RemoveBucket, download, wires, stage
  <2> QED
    BY <1>1, <2>1, <2>2, <2>3, <2>4, <2>5, <2>6, <2>7 DEF Main
<1>2. CASE JoinFails \/ Fails
  BY <1>2 DEF JoinFails, Leave, Fails, download, wires, stage
<1>3. CASE Interrupt \/ CleanUpFails
  BY <1>3 DEF Interrupt, CleanUpFails, download, wires, stage
<1>4. CASE Comm
  BY <1>4 DEF Comm, CommRequest, CommandsClosed, CommRead, CommDeliver, ChannelClosed,
              OnlyComm, download, wires, stage
<1>5. CASE Dispatcher
  <2>1. UNCHANGED <<pc, result, stage, download, link>>
    BY <1>5 DEF Dispatcher, RecvHeartbeat, RecvAnswer, RecvEvent, SendEvent, RecvError,
                DispatcherEnds, OnlyDispatcher, wires
  <2>2. waiter' \in [Kind -> {"none", "armed", "answered"}]
    BY <1>5 DEF Dispatcher, RecvHeartbeat, RecvAnswer, RecvEvent, SendEvent, RecvError,
                DispatcherEnds
  <2> QED
    BY <2>1, <2>2 DEF download, stage
<1>6. CASE Remote
  <2>1. UNCHANGED <<pc, result, stage, download, waiter, link>>
    BY <1>6 DEF Remote, RemoteReady, RemoteInitFails, Beat, HandleSetup, HandleStart,
                PutObject, UploadFails, Announce, EndOfInput, OnlyRemote
  <2> QED
    BY <2>1 DEF download, stage
<1>7. CASE Cut
  BY <1>7 DEF Cut, download, stage
<1>8. CASE UNCHANGED vars
  BY <1>8 DEF vars, download, stage, wires
<1> QED
  BY <1>1, <1>2, <1>3, <1>4, <1>5, <1>6, <1>7, <1>8 DEF Next

(* What a step does to the bucket and to the counts of the upload.         *)
LEMMA BucketStep ==
  ASSUME ShapeOK, [Next]_vars
  PROVE  /\ made' \in BOOLEAN /\ (objects' # {} => made')
         /\ put' \in Nat /\ lost' \in Nat /\ put' + lost' <= TotalChunks
         /\ announced' \in Nat
<1> USE TotalChunksAssumption DEF ShapeOK, TypeOK
<1>1. CASE Main
  BY <1>1 DEF Main, init_r2, NewClient, spawn_dispatcher, Arm, send_request, Ready,
              SessionOpened, SetupDone, StartDone, LoopEvent, AllBranchesDisabled, finalize,
              CommJoined, Close, ListObjects, DeleteListed, RemoveBucket, uploads, bucket
<1>2. CASE JoinFails \/ Fails \/ Interrupt \/ CleanUpFails
  BY <1>2 DEF JoinFails, Fails, Interrupt, CleanUpFails, uploads, bucket
<1>3. CASE Comm \/ Dispatcher
  BY <1>3 DEF Comm, CommRequest, CommandsClosed, CommRead, CommDeliver, ChannelClosed,
              OnlyComm, Dispatcher, RecvHeartbeat, RecvAnswer, RecvEvent, SendEvent,
              RecvError, DispatcherEnds, OnlyDispatcher, uploads, bucket
<1>4. CASE Remote
  <2>1. CASE RemoteReady \/ RemoteInitFails \/ Beat \/ HandleSetup \/ HandleStart \/ EndOfInput
    BY <2>1 DEF RemoteReady, RemoteInitFails, Beat, HandleSetup, HandleStart, EndOfInput,
                uploads, bucket
  <2>2. CASE PutObject \/ UploadFails
    BY <2>2 DEF PutObject, UploadFails
  <2>3. CASE Announce
    BY <2>3 DEF Announce, bucket
  <2> QED
    BY <1>4, <2>1, <2>2, <2>3 DEF Remote
<1>5. CASE Cut \/ UNCHANGED vars
  BY <1>5 DEF Cut, vars, uploads, bucket
<1> QED
  BY <1>1, <1>2, <1>3, <1>4, <1>5 DEF Next

(* Every step keeps the types.                                             *)
LEMMA ShapeStep == ShapeOK /\ [Next]_vars => ShapeOK'
<1> SUFFICES ASSUME ShapeOK, [Next]_vars PROVE ShapeOK'
  OBVIOUS
<1> QED
  BY ChannelsStep, MainStep, BucketStep DEF ShapeOK, TypeOK

(* A run starts with empty channels and no bucket.                         *)
LEMMA ShapeInit == Init => ShapeOK
<1> SUFFICES ASSUME Init PROVE ShapeOK
  OBVIOUS
<1>1. /\ pc = "joining" /\ joined = {} /\ kind = "ready" /\ result = "none"
      /\ waiter \in [Kind -> {"none", "armed", "answered"}]
      /\ bar = FALSE /\ got \in 0 .. TotalChunks /\ link = "off"
      /\ comm = "none" /\ dispatcher = "none"
  BY DEF Init
<1>2. commands = <<>> /\ response = <<>> /\ events = <<>> /\ wire_up = <<>> /\ wire_down = <<>>
  BY DEF Init
<1>3. made \in BOOLEAN /\ (objects # {} => made)
  BY DEF Init
<1>4. put \in Nat /\ lost \in Nat /\ put + lost <= TotalChunks /\ announced \in Nat
  <2>1. got \in 0 .. TotalChunks /\ put = got /\ lost = 0 /\ announced = got
    BY DEF Init
  <2> QED
    BY <2>1, TotalChunksAssumption
<1>5. /\ commands \in Seq(Kind) /\ Len(commands) <= Capacity
      /\ response \in Seq(Message) /\ Len(response) <= Capacity
      /\ events \in Seq(Message) /\ Len(events) <= Capacity
      /\ wire_up \in Seq(Kind) /\ wire_down \in Seq(Message)
  BY <1>2, CapacityAssumption
<1> QED
  BY <1>1, <1>3, <1>4, <1>5 DEF ShapeOK, TypeOK, Kind

(* Every channel stays within its capacity, whatever the three tasks,      *)
(* gmf-remote and the user do, and the bucket holds objects only while it  *)
(* exists.                                                                 *)
THEOREM TypeCorrectness == Spec => []TypeOK
<1>1. ShapeOK => TypeOK
  BY DEF ShapeOK
<1> QED
  BY <1>1, ShapeInit, ShapeStep, PTL DEF Spec

-----------------------------------------------------------------------------
(* The counts of a channel before and after a step.                        *)
LEMMA CntPrinted ==
  ASSUME ShapeOK, NEW x \in Message, PrintLine(x), NEW m
  PROVE  /\ Cnt(wire_down', m) <= Cnt(wire_down, m) + (IF x = m THEN 1 ELSE 0)
         /\ Cnt(wire_down', m) \in Nat /\ Cnt(wire_down, m) \in Nat
<1>1. Cnt(wire_down, m) \in Nat
  BY CntType DEF ShapeOK
<1>2. CASE wire_down' = wire_down
  BY <1>1, <1>2
<1>3. CASE wire_down = <<>> /\ wire_down' = <<x>>
  <2>1. wire_down' = Append(wire_down, x) /\ wire_down \in Seq(Message)
    BY <1>3
  <2>2. Cnt(wire_down', m) = Cnt(wire_down, m) + (IF x = m THEN 1 ELSE 0)
    BY <2>1, CntAppend
  <2> QED
    BY <1>1, <2>2
<1> QED
  BY <1>2, <1>3, Printed

(* The counts of the messages in each place are numbers.                   *)
LEMMA Counted ==
  ASSUME ShapeOK, NEW m
  PROVE  /\ Cnt(commands, m) \in Nat /\ Cnt(wire_up, m) \in Nat
         /\ Cnt(wire_down, m) \in Nat /\ Cnt(response, m) \in Nat /\ Cnt(events, m) \in Nat
  BY CntType DEF ShapeOK, TypeOK

(* A message that leaves one place for the next, or is lost on the way.    *)
LEMMA Moved ==
  ASSUME NEW a \in Nat, NEW a2 \in Nat, NEW b \in Nat, NEW b2 \in Nat, NEW c \in Nat,
         NEW d \in Nat, NEW P \in BOOLEAN,
         a = a2 + (IF P THEN 1 ELSE 0), b2 <= b + (IF P THEN 1 ELSE 0)
  PROVE  /\ a2 + b2 + c + d <= a + b + c + d
         /\ c + a2 + b2 + d <= c + a + b + d
         /\ c + d + a2 + b2 <= c + d + a + b
  OBVIOUS

(* A request is added once, by main, and only then is there more of its    *)
(* kind on the way; the dispatcher takes its answer away.                  *)
LEMMA TransitStep ==
  ASSUME ShapeOK, [Next]_vars, NEW k \in {"setup", "start"}
  PROVE  /\ \/ InTransit(k)' <= InTransit(k)
            \/ send_request /\ k = kind /\ InTransit(k)' = InTransit(k) + 1
         /\ RecvAnswer(k) => InTransit(k)' = InTransit(k) - 1
         /\ InTransit(k) \in Nat /\ InTransit(k)' \in Nat
<1>0. ShapeOK'
  BY ShapeStep
<1>c. /\ Cnt(commands, k) \in Nat /\ Cnt(wire_up, k) \in Nat
      /\ Cnt(wire_down, k) \in Nat /\ Cnt(response, k) \in Nat
      /\ commands \in Seq(Kind) /\ wire_up \in Seq(Kind)
      /\ wire_down \in Seq(Message) /\ response \in Seq(Message)
  BY Counted DEF ShapeOK, TypeOK
<1>d. /\ Cnt(commands', k) \in Nat /\ Cnt(wire_up', k) \in Nat
      /\ Cnt(wire_down', k) \in Nat /\ Cnt(response', k) \in Nat
  BY <1>0, CntType DEF ShapeOK, TypeOK
<1>t. InTransit(k) \in Nat /\ InTransit(k)' \in Nat
  <2>1. \A c, u, d, r \in Nat : c + u + d + r \in Nat
    OBVIOUS
  <2> QED
    BY <1>c, <1>d, <2>1 DEF InTransit
<1>1. CASE send_request
  <2>1. commands' = Append(commands, kind) /\ UNCHANGED <<wire_up, wire_down, response>>
        /\ kind \in Kind
    BY <1>1 DEF send_request, wires, ShapeOK, TypeOK
  <2>2. Cnt(commands', k) = Cnt(commands, k) + (IF kind = k THEN 1 ELSE 0)
    BY <1>c, <2>1, CntAppend
  <2>3. ~RecvAnswer(k)
    BY <1>c, <1>t, <2>1, <2>2 DEF RecvAnswer, OnlyDispatcher, InTransit
  <2> QED
    BY <1>1, <1>c, <1>t, <2>1, <2>2, <2>3 DEF InTransit
<1>2. CASE CommRequest
  <2>1. /\ commands # <<>> /\ commands' = Tail(commands) /\ UNCHANGED <<wire_down, response>>
        /\ wire_up' = wire_up \/ wire_up' = Append(wire_up, Head(commands))
    BY <1>2 DEF CommRequest
  <2>2. Cnt(commands, k) = Cnt(commands', k) + (IF Head(commands) = k THEN 1 ELSE 0)
    BY <1>c, <2>1, CntTail
  <2>3. Cnt(wire_up', k) <= Cnt(wire_up, k) + (IF Head(commands) = k THEN 1 ELSE 0)
    <3>1. CASE wire_up' = wire_up
      BY <1>c, <3>1
    <3>2. CASE wire_up' = Append(wire_up, Head(commands))
      <4>1. Head(commands) \in Kind
        BY <1>c, <2>1
      <4>2. Cnt(wire_up', k) = Cnt(wire_up, k) + (IF Head(commands) = k THEN 1 ELSE 0)
        BY <1>c, <3>2, <4>1, CntAppend
      <4> QED
        BY <1>c, <4>2
    <3> QED
      BY <2>1, <3>1, <3>2
  <2>4. ~RecvAnswer(k)
    BY <1>c, <2>1 DEF RecvAnswer, Receive
  <2>5. InTransit(k)' <= InTransit(k)
    <3>1. Cnt(commands', k) + Cnt(wire_up', k) + Cnt(wire_down, k) + Cnt(response, k)
          <= Cnt(commands, k) + Cnt(wire_up, k) + Cnt(wire_down, k) + Cnt(response, k)
      BY <1>c, <1>d, <2>2, <2>3, Moved
    <3> QED
      BY <2>1, <3>1 DEF InTransit
  <2> QED
    BY <1>t, <2>4, <2>5
<1>3. CASE CommDeliver
  <2>1. /\ wire_down # <<>> /\ wire_down' = Tail(wire_down) /\ UNCHANGED <<commands, wire_up>>
        /\ response' = response \/ response' = Append(response, Head(wire_down))
    BY <1>3 DEF CommDeliver, ShapeOK, TypeOK
  <2>2. Cnt(wire_down, k) = Cnt(wire_down', k) + (IF Head(wire_down) = k THEN 1 ELSE 0)
    BY <1>c, <2>1, CntTail
  <2>3. Cnt(response', k) <= Cnt(response, k) + (IF Head(wire_down) = k THEN 1 ELSE 0)
    <3>1. CASE response' = response
      BY <1>c, <3>1
    <3>2. CASE response' = Append(response, Head(wire_down))
      <4>1. Head(wire_down) \in Message
        BY <1>c, <2>1
      <4>2. Cnt(response', k) = Cnt(response, k) + (IF Head(wire_down) = k THEN 1 ELSE 0)
        BY <1>c, <3>2, <4>1, CntAppend
      <4> QED
        BY <1>c, <4>2
    <3> QED
      BY <2>1, <3>1, <3>2
  <2>4. RecvAnswer(k) => response # <<>> /\ response' = Tail(response) /\ wire_down' = wire_down
    BY DEF RecvAnswer, Receive, OnlyDispatcher, wires
  <2>5. wire_down' # wire_down
    BY <1>c, <2>1
  <2>6. InTransit(k)' <= InTransit(k)
    <3>1. Cnt(commands, k) + Cnt(wire_up, k) + Cnt(wire_down', k) + Cnt(response', k)
          <= Cnt(commands, k) + Cnt(wire_up, k) + Cnt(wire_down, k) + Cnt(response, k)
      BY <1>c, <1>d, <2>2, <2>3, Moved
    <3> QED
      BY <2>1, <3>1 DEF InTransit
  <2> QED
    BY <1>t, <2>4, <2>5, <2>6
<1>4. CASE Dispatcher
  <2>0. UNCHANGED <<commands, wire_up, wire_down>>
    BY <1>4 DEF Dispatcher, RecvHeartbeat, RecvAnswer, RecvEvent, SendEvent, RecvError,
                DispatcherEnds, OnlyDispatcher, wires
  <2>1. response' = response \/ (response # <<>> /\ response' = Tail(response))
    BY <1>4 DEF Dispatcher, RecvHeartbeat, RecvAnswer, RecvEvent, SendEvent, RecvError,
                DispatcherEnds, Receive, ShapeOK, TypeOK
  <2>2. RecvAnswer(k) => response # <<>> /\ response' = Tail(response) /\ Head(response) = k
    BY DEF RecvAnswer, Receive
  <2>3. response # <<>> /\ response' = Tail(response) =>
          Cnt(response, k) = Cnt(response', k) + (IF Head(response) = k THEN 1 ELSE 0)
    BY <1>c, CntTail
  <2>6. \A c, u, d, r, r2 \in Nat :
          /\ r2 <= r => c + u + d + r2 <= c + u + d + r
          /\ r = r2 + 1 => c + u + d + r2 = (c + u + d + r) - 1
    OBVIOUS
  <2>4. InTransit(k)' <= InTransit(k)
    <3>1. Cnt(response', k) <= Cnt(response, k)
      BY <1>c, <1>d, <2>1, <2>3
    <3> QED
      BY <1>c, <1>d, <2>0, <2>6, <3>1 DEF InTransit
  <2>5. RecvAnswer(k) => InTransit(k)' = InTransit(k) - 1
    <3>1. RecvAnswer(k) => Cnt(response, k) = Cnt(response', k) + 1
      BY <1>c, <1>d, <2>2, <2>3
    <3> QED
      BY <1>c, <1>d, <2>0, <2>6, <3>1 DEF InTransit
  <2> QED
    BY <1>t, <2>4, <2>5
<1>5. CASE Remote
  <2>0. UNCHANGED <<commands, response>> /\ ~RecvAnswer(k)
    <3>1. UNCHANGED <<commands, response>>
      BY <1>5 DEF Remote, RemoteReady, RemoteInitFails, Beat, HandleSetup, HandleStart,
                  PutObject, UploadFails, Announce, EndOfInput, OnlyRemote, channels
    <3>2. RecvAnswer(k) => response # <<>> /\ response' = Tail(response)
      BY DEF RecvAnswer, Receive
    <3> QED
      BY <1>c, <3>1, <3>2
  <2>1. CASE RemoteReady \/ PutObject \/ UploadFails \/ EndOfInput
    BY <1>c, <1>t, <2>0, <2>1 DEF RemoteReady, PutObject, UploadFails, EndOfInput, InTransit
  <2>2. CASE RemoteInitFails \/ Beat \/ Announce
    <3>1. wire_up' = wire_up
      BY <2>2 DEF RemoteInitFails, Beat, Announce
    <3>2. wire_down' = wire_down \/ \E x \in Message \ {k} : PrintLine(x)
      BY <2>2 DEF RemoteInitFails, Beat, Announce, Message
    <3>3. Cnt(wire_down', k) <= Cnt(wire_down, k)
      BY <1>c, <3>2, CntPrinted
    <3> QED
      BY <1>c, <1>d, <1>t, <2>0, <3>1, <3>3 DEF InTransit
  <2>3. CASE HandleSetup \/ HandleStart
    <3>1. PICK x \in {"setup", "start"} :
            /\ wire_up # <<>> /\ Head(wire_up) = x /\ wire_up' = Tail(wire_up)
            /\ wire_down' = wire_down \/ PrintLine(x) \/ PrintLine("error")
      BY <2>3 DEF HandleSetup, HandleStart
    <3>2. Cnt(wire_up, k) = Cnt(wire_up', k) + (IF x = k THEN 1 ELSE 0)
      BY <1>c, <3>1, CntTail
    <3>3. Cnt(wire_down', k) <= Cnt(wire_down, k) + (IF x = k THEN 1 ELSE 0)
      <4>1. x \in Message /\ "error" \in Message /\ "error" # k
        BY DEF Message
      <4>2. CASE PrintLine(x)
        BY <4>1, <4>2, CntPrinted
      <4>3. CASE PrintLine("error")
        BY <1>c, <4>1, <4>3, CntPrinted
      <4> QED
        BY <1>c, <3>1, <4>2, <4>3
    <3>4. InTransit(k)' <= InTransit(k)
      <4>1. Cnt(commands, k) + Cnt(wire_up', k) + Cnt(wire_down', k) + Cnt(response, k)
            <= Cnt(commands, k) + Cnt(wire_up, k) + Cnt(wire_down, k) + Cnt(response, k)
        BY <1>c, <1>d, <3>2, <3>3, Moved
      <4> QED
        BY <2>0, <4>1 DEF InTransit
    <3> QED
      BY <1>t, <2>0, <3>4
  <2> QED
    BY <1>5, <2>1, <2>2, <2>3 DEF Remote
<1>6. CASE Cut
  <2>1. UNCHANGED <<commands, response>> /\ wire_up' = <<>>
        /\ (wire_down' = wire_down \/ wire_down' = <<>>) /\ ~RecvAnswer(k)
    BY <1>6 DEF Cut, channels, RecvAnswer, OnlyDispatcher, wires
  <2>2. Cnt(wire_up', k) = 0 /\ Cnt(wire_down', k) <= Cnt(wire_down, k)
    BY <1>c, <2>1, CntEmpty
  <2> QED
    BY <1>c, <1>t, <2>1, <2>2 DEF InTransit
<1>7. ASSUME UNCHANGED <<commands, wire_up, wire_down, response>>
      PROVE  InTransit(k)' <= InTransit(k) /\ ~RecvAnswer(k)
  <2>1. RecvAnswer(k) => response # <<>> /\ response' = Tail(response)
    BY DEF RecvAnswer, Receive
  <2>2. ~RecvAnswer(k)
    BY <1>7, <1>c, <2>1
  <2> QED
    BY <1>7, <1>t, <2>2 DEF InTransit
<1>8. CASE Main
  <2>1. send_request \/ UNCHANGED <<commands, wire_up, wire_down, response>>
    BY <1>8 DEF Main, init_r2, NewClient, spawn_dispatcher, Arm, Ready, SessionOpened,
                SetupDone, StartDone, LoopEvent, AllBranchesDisabled, finalize, CommJoined,
                Close, ListObjects, DeleteListed, RemoveBucket, channels, wires
  <2> QED
    BY <1>1, <1>7, <1>t, <2>1
<1>9. CASE JoinFails \/ Fails \/ Interrupt \/ CleanUpFails
  BY <1>7, <1>9, <1>t DEF JoinFails, Fails, Interrupt, CleanUpFails, channels, wires
<1>10. CASE Comm
  <2>1. \/ CommRequest \/ CommDeliver
        \/ UNCHANGED <<commands, wire_up, wire_down, response>>
    BY <1>10 DEF Comm, CommandsClosed, CommRead, ChannelClosed, wires
  <2> QED
    BY <1>2, <1>3, <1>7, <1>t, <2>1
<1>11. CASE UNCHANGED vars
  BY <1>7, <1>11, <1>t DEF vars, channels, wires
<1> QED
  BY <1>4, <1>5, <1>6, <1>8, <1>9, <1>10, <1>11 DEF Next

(* main comes to a kind only after the one before it, and sends a request  *)
(* only with its waiter in place.                                          *)
LEMMA OrderOfRequests ==
  ASSUME ShapeOK, [Next]_vars, NEW k \in {"setup", "start"},
         pc = "joining" => kind = "ready", pc = "opened" => kind = "setup",
         pc = "send" => kind # "ready"
  PROVE  /\ Unsent(k)' => Unsent(k) /\ ~(send_request /\ k = kind)
         /\ pc' = "joining" => kind' = "ready"
         /\ pc' = "opened" => kind' = "setup"
         /\ pc' = "send" => /\ kind' = kind /\ kind # "ready"
                            /\ pc = "send" \/ waiter'[kind] = "armed"
<1> USE DEF Unsent
<1>0. waiter \in [Kind -> {"none", "armed", "answered"}] /\ kind \in Kind
  BY DEF ShapeOK, TypeOK
<1>1. CASE init_r2 \/ NewClient \/ spawn_dispatcher
  BY <1>1 DEF init_r2, NewClient, spawn_dispatcher, After, stage, send_request
<1>2. CASE Arm
  BY <1>0, <1>2 DEF Arm, After, stage, send_request, Kind
<1>3. CASE send_request
  BY <1>3 DEF send_request, After, stage
<1>4. CASE Ready
  BY <1>4 DEF Ready, After, send_request
<1>5. CASE SessionOpened \/ SetupDone \/ StartDone
  <2>1. CASE SessionOpened
    BY <2>1 DEF SessionOpened, stage, send_request
  <2>2. CASE SetupDone
    <3>1. kind' = "start" /\ pc' = "arm" /\ kind = "setup" /\ pc = "opened"
      BY <2>2 DEF SetupDone, After
    <3> QED
      BY <3>1 DEF send_request
  <2>3. CASE StartDone
    BY <2>3 DEF StartDone, stage, send_request
  <2> QED
    BY <1>5, <2>1, <2>2, <2>3
<1>6. CASE LoopEvent \/ AllBranchesDisabled \/ finalize \/ CommJoined \/ Close
           \/ ListObjects \/ DeleteListed \/ RemoveBucket
  BY <1>6 DEF LoopEvent, AllBranchesDisabled, finalize, CommJoined, Close, ListObjects,
              DeleteListed, RemoveBucket, stage, send_request
<1>7. CASE JoinFails \/ Fails \/ Interrupt \/ CleanUpFails
  BY <1>7 DEF JoinFails, Leave, Fails, Interrupt, CleanUpFails, stage, send_request, Business,
              CleanUp
<1>8. CASE Comm \/ Remote \/ Cut \/ UNCHANGED vars
  <2>1. UNCHANGED <<pc, kind, waiter>>
    BY <1>8 DEF Comm, CommRequest, CommandsClosed, CommRead, CommDeliver, ChannelClosed,
                OnlyComm, Remote, RemoteReady, RemoteInitFails, Beat, HandleSetup,
                HandleStart, PutObject, UploadFails, Announce, EndOfInput, OnlyRemote, Cut,
                vars, stage
  <2>2. ~send_request
    BY <2>1 DEF send_request, After
  <2> QED
    BY <2>1, <2>2
<1>9. CASE Dispatcher
  <2>1. UNCHANGED <<pc, kind>>
    BY <1>9 DEF Dispatcher, RecvHeartbeat, RecvAnswer, RecvEvent, SendEvent, RecvError,
                DispatcherEnds, OnlyDispatcher, stage
  <2>2. ~send_request
    BY <2>1 DEF send_request, After
  <2> QED
    BY <2>1, <2>2
<1> QED
  BY <1>1, <1>2, <1>3, <1>4, <1>5, <1>6, <1>7, <1>8, <1>9 DEF Next, Main

(* The waiter of a kind changes only when main arms it or its answer is    *)
(* dispatched.                                                             *)
LEMMA WaiterStep ==
  ASSUME ShapeOK, [Next]_vars, NEW k \in {"setup", "start"}
  PROVE  waiter'[k] = waiter[k] \/ RecvAnswer(k) \/ waiter'[k] = "armed"
<1>0. waiter \in [Kind -> {"none", "armed", "answered"}] /\ k \in Kind
  BY DEF ShapeOK, TypeOK, Kind
<1>1. CASE Dispatcher
  <2>1. CASE RecvHeartbeat
    BY <1>0, <2>1 DEF RecvHeartbeat
  <2>2. CASE \E k2 \in Kind : RecvAnswer(k2)
    <3>1. PICK k2 \in Kind : RecvAnswer(k2)
      BY <2>2
    <3>2. k2 # k => waiter'[k] = waiter[k]
      BY <1>0, <3>1 DEF RecvAnswer
    <3> QED
      BY <3>1, <3>2
  <2> QED
    BY <1>1, <2>1, <2>2 DEF Dispatcher, RecvEvent, SendEvent, RecvError, DispatcherEnds
<1>2. CASE Arm
  BY <1>0, <1>2 DEF Arm, ShapeOK, TypeOK
<1>3. Dispatcher \/ Arm \/ UNCHANGED waiter
  BY DEF Next, Main, init_r2, NewClient, spawn_dispatcher, send_request, Ready,
         SessionOpened, SetupDone, StartDone, LoopEvent, AllBranchesDisabled, finalize,
         CommJoined, Close, ListObjects, DeleteListed, RemoveBucket, JoinFails, Fails,
         Interrupt, CleanUpFails, Comm, CommRequest, CommandsClosed, CommRead, CommDeliver,
         ChannelClosed, OnlyComm, Remote, RemoteReady, RemoteInitFails, Beat, HandleSetup,
         HandleStart, PutObject, UploadFails, Announce, EndOfInput, OnlyRemote, Cut, vars
<1> QED
  BY <1>1, <1>2, <1>3

(* As long as a request of a kind or its answer is on its way, its waiter  *)
(* stays armed.                                                            *)
LEMMA AwaitedStep == ShapeOK /\ Awaited /\ [Next]_vars => Awaited'
<1> SUFFICES ASSUME ShapeOK, Awaited, [Next]_vars PROVE Awaited'
  OBVIOUS
<1>0. /\ pc = "send" => waiter[kind] = "armed" /\ kind # "ready"
      /\ pc = "joining" => kind = "ready"
      /\ pc = "opened" => kind = "setup"
      /\ kind \in Kind
  BY DEF Awaited, ShapeOK, TypeOK
<1>1. ASSUME NEW k \in {"setup", "start"}
      PROVE  /\ InTransit(k)' \in {0, 1}
             /\ InTransit(k)' = 1 => waiter'[k] = "armed"
             /\ Unsent(k)' => InTransit(k)' = 0
             /\ Unsent(k) => ~RecvAnswer(k)
  <2>1. /\ InTransit(k)' <= InTransit(k)
           \/ (send_request /\ k = kind /\ InTransit(k)' = InTransit(k) + 1)
        /\ RecvAnswer(k) => InTransit(k)' = InTransit(k) - 1
        /\ InTransit(k) \in Nat /\ InTransit(k)' \in Nat
    BY TransitStep
  <2>2. /\ InTransit(k) \in {0, 1} /\ (InTransit(k) = 1 => waiter[k] = "armed")
        /\ Unsent(k) => InTransit(k) = 0
    BY DEF Awaited
  <2>3. Unsent(k)' => Unsent(k) /\ ~(send_request /\ k = kind)
    BY <1>0, OrderOfRequests
  <2>4. waiter'[k] = waiter[k] \/ RecvAnswer(k) \/ waiter'[k] = "armed"
    BY WaiterStep
  <2>5. send_request /\ k = kind =>
          InTransit(k) = 0 /\ waiter[k] = "armed" /\ waiter'[k] = waiter[k]
    BY <1>0, <2>2 DEF send_request, Unsent
  <2> QED
    BY <2>1, <2>2, <2>3, <2>4, <2>5
<1>2. /\ pc' = "joining" => kind' = "ready"
      /\ pc' = "opened" => kind' = "setup"
      /\ pc' = "send" => kind' = kind /\ kind # "ready" /\ (pc = "send" \/ waiter'[kind] = "armed")
  BY <1>0, OrderOfRequests
<1>3. pc' = "send" /\ pc = "send" => waiter'[kind] = "armed"
  <2> SUFFICES ASSUME pc' = "send", pc = "send" PROVE waiter'[kind] = "armed"
    OBVIOUS
  <2>1. kind \in {"setup", "start"} /\ Unsent(kind)
    BY <1>0 DEF Kind, Unsent
  <2> QED
    BY <1>0, <1>1, <2>1, WaiterStep
<1> QED
  BY <1>1, <1>2, <1>3 DEF Awaited

(* An answer of gmf-remote is never dropped with a warning: as long as it  *)
(* or its request is on its way, the oneshot of that kind is in place.     *)
THEOREM AnswersFindTheirWaiter == Spec => []AnswersAreAwaited
<1>1. Init => Awaited
  <2> SUFFICES ASSUME Init PROVE Awaited
    OBVIOUS
  <2>1. pc = "joining" /\ kind = "ready"
    BY DEF Init
  <2>2. commands = <<>> /\ wire_up = <<>> /\ wire_down = <<>> /\ response = <<>>
    BY DEF Init
  <2>3. \A k : InTransit(k) = 0
    BY <2>2, CntEmpty DEF InTransit
  <2> QED
    BY <2>1, <2>3 DEF Awaited
<1>2. ShapeOK /\ Awaited => AnswersAreAwaited
  <2> SUFFICES ASSUME ShapeOK, Awaited, response # <<>>, NEW k \in {"setup", "start"},
                      Head(response) = k
               PROVE  waiter[k] = "armed"
    BY DEF AnswersAreAwaited
  <2>1. /\ response \in Seq(Message) /\ Tail(response) \in Seq(Message)
        /\ Cnt(commands, k) \in Nat /\ Cnt(wire_up, k) \in Nat
        /\ Cnt(wire_down, k) \in Nat /\ Cnt(response, k) \in Nat
    BY Counted DEF ShapeOK, TypeOK
  <2>2. Cnt(Tail(response), k) \in Nat
    BY <2>1, CntType
  <2>3. Cnt(response, k) = Cnt(Tail(response), k) + 1
    BY <2>1, CntTail
  <2>4. InTransit(k) # 0
    BY <2>1, <2>2, <2>3 DEF InTransit
  <2> QED
    BY <2>4 DEF Awaited
<1> QED
  BY <1>1, <1>2, ShapeInit, ShapeStep, AwaitedStep, PTL DEF Spec

-----------------------------------------------------------------------------
(* Only an announcement adds to what the client is told: a chunk goes from *)
(* one channel to the next, is completed, or is lost.                      *)
LEMMA ToldStep ==
  ASSUME ShapeOK, [Next]_vars
  PROVE  /\ \/ Told' <= Told
            \/ Announce /\ announced < put /\ Told' <= Told + 1
         /\ Told \in Nat /\ Told' \in Nat
<1>0. ShapeOK'
  BY ShapeStep
<1>c. /\ got \in Nat /\ Cnt(events, "chunk") \in Nat
      /\ Cnt(response, "chunk") \in Nat /\ Cnt(wire_down, "chunk") \in Nat
      /\ events \in Seq(Message) /\ wire_down \in Seq(Message) /\ response \in Seq(Message)
  BY Counted, TotalChunksAssumption DEF ShapeOK, TypeOK
<1>d. /\ got' \in Nat /\ Cnt(events', "chunk") \in Nat
      /\ Cnt(response', "chunk") \in Nat /\ Cnt(wire_down', "chunk") \in Nat
  <2>1. got' \in Nat
    BY <1>0, TotalChunksAssumption DEF ShapeOK, TypeOK
  <2>2. events' \in Seq(Message) /\ response' \in Seq(Message) /\ wire_down' \in Seq(Message)
    BY <1>0 DEF ShapeOK, TypeOK
  <2> QED
    BY <2>1, <2>2, CntType
<1>s. \A g, e, r, w \in Nat : g + e + r + w \in Nat
  OBVIOUS
<1>t. Told \in Nat /\ Told' \in Nat
  BY <1>c, <1>d, <1>s DEF Told
<1>1. ASSUME UNCHANGED <<got, events, response, wire_down>>
      PROVE  Told' <= Told
  BY <1>1, <1>t DEF Told
<1>2. CASE LoopEvent
  <2>1. /\ events # <<>> /\ events' = Tail(events) /\ UNCHANGED <<response, wire_down>>
        /\ Head(events) = "chunk" /\ got' = got + 1
    BY <1>2, <1>c DEF LoopEvent, Hears, wires
  <2>2. Cnt(events, "chunk") = Cnt(events', "chunk") + 1
    BY <1>c, <2>1, CntTail
  <2>3. got' + Cnt(events', "chunk") = got + Cnt(events, "chunk")
    BY <1>c, <1>d, <2>1, <2>2
  <2>4. \A g, e, g2, e2, a, w \in Nat : g2 + e2 = g + e => g2 + e2 + a + w <= g + e + a + w
    OBVIOUS
  <2> QED
    BY <1>c, <1>d, <1>t, <2>1, <2>3, <2>4 DEF Told
<1>3. CASE CommDeliver
  <2>1. /\ wire_down # <<>> /\ wire_down' = Tail(wire_down) /\ UNCHANGED <<got, events>>
        /\ response' = response \/ response' = Append(response, Head(wire_down))
    BY <1>3 DEF CommDeliver, OnlyComm, ShapeOK, TypeOK, download
  <2>2. Cnt(wire_down, "chunk") = Cnt(wire_down', "chunk") + (IF Head(wire_down) = "chunk" THEN 1 ELSE 0)
    BY <1>c, <2>1, CntTail
  <2>3. Cnt(response', "chunk") <= Cnt(response, "chunk") + (IF Head(wire_down) = "chunk" THEN 1 ELSE 0)
    <3>1. CASE response' = response
      BY <1>c, <3>1
    <3>2. CASE response' = Append(response, Head(wire_down))
      <4>1. Head(wire_down) \in Message
        BY <1>c, <2>1
      <4>2. Cnt(response', "chunk") = Cnt(response, "chunk") + (IF Head(wire_down) = "chunk" THEN 1 ELSE 0)
        BY <1>c, <3>2, <4>1, CntAppend
      <4> QED
        BY <1>c, <4>2
    <3> QED
      BY <2>1, <3>1, <3>2
  <2>4. Cnt(response', "chunk") + Cnt(wire_down', "chunk")
        <= Cnt(response, "chunk") + Cnt(wire_down, "chunk")
    BY <1>c, <1>d, <2>2, <2>3
  <2>5. \A g, e, a, b, a2, b2 \in Nat : a2 + b2 <= a + b => g + e + a2 + b2 <= g + e + a + b
    OBVIOUS
  <2> QED
    BY <1>c, <1>d, <1>t, <2>1, <2>4, <2>5 DEF Told
<1>4. CASE Dispatcher
  <2>1. /\ UNCHANGED <<got, wire_down>>
        /\ \/ UNCHANGED <<response, events>>
           \/ /\ response # <<>> /\ response' = Tail(response)
              /\ events' = events \/ events' = Append(events, Head(response))
    BY <1>4 DEF Dispatcher, RecvHeartbeat, RecvAnswer, RecvEvent, SendEvent, RecvError,
                DispatcherEnds, Receive, OnlyDispatcher, wires, download, ShapeOK, TypeOK
  <2>2. CASE UNCHANGED <<response, events>>
    BY <1>1, <1>t, <2>1, <2>2
  <2>3. CASE response # <<>> /\ response' = Tail(response)
             /\ (events' = events \/ events' = Append(events, Head(response)))
    <3>1. Cnt(response, "chunk") = Cnt(response', "chunk") + (IF Head(response) = "chunk" THEN 1 ELSE 0)
      BY <1>c, <2>3, CntTail
    <3>2. Cnt(events', "chunk") <= Cnt(events, "chunk") + (IF Head(response) = "chunk" THEN 1 ELSE 0)
      <4>1. CASE events' = events
        BY <1>c, <4>1
      <4>2. CASE events' = Append(events, Head(response))
        <5>1. Head(response) \in Message
          BY <1>c, <2>3
        <5>2. Cnt(events', "chunk") = Cnt(events, "chunk") + (IF Head(response) = "chunk" THEN 1 ELSE 0)
          BY <1>c, <4>2, <5>1, CntAppend
        <5> QED
          BY <1>c, <5>2
      <4> QED
        BY <2>3, <4>1, <4>2
    <3>3. Cnt(events', "chunk") + Cnt(response', "chunk")
          <= Cnt(events, "chunk") + Cnt(response, "chunk")
      BY <1>c, <1>d, <3>1, <3>2
    <3>4. \A g, a, b, a2, b2, w \in Nat : a2 + b2 <= a + b => g + a2 + b2 + w <= g + a + b + w
      OBVIOUS
    <3> QED
      BY <1>c, <1>d, <1>t, <2>1, <3>3, <3>4 DEF Told
  <2> QED
    BY <1>t, <2>1, <2>2, <2>3
<1>5. CASE Remote
  <2>0. UNCHANGED <<got, events, response>>
    BY <1>5 DEF Remote, RemoteReady, RemoteInitFails, Beat, HandleSetup, HandleStart,
                PutObject, UploadFails, Announce, EndOfInput, OnlyRemote, channels, download
  <2>1. \/ wire_down' = wire_down
        \/ \E x \in Message \ {"chunk"} : PrintLine(x)
        \/ Announce /\ announced < put /\ PrintLine("chunk")
    <3> USE DEF Message
    <3>1. CASE RemoteReady \/ PutObject \/ UploadFails \/ EndOfInput
      BY <3>1 DEF RemoteReady, PutObject, UploadFails, EndOfInput
    <3>2. CASE RemoteInitFails \/ Beat
      BY <3>2 DEF RemoteInitFails, Beat
    <3>3. CASE HandleSetup \/ HandleStart
      BY <3>3 DEF HandleSetup, HandleStart
    <3>4. CASE Announce
      BY <3>4 DEF Announce
    <3> QED
      BY <1>5, <3>1, <3>2, <3>3, <3>4 DEF Remote
  <2>2. CASE wire_down' = wire_down
    BY <1>1, <1>t, <2>0, <2>2
  <2>3. CASE \E x \in Message \ {"chunk"} : PrintLine(x)
    <3>1. Cnt(wire_down', "chunk") <= Cnt(wire_down, "chunk")
      BY <1>c, <2>3, CntPrinted
    <3> QED
      BY <1>c, <1>d, <1>t, <2>0, <3>1 DEF Told
  <2>4. CASE Announce /\ announced < put /\ PrintLine("chunk")
    <3>1. Cnt(wire_down', "chunk") <= Cnt(wire_down, "chunk") + 1
      BY <1>c, <2>4, CntPrinted DEF Message
    <3>2. Told' <= Told + 1
      BY <1>c, <1>d, <1>t, <2>0, <3>1 DEF Told
    <3> QED
      BY <1>t, <2>4, <3>2
  <2> QED
    BY <2>1, <2>2, <2>3, <2>4
<1>6. CASE Cut
  <2>1. UNCHANGED <<got, events, response>> /\ (wire_down' = wire_down \/ wire_down' = <<>>)
    BY <1>6 DEF Cut, channels, download
  <2>2. Cnt(wire_down', "chunk") <= Cnt(wire_down, "chunk")
    BY <1>c, <2>1, CntEmpty
  <2> QED
    BY <1>c, <1>d, <1>t, <2>1, <2>2 DEF Told
<1>7. CASE Main
  <2>1. LoopEvent \/ UNCHANGED <<got, events, response, wire_down>>
    BY <1>7 DEF Main, init_r2, NewClient, spawn_dispatcher, Arm, send_request, Ready,
                SessionOpened, SetupDone, StartDone, AllBranchesDisabled, finalize,
                CommJoined, Close, ListObjects, DeleteListed, RemoveBucket, channels, wires,
                download
  <2> QED
    BY <1>1, <1>2, <1>t, <2>1
<1>8. CASE JoinFails \/ Fails \/ Interrupt \/ CleanUpFails
  BY <1>1, <1>8, <1>t DEF JoinFails, Fails, Interrupt, CleanUpFails, channels, wires, download
<1>9. CASE Comm
  <2>1. CommDeliver \/ UNCHANGED <<got, events, response, wire_down>>
    BY <1>9 DEF Comm, CommRequest, CommandsClosed, CommRead, ChannelClosed, OnlyComm, wires,
                download
  <2> QED
    BY <1>1, <1>3, <1>t, <2>1
<1>10. CASE UNCHANGED vars
  BY <1>1, <1>10, <1>t DEF vars, channels, wires, download
<1> QED
  BY <1>4, <1>5, <1>6, <1>7, <1>8, <1>9, <1>10 DEF Next

(* A chunk is announced after its PUT, and the uploads are over when all   *)
(* of them are announced.                                                  *)
LEMMA StoredStep == ShapeOK /\ Stored /\ [Next]_vars => Stored'
<1> SUFFICES ASSUME ShapeOK, Stored, [Next]_vars PROVE Stored'
  OBVIOUS
<1>0. /\ put \in Nat /\ lost \in Nat /\ put + lost <= TotalChunks /\ announced \in Nat
      /\ put' \in Nat /\ lost' \in Nat /\ announced' \in Nat
  BY ShapeStep DEF ShapeOK
<1>1. /\ \/ Told' <= Told
         \/ Announce /\ announced < put /\ Told' <= Told + 1
      /\ Told \in Nat /\ Told' \in Nat
  BY ToldStep
<1>2. CASE Announce
  <2>1. announced' = announced + 1 /\ put' = put /\ lost' = lost
        /\ (announced < put \/ (announced = put /\ put + lost = TotalChunks))
    BY <1>2 DEF Announce
  <2> QED
    BY <1>0, <1>1, <2>1, TotalChunksAssumption DEF Stored
<1>3. CASE PutObject \/ UploadFails
  <2>1. /\ put + lost < TotalChunks /\ announced' = announced /\ ~Announce
        /\ put <= put'
    BY <1>0, <1>3 DEF PutObject, UploadFails, Announce
  <2>2. Told <= announced /\ Told <= put /\ announced <= put
    BY <1>0, <2>1, TotalChunksAssumption DEF Stored
  <2>3. Told' <= announced' /\ Told' <= put' /\ announced' <= put'
    BY <1>0, <1>1, <2>1, <2>2
  <2> QED
    BY <2>3 DEF Stored
<1>4. CASE UNCHANGED <<put, lost, announced>>
  <2>1. ~Announce
    BY <1>0, <1>4 DEF Announce
  <2> QED
    BY <1>0, <1>1, <1>4, <2>1, TotalChunksAssumption DEF Stored
<1>5. Announce \/ PutObject \/ UploadFails \/ UNCHANGED <<put, lost, announced>>
  <2>1. Main => UNCHANGED <<put, lost, announced>>
    BY DEF Main, init_r2, NewClient, spawn_dispatcher, Arm, send_request, Ready,
           SessionOpened, SetupDone, StartDone, LoopEvent, AllBranchesDisabled, finalize,
           CommJoined, Close, ListObjects, DeleteListed, RemoveBucket, uploads
  <2> QED
    BY <2>1 DEF Next, NewClient, JoinFails, Fails, Interrupt, CleanUpFails, Comm, CommRequest,
           CommandsClosed, CommRead, CommDeliver, ChannelClosed, OnlyComm, Dispatcher,
           RecvHeartbeat, RecvAnswer, RecvEvent, SendEvent, RecvError, DispatcherEnds,
           OnlyDispatcher, Remote, RemoteReady, RemoteInitFails, Beat, HandleSetup,
           HandleStart, EndOfInput, Cut, vars, uploads
<1> QED
  BY <1>2, <1>3, <1>4, <1>5

(* Once finalize has succeeded there is nothing left to upload, so that    *)
(* the listing is complete and the empty bucket can be removed.            *)
LEMMA UploadsAreOver ==
  ASSUME ShapeOK, Stored, got = TotalChunks
  PROVE  put + lost = TotalChunks
<1>1. got <= Told /\ Told \in Nat
  <2>1. /\ Cnt(events, "chunk") \in Nat /\ Cnt(response, "chunk") \in Nat
        /\ Cnt(wire_down, "chunk") \in Nat /\ got \in Nat
    BY Counted, TotalChunksAssumption DEF ShapeOK, TypeOK
  <2>2. \A g, a, b, c \in Nat : g <= g + a + b + c /\ g + a + b + c \in Nat
    OBVIOUS
  <2> QED
    BY <2>1, <2>2 DEF Told
<1> QED
  BY <1>1, TotalChunksAssumption DEF Stored, ShapeOK

(* After finalize nothing is put into the bucket, and the clean-up removes *)
(* what it lists.                                                          *)
LEMMA CleanedStep == ShapeOK /\ Stored /\ Cleaned /\ [Next]_vars => Cleaned'
<1> SUFFICES ASSUME ShapeOK, Stored, Cleaned, [Next]_vars PROVE Cleaned'
  OBVIOUS
<1> USE DEF Cleaned, Business, CleanUp
<1>1. CASE init_r2 \/ NewClient \/ spawn_dispatcher
  BY <1>1 DEF init_r2, NewClient, spawn_dispatcher, After, download, cleaning, bucket
<1>2. CASE Arm \/ send_request \/ Ready \/ SessionOpened \/ SetupDone \/ StartDone
  BY <1>2 DEF Arm, send_request, Ready, SessionOpened, SetupDone, StartDone, After,
              download, cleaning, bucket
<1>3. CASE LoopEvent \/ AllBranchesDisabled \/ finalize
  BY <1>3 DEF LoopEvent, AllBranchesDisabled, finalize, download, cleaning, bucket
<1>4. CASE CommJoined \/ Close \/ ListObjects
  BY <1>4 DEF CommJoined, Close, ListObjects, download, cleaning, bucket
<1>5. CASE DeleteListed
  BY <1>5 DEF DeleteListed, download
<1>6. CASE RemoveBucket
  BY <1>6 DEF RemoveBucket, download, cleaning
<1>7. CASE CleanUpFails
  BY <1>7 DEF CleanUpFails, download, bucket
<1>8. CASE JoinFails \/ Fails \/ Interrupt
  BY <1>8 DEF JoinFails, Leave, Fails, Interrupt, download, cleaning, bucket
<1>9. CASE Comm \/ Dispatcher
  <2>1. UNCHANGED <<pc, result, download, cleaning, bucket>>
    BY <1>9 DEF Comm, CommRequest, CommandsClosed, CommRead, CommDeliver, ChannelClosed,
                OnlyComm, Dispatcher, RecvHeartbeat, RecvAnswer, RecvEvent, SendEvent,
                RecvError, DispatcherEnds, OnlyDispatcher
  <2> QED
    BY <2>1 DEF download, cleaning, bucket
<1>10. CASE PutObject \/ UploadFails
  <2>1. UNCHANGED <<pc, result, download, cleaning, made>> /\ put + lost < TotalChunks
    BY <1>10 DEF PutObject, UploadFails, OnlyRemote
  <2>2. result # "success"
    BY <2>1, UploadsAreOver, TotalChunksAssumption DEF ShapeOK
  <2> QED
    BY <2>1, <2>2 DEF download, cleaning
<1>11. CASE Remote /\ ~PutObject /\ ~UploadFails
  <2>1. UNCHANGED <<pc, result, download, cleaning, bucket>>
    BY <1>11 DEF Remote, RemoteReady, RemoteInitFails, Beat, HandleSetup, HandleStart,
                 Announce, EndOfInput, OnlyRemote
  <2> QED
    BY <2>1 DEF download, cleaning, bucket
<1>12. CASE Cut \/ UNCHANGED vars
  BY <1>12 DEF Cut, vars, download, cleaning, bucket
<1> QED
  BY <1>1, <1>2, <1>3, <1>4, <1>5, <1>6, <1>7, <1>8, <1>9, <1>10, <1>11, <1>12 DEF Next, Main

(* A download that has succeeded leaves no bucket behind, whatever earlier *)
(* runs left in it and whenever the connection was lost, unless R2 fails.  *)
THEOREM SuccessLeavesNoBucket == Spec => []NoBucketAfterSuccess
<1>1. Init => Stored /\ Cleaned
  <2> SUFFICES ASSUME Init PROVE Stored /\ Cleaned
    OBVIOUS
  <2>1. events = <<>> /\ response = <<>> /\ wire_down = <<>>
    BY DEF Init
  <2>2. got \in 0 .. TotalChunks /\ put = got /\ lost = 0 /\ announced = got
    BY DEF Init
  <2>3. Cnt(events, "chunk") = 0 /\ Cnt(response, "chunk") = 0 /\ Cnt(wire_down, "chunk") = 0
    BY <2>1, CntEmpty
  <2>4. Told = got
    BY <2>2, <2>3, TotalChunksAssumption DEF Told
  <2>5. Stored
    BY <2>2, <2>4, TotalChunksAssumption DEF Stored
  <2>6. result = "none"
    BY DEF Init
  <2> QED
    BY <2>5, <2>6 DEF Cleaned
<1>2. Cleaned => NoBucketAfterSuccess
  BY DEF Cleaned, NoBucketAfterSuccess
<1> QED
  BY <1>1, <1>2, ShapeInit, ShapeStep, StoredStep, CleanedStep, PTL DEF Spec
=============================================================================

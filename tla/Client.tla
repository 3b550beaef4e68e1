-------------------------------- MODULE Client --------------------------------
(***************************************************************************)
(* A run of "gmf get" from main to its exit (gmf/src/main.rs real_main):   *)
(* the bucket and the connection are set up side by side, three answers    *)
(* are awaited one after the other, the download loop runs, and everything *)
(* is taken down again, at any point if the user presses Ctrl+C.           *)
(*                                                                         *)
(* Three tasks of the client take part: main, SSHCommunicator              *)
(* (gmf/src/comm.rs) and the dispatcher (gmf/src/client.rs).  A message    *)
(* that a task has received and cannot pass on still counts in the channel *)
(* it came from.  gmf-remote is reduced to what it prints; its chunks come *)
(* in order and a chunk's task is one step.                                *)
(***************************************************************************)
EXTENDS Naturals, Sequences

CONSTANTS
  Capacity,    \* of the client's channels, 100 in the code
  TotalChunks  \* a file without chunks is the subject of Requests

ASSUME CapacityAssumption == Capacity \in Nat \ {0}
ASSUME TotalChunksAssumption == TotalChunks \in Nat \ {0}

VARIABLES
  (* main *)
  pc,       \* where real_main stands
  joined,   \* the halves of its try_join! that are done
  kind,     \* the answer it is after: "ready", "setup", "start"
  result,
  bar,      \* has it a progress bar
  got,      \* how many chunks are completed, some by earlier runs
  listed,   \* the objects delete_bucket is about to delete
  r2_failed,
  (* the other tasks and the channels between them *)
  waiter,   \* the oneshot of each kind: "none", "armed", "answered"
  commands, comm, response, dispatcher, events,
  (* the outside *)
  link,     \* the SSH connection: "off", "up", "cut" without notice, "closed"
  wire_up, wire_down,
  remote,   \* gmf-remote: "off", "init", "serving", "uploading", "ended"
  put, lost, announced, \* its uploads that succeeded and failed, its lines
  made, objects    \* the bucket "gmf" and what is in it; 0 is an older object

stage == <<joined, kind>>
download == <<bar, got>>
cleaning == <<listed, r2_failed>>
channels == <<commands, comm, response, dispatcher, events>>
wires == <<link, wire_up, wire_down>>
uploads == <<remote, put, lost, announced>>
bucket == <<made, objects>>
vars == <<pc, result, stage, download, cleaning, waiter, channels, wires, uploads,
          bucket>>

Kind == {"ready", "setup", "start"}
Message == {"heartbeat", "setup", "start", "chunk", "completed", "error"}
Business == {"arm", "send", "wait", "opened", "loop"}  \* in real_main's select!
CleanUp == {"list", "delete", "remove"}
Over == {"exit", "panicked"}

Init ==
  /\ pc = "joining" /\ result = "none" /\ joined = {} /\ kind = "ready"
  /\ bar = FALSE
  /\ got \in 0 .. TotalChunks /\ put = got /\ lost = 0 /\ announced = got
  /\ listed = {} /\ r2_failed = FALSE
  /\ waiter = [k \in Kind |-> "none"]
  /\ commands = <<>> /\ comm = "none" /\ response = <<>>
  /\ dispatcher = "none" /\ events = <<>>
  /\ link = "off" /\ wire_up = <<>> /\ wire_down = <<>>
  /\ remote = "off"
  /\ \/ made = FALSE /\ objects = {}
     \/ made = TRUE /\ objects \in {{}, {0}}

-----------------------------------------------------------------------------
(* main: try_join!(init_r2(), GMFClient::new(args)).  The first error of   *)
(* the two ends the program, with the other one half done.                 *)
init_r2 ==
  /\ pc = "joining" /\ "r2" \notin joined
  /\ joined' = joined \cup {"r2"}
  /\ made' = TRUE
  /\ UNCHANGED <<pc, result, kind, download, cleaning, waiter, channels, wires, uploads,
                 objects>>

NewClient ==
  /\ pc = "joining" /\ "client" \notin joined
  /\ joined' = joined \cup {"client"}
  /\ link' = "up" /\ remote' = "init" /\ comm' = "select"
  /\ UNCHANGED <<pc, result, kind, download, cleaning, waiter, commands, response,
                 dispatcher, events, wire_up, wire_down, put, lost, announced, bucket>>

Leave(how) == pc' = "exit" /\ result' = how /\ link' = "closed"

JoinFails ==
  /\ pc = "joining" /\ joined # {"r2", "client"}
  /\ made' \in {made, TRUE}
  /\ Leave("error")
  /\ UNCHANGED <<stage, download, cleaning, waiter, channels, wire_up, wire_down,
                 uploads, objects>>

(* wait_ready, setup and start put a sender where the dispatcher finds it, *)
(* send the request if there is one, and wait for the receiver.            *)

(* Faulty variant: the request is sent first.                              *)
SendFirst(k, step) ==
  CASE step = "enter" -> IF k = "ready" THEN "arm" ELSE "send"
    [] step = "send" -> "arm"
    [] step = "arm" -> "wait"

After(k, step) ==
  CASE step = "enter" -> "arm"
    [] step = "arm" -> IF k = "ready" THEN "wait" ELSE "send"
    [] step = "send" -> "wait"

spawn_dispatcher ==
  /\ pc = "joining" /\ joined = {"r2", "client"}
  /\ dispatcher' = "select"
  /\ pc' = After("ready", "enter")
  /\ UNCHANGED <<result, stage, download, cleaning, waiter, commands, comm, response,
                 events, wires, uploads, bucket>>

Arm ==
  /\ pc = "arm"
  /\ waiter' = [waiter EXCEPT ![kind] = "armed"]
  /\ pc' = After(kind, "arm")
  /\ UNCHANGED <<result, stage, download, cleaning, channels, wires, uploads, bucket>>

send_request ==
  /\ pc = "send"
  /\ comm # "ended" /\ Len(commands) < Capacity
  /\ commands' = Append(commands, kind)
  /\ pc' = After(kind, "send")
  /\ UNCHANGED <<result, stage, download, cleaning, waiter, comm, response, dispatcher,
                 events, wires, uploads, bucket>>

(* The event at the head of download_rx.                                   *)
Hears(m) == events # <<>> /\ Head(events) = m

(* Main leaves its select! with an error: the channel of commands has no   *)
(* receiver, no heartbeat in ten seconds, DownloadSession::new, a chunk or *)
(* finalize fails.  Faulty variant: no limit to the first of the waits.    *)
FailsWithoutTimeout ==
  /\ \/ pc = "send" /\ comm = "ended"
     \/ pc = "wait" /\ kind = "setup" /\ waiter[kind] = "answered"
     \/ pc = "loop" /\ (Hears("chunk") \/ got = TotalChunks)
  /\ pc' = "closing" /\ result' = "error"
  /\ UNCHANGED <<stage, download, cleaning, waiter, channels, wires, uploads, bucket>>

Fails ==
  /\ \/ pc = "send" /\ comm = "ended"
     \/ pc = "wait" /\ kind = "ready" /\ waiter[kind] = "armed"
     \/ pc = "wait" /\ kind = "setup" /\ waiter[kind] = "answered"
     \/ pc = "loop" /\ (Hears("chunk") \/ got = TotalChunks)
  /\ pc' = "closing" /\ result' = "error"
  /\ UNCHANGED <<stage, download, cleaning, waiter, channels, wires, uploads, bucket>>

Ready ==
  /\ pc = "wait" /\ kind = "ready" /\ waiter[kind] = "answered"
  /\ kind' = "setup" /\ pc' = After(kind', "enter")
  /\ UNCHANGED <<result, joined, download, cleaning, waiter, channels, wires, uploads,
                 bucket>>

(* DownloadSession::new, up to the await of its completed chunks; then the *)
(* progress bar.                                                           *)
SessionOpened ==
  /\ pc = "wait" /\ kind = "setup" /\ waiter[kind] = "answered"
  /\ pc' = "opened"
  /\ UNCHANGED <<result, stage, download, cleaning, waiter, channels, wires, uploads,
                 bucket>>

SetupDone ==
  /\ pc = "opened"
  /\ bar' = TRUE
  /\ kind' = "start" /\ pc' = After(kind', "enter")
  /\ UNCHANGED <<result, joined, got, cleaning, waiter, channels, wires, uploads, bucket>>

StartDone ==
  /\ pc = "wait" /\ kind = "start" /\ waiter[kind] = "answered"
  /\ pc' = "loop"
  /\ UNCHANGED <<result, stage, download, cleaning, waiter, channels, wires, uploads,
                 bucket>>

(* download_loop: a chunk is fetched, deleted from the bucket and marked.  *)
LoopEvent ==
  /\ pc = "loop" /\ got < TotalChunks /\ Hears("chunk")
  /\ events' = Tail(events)
  /\ got' = got + 1 /\ objects' = objects \ {got'}
  /\ UNCHANGED <<pc, result, stage, bar, cleaning, waiter, commands, comm, response,
                 dispatcher, wires, uploads, made>>

(* The upload is completed, a chunk is missing: select! has no branch.     *)
AllBranchesDisabled ==
  /\ pc = "loop" /\ got < TotalChunks /\ Hears("completed")
  /\ pc' = "panicked" /\ link' = "closed"
  /\ UNCHANGED <<result, stage, download, cleaning, waiter, channels, wire_up,
                 wire_down, uploads, bucket>>

finalize ==
  /\ pc = "loop" /\ got = TotalChunks
  /\ pc' = "closing" /\ result' = "success"
  /\ UNCHANGED <<stage, download, cleaning, waiter, channels, wires, uploads, bucket>>

(* ui::abandon_download expects the bar.                                   *)
Interrupt ==
  /\ pc \in Business
  /\ \/ ~bar /\ pc' = "panicked" /\ link' = "closed" /\ UNCHANGED result
     \/ bar /\ pc' = "closing" /\ result' = "interrupted" /\ UNCHANGED link
  /\ UNCHANGED <<stage, download, cleaning, waiter, channels, wire_up, wire_down,
                 uploads, bucket>>

(* shutdown: it has dropped command_tx and waits for comm, then closes the *)
(* SSH session; an error of that is only printed.                          *)
CommJoined ==
  /\ pc = "closing" /\ comm = "ended"
  /\ pc' = "disconnect"
  /\ UNCHANGED <<result, stage, download, cleaning, waiter, channels, wires, uploads,
                 bucket>>

(* Faulty variant: an error of the disconnect skips the clean-up.          *)
CloseOrReturn ==
  /\ pc = "disconnect"
  /\ pc' = IF link = "up" THEN "list" ELSE "exit"
  /\ link' = "closed"
  /\ UNCHANGED <<result, stage, download, cleaning, waiter, channels, wire_up, wire_down,
                 uploads, bucket>>

Close ==
  /\ pc = "disconnect"
  /\ pc' = "list" /\ link' = "closed"
  /\ UNCHANGED <<result, stage, download, cleaning, waiter, channels, wire_up, wire_down,
                 uploads, bucket>>

(* r2::delete_bucket: list the objects, delete them one by one, delete the *)
(* bucket, which R2 refuses while there is an object in it.                *)
ListObjects ==
  /\ pc = "list"
  /\ listed' = objects /\ pc' = "delete"
  /\ UNCHANGED <<result, stage, download, r2_failed, waiter, channels, wires, uploads,
                 bucket>>

DeleteListed ==
  /\ pc = "delete"
  /\ IF listed = {} THEN pc' = "remove" /\ UNCHANGED <<listed, objects>>
     ELSE \E o \in listed :
            listed' = listed \ {o} /\ objects' = objects \ {o} /\ UNCHANGED pc
  /\ UNCHANGED <<result, stage, download, r2_failed, waiter, channels, wires, uploads,
                 made>>

RemoveBucket ==
  /\ pc = "remove"
  /\ made' = (objects # {})
  /\ pc' = "exit"
  /\ UNCHANGED <<result, stage, download, cleaning, waiter, channels, wires, uploads,
                 objects>>

CleanUpFails ==
  /\ pc \in CleanUp
  /\ r2_failed' = TRUE /\ pc' = "exit"
  /\ UNCHANGED <<result, stage, download, listed, waiter, channels, wires, uploads,
                 bucket>>

-----------------------------------------------------------------------------
(* SSHCommunicator::run.                                                   *)
Alive == pc \notin Over
OnlyComm == UNCHANGED <<pc, result, stage, download, cleaning, waiter, dispatcher, events,
                        uploads, bucket>>

CommRequest ==
  /\ Alive /\ comm = "select" /\ commands # <<>>
  /\ commands' = Tail(commands)
  /\ \/ link = "up" /\ wire_up' = Append(wire_up, Head(commands)) /\ UNCHANGED comm
     \/ link # "up" /\ comm' \in {comm, "ended"} /\ UNCHANGED wire_up
  /\ OnlyComm /\ UNCHANGED <<response, link, wire_down>>

CommandsClosed ==
  /\ pc \notin Business \cup {"joining"} /\ Alive
  /\ comm = "select" /\ commands = <<>>
  /\ comm' = "ended"
  /\ OnlyComm /\ UNCHANGED <<commands, response, wires>>

(* Once it has read a line it is inside handle_response until the line is  *)
(* in the channel, and looks at nothing else.  Faulty variant: a channel   *)
(* without a bound.                                                        *)
CommRead ==
  /\ Alive /\ comm = "select" /\ wire_down # <<>>
  /\ comm' = "sending"
  /\ OnlyComm /\ UNCHANGED <<commands, response, wires>>

CommDeliverUnbounded ==
  /\ Alive /\ comm = "sending"
  /\ response' = IF dispatcher = "returned" THEN response
                 ELSE Append(response, Head(wire_down))
  /\ wire_down' = Tail(wire_down) /\ comm' = "select"
  /\ OnlyComm /\ UNCHANGED <<commands, link, wire_up>>

CommDeliver ==
  /\ Alive /\ comm = "sending"
  /\ \/ dispatcher = "returned" /\ UNCHANGED response
     \/ /\ dispatcher # "returned" /\ Len(response) < Capacity
        /\ response' = Append(response, Head(wire_down))
  /\ wire_down' = Tail(wire_down) /\ comm' = "select"
  /\ OnlyComm /\ UNCHANGED <<commands, link, wire_up>>

(* A cut connection is noticed after inactivity_timeout (ssh.rs:45).       *)
ChannelClosed ==
  /\ Alive /\ comm = "select"
  /\ link # "up" \/ remote = "ended"
  /\ wire_down = <<>>
  /\ comm' = "ended"
  /\ OnlyComm /\ UNCHANGED <<commands, response, wires>>

-----------------------------------------------------------------------------
(* run_dispatcher.                                                         *)
OnlyDispatcher == UNCHANGED <<pc, result, stage, download, cleaning, commands, comm, wires,
                              uploads, bucket>>

Receive(m) ==
  /\ Alive /\ dispatcher = "select"
  /\ response # <<>> /\ Head(response) = m

RecvHeartbeat ==
  /\ Receive("heartbeat")
  /\ waiter' = [waiter EXCEPT !["ready"] = IF @ = "armed" THEN "answered" ELSE @]
  /\ response' = Tail(response)
  /\ OnlyDispatcher /\ UNCHANGED <<dispatcher, events>>

(* Without a waiter the answer is dropped with a warning.                  *)
RecvAnswer(k) ==
  /\ k \in {"setup", "start"} /\ Receive(k)
  /\ waiter' = [waiter EXCEPT ![k] = IF @ = "armed" THEN "answered" ELSE @]
  /\ response' = Tail(response)
  /\ OnlyDispatcher /\ UNCHANGED <<dispatcher, events>>

RecvEvent ==
  /\ Receive("chunk") \/ Receive("completed")
  /\ dispatcher' = "sending"
  /\ OnlyDispatcher /\ UNCHANGED <<waiter, response, events>>

(* download_rx lives until shutdown returns; then send is an error.        *)
SendEvent ==
  /\ Alive /\ dispatcher = "sending"
  /\ \/ Len(events) < Capacity /\ events' = Append(events, Head(response))
     \/ pc \in CleanUp /\ UNCHANGED events
  /\ response' = Tail(response) /\ dispatcher' = "select"
  /\ OnlyDispatcher /\ UNCHANGED waiter

RecvError ==
  /\ Receive("error")
  /\ response' = Tail(response) /\ dispatcher' = "returned"
  /\ OnlyDispatcher /\ UNCHANGED <<waiter, events>>

(* The channel is closed, or nothing has come for five seconds: also while *)
(* gmf-remote is still at r2::init.                                        *)
DispatcherEnds ==
  /\ Alive /\ dispatcher = "select" /\ response = <<>>
  /\ comm = "ended" \/ link # "up" \/ remote \in {"init", "ended"}
  /\ dispatcher' = "returned"
  /\ OnlyDispatcher /\ UNCHANGED <<waiter, response, events>>

-----------------------------------------------------------------------------
(* gmf-remote and the world.                                               *)
OnlyRemote == UNCHANGED <<pc, result, stage, download, cleaning, waiter, channels, link>>

(* Nobody is interested any more once the communicator has ended.          *)
PrintLine(m) ==
  \/ link = "up" /\ comm # "ended" /\ wire_down = <<>> /\ wire_down' = <<m>>
  \/ (link # "up" \/ comm = "ended") /\ UNCHANGED wire_down

RemoteReady ==
  /\ remote = "init" /\ made
  /\ remote' = "serving"
  /\ OnlyRemote /\ UNCHANGED <<wire_up, wire_down, put, lost, announced, bucket>>

(* The bucket does not exist within the five tries, or R2 fails.  main     *)
(* does not wait for the writer, and the error may never be printed.       *)
RemoteInitFails ==
  /\ remote = "init"
  /\ remote' = "ended"
  /\ PrintLine("error") \/ UNCHANGED wire_down
  /\ OnlyRemote /\ UNCHANGED <<wire_up, put, lost, announced, bucket>>

Beat ==
  /\ remote \in {"serving", "uploading"} /\ link = "up" /\ comm # "ended"
  /\ PrintLine("heartbeat")
  /\ OnlyRemote /\ UNCHANGED <<wire_up, uploads, bucket>>

(* setup succeeds, answers that it cannot, or panics over the file.        *)
HandleSetup ==
  /\ remote = "serving" /\ wire_up # <<>> /\ Head(wire_up) = "setup"
  /\ wire_up' = Tail(wire_up)
  /\ \/ (PrintLine("setup") \/ PrintLine("error")) /\ UNCHANGED remote
     \/ remote' = "ended" /\ UNCHANGED wire_down
  /\ OnlyRemote /\ UNCHANGED <<put, lost, announced, bucket>>

HandleStart ==
  /\ remote = "serving" /\ wire_up # <<>> /\ Head(wire_up) = "start"
  /\ wire_up' = Tail(wire_up)
  /\ PrintLine("start")
  /\ remote' = "uploading"
  /\ OnlyRemote /\ UNCHANGED <<put, lost, announced, bucket>>

PutObject ==
  /\ remote = "uploading" /\ put + lost < TotalChunks /\ made
  /\ put' = put + 1 /\ objects' = objects \cup {put'}
  /\ OnlyRemote
  /\ UNCHANGED <<wire_up, wire_down, remote, lost, announced, made>>

(* A chunk cannot be read, or its PUT fails, with or without having stored *)
(* the object; gmf-remote says nothing of it.                              *)
UploadFails ==
  /\ remote = "uploading" /\ put + lost < TotalChunks
  /\ lost' = lost + 1
  /\ \/ UNCHANGED objects
     \/ made /\ objects' = objects \cup {TotalChunks - lost}
  /\ OnlyRemote
  /\ UNCHANGED <<wire_up, wire_down, remote, put, announced, made>>

Announce ==
  /\ remote = "uploading"
  /\ \/ announced < put /\ PrintLine("chunk")
     \/ announced = put /\ put + lost = TotalChunks /\ PrintLine("completed")
  /\ announced' = announced + 1
  /\ OnlyRemote /\ UNCHANGED <<wire_up, remote, put, lost, bucket>>

EndOfInput ==
  /\ remote \notin {"off", "ended"} /\ link # "up"
  /\ remote' = "ended"
  /\ OnlyRemote /\ UNCHANGED <<wire_up, wire_down, put, lost, announced, bucket>>

Cut ==
  /\ link = "up" /\ Alive
  /\ link' = "cut"
  /\ wire_up' = <<>>
  /\ wire_down' = IF comm = "sending" THEN wire_down ELSE <<>>
  /\ UNCHANGED <<pc, result, stage, download, cleaning, waiter, channels, uploads, bucket>>

Main ==
  \/ init_r2 \/ NewClient \/ spawn_dispatcher
  \/ Arm \/ send_request \/ Ready \/ SessionOpened \/ SetupDone \/ StartDone
  \/ LoopEvent \/ AllBranchesDisabled \/ finalize
  \/ CommJoined \/ Close \/ ListObjects \/ DeleteListed \/ RemoveBucket

Comm == CommRequest \/ CommandsClosed \/ CommRead \/ CommDeliver \/ ChannelClosed

Dispatcher ==
  \/ RecvHeartbeat \/ (\E k \in Kind : RecvAnswer(k)) \/ RecvEvent \/ SendEvent
  \/ RecvError \/ DispatcherEnds

Remote ==
  \/ RemoteReady \/ RemoteInitFails \/ Beat \/ HandleSetup \/ HandleStart
  \/ PutObject \/ UploadFails \/ Announce \/ EndOfInput

Next ==
  \/ Main \/ JoinFails \/ Fails \/ Interrupt \/ CleanUpFails
  \/ Comm \/ Dispatcher \/ Remote \/ Cut

Spec == Init /\ [][Next]_vars

(* Fairness.  Every task is polled; select! draws its branches at random   *)
(* and the server's channel serves its senders in order, so that neither a *)
(* command nor an announcement is passed over for ever; the ten seconds of *)
(* wait_ready pass.  None for the user, a fault, or a failure of a chunk.  *)
ReadyTimeout == kind = "ready" /\ Fails

FairSpec ==
  /\ Spec
  /\ WF_vars(Main) /\ WF_vars(ReadyTimeout) /\ WF_vars(pc = "send" /\ Fails)
  /\ SF_vars(CommRequest) /\ SF_vars(CommandsClosed) /\ WF_vars(Comm)
  /\ WF_vars(Dispatcher)
  /\ WF_vars(RemoteReady \/ RemoteInitFails) /\ WF_vars(EndOfInput)
  /\ WF_vars(PutObject \/ UploadFails)
  /\ SF_vars(HandleSetup) /\ SF_vars(HandleStart) /\ SF_vars(Announce)

-----------------------------------------------------------------------------
TypeOK ==
  /\ pc \in {"joining", "closing", "disconnect"} \cup Business \cup CleanUp \cup Over
  /\ joined \subseteq {"r2", "client"}
  /\ kind \in Kind
  /\ waiter \in [Kind -> {"none", "armed", "answered"}]
  /\ result \in {"none", "success", "error", "interrupted"}
  /\ bar \in BOOLEAN /\ got \in 0 .. TotalChunks
  /\ commands \in Seq(Kind) /\ Len(commands) <= Capacity
  /\ response \in Seq(Message) /\ Len(response) <= Capacity
  /\ events \in Seq(Message) /\ Len(events) <= Capacity
  /\ comm = "sending" => wire_down # <<>>
  /\ dispatcher = "sending" => response # <<>>
  /\ link \in {"off", "up", "cut", "closed"}
  /\ objects # {} => made

(* Every answer of gmf-remote finds the task that waits for it, whatever   *)
(* the dispatcher and main do in between: none is dropped with a warning   *)
(* (client.rs:155, 163).                                                   *)
AnswersAreAwaited ==
  dispatcher = "select" /\ response # <<>> /\ Head(response) \in {"setup", "start"}
    => waiter[Head(response)] = "armed"

(* After a successful download the bucket is gone, with whatever earlier   *)
(* runs left in it, even if the connection was lost at the last moment;    *)
(* no PUT can still arrive while it is listed and deleted (r2.rs:135).     *)
NoBucketAfterSuccess ==
  pc = "exit" /\ result = "success" /\ ~r2_failed => ~made

(* The places where gmf hangs.  The dispatcher has returned and main waits *)
(* for something only the dispatcher could give it: the user can press     *)
(* Ctrl+C.  Or main waits in shutdown for a communicator that waits for    *)
(* the dispatcher, which waits for room in a channel that nobody reads     *)
(* any more.                                                               *)
WaitsForUser ==
  /\ dispatcher = "returned"
  /\ (pc = "wait" /\ kind # "ready") \/ pc = "loop"

Jammed ==
  /\ pc = "closing" /\ comm = "sending" /\ Len(response) = Capacity
  /\ dispatcher = "sending" /\ Len(events) = Capacity

(* A run of gmf always comes to an end, with or without Ctrl+C, a failure  *)
(* of gmf-remote or a cut connection, except at those two places.          *)
Settles == []<>(pc \in Over \/ WaitsForUser \/ Jammed)

(* "等待 SetupSuccess 被取消或连接关闭" (client.rs:259) and the same for    *)
(* StartSuccess (client.rs:297): the wait for an answer is over when the   *)
(* connection is closed.                                                   *)
WaitEndsWithConnection ==
  comm = "ended" /\ dispatcher = "returned" /\ pc = "wait" ~> pc # "wait"
=============================================================================

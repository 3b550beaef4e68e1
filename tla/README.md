# A verification of gmf

gmf downloads one file from a remote host through a Cloudflare R2 bucket. The
client (`gmf`) starts `gmf-remote` over SSH; `gmf-remote` encrypts the chunks of
the file and uploads them, announces each one with its passphrase on its stdout,
and the client fetches, decrypts, deletes and writes them. This directory holds
TLA+ models of that program, the TLC runs that check them, and proofs checked
by TLAPS. `PROJECT.json` is the index: components, runs, theorems, mutants, hazards,
findings, and for every definition the source lines it stands for.

## The system

| component | state | operations | what makes it correct |
|---|---|---|---|
| `DownloadSession` (gmf/src/file.rs) | `<xxh3>.gmf`, `<xxh3>.json`, the bitmap in memory, a mutex, one task per chunk | `new`, `handle_chunk`, `finalize`, `Metadata::{new,load,save,remove}` | a published file is the one that was hashed; a saved bit has its data; progress is not lost |
| `download_loop` (gmf/src/client.rs) | task set, cached count of completed chunks, `upload_completed`, event channel | a biased `select!` over task ends, events, a timer | ends exactly when everything is there; never stuck because of a race |
| dispatcher, handshake, `SSHCommunicator` (client.rs, comm.rs) | three one-shot waiters, the heartbeat timer, three channels, a buffer of bytes | one arm per response; `wait_ready`, `setup`, `start`, `shutdown`; lines from packets | an answer finds its waiter; lines arrive whole and in order; a silent server is given up, a live one is not |
| gmf `main` | the two halves of `try_join!`, the bucket, Ctrl+C | set-up, the three waits, clean-up | it ends, and leaves no bucket after a success |
| `setup` and the requests (gmf-remote, `ChunkBitmap`) | write-once metadata and bitmap | Setup, Start, chunk arithmetic, serialisation | chunks tile the file; the pending ones are those the client lacks |
| `start`/`upload_chunk` (gmf-remote/src/server.rs) | iterator of pending ids, JoinSet with a hand-kept count | prewarm, reap and respawn, read, encrypt, PUT, announce | announces only what is stored; tries everything; bounded concurrency |
| gmf-remote `main` | response channel (100), cancellation token | end of stdin, ten-second abort, writer, heartbeat | ends after a hang-up whatever is blocked |
| R2 calls (gmf-common/src/r2.rs) | the bucket `gmf`, shared by every session | init, put, get, delete, delete_bucket | an answer may be lost; names are only chunk ids |
| build, installation, login (build.rs, ssh.rs, config.rs, client.rs) | OUT_DIR, `/tmp` and `~/.local/bin` of the host, the configuration file | embed; compare, upload, unpack, start; login, load | the gmf-remote that runs is the embedded one; only a tested configuration is used |

The parts talk through the bucket, through one line protocol over an SSH channel
(requests up, responses down), and through bounded tokio channels on both sides.
Hard behaviours: tasks of one process interleave at awaits and share the json
file; two processes share a bucket; channels in a row fill up; either process may
stop at any step and the next session resumes from what is on disk; a request to
R2 may be carried out although the caller sees an error; a `gmf-remote` behind a
cut connection may live on while the user tries again. The full list, each at its
line, is under `hazards` in `PROJECT.json`.

## Modules

| module | models | uses |
|---|---|---|
| `Interface` | chunks, passphrases, objects, the bucket that both halves share, the two responses of a transfer | |
| `ResumableDownload` | abstract: what is kept only grows until the whole file is delivered | |
| `DownloadSession` | file.rs | `Interface`; implements `ResumableDownload` |
| `DownloadLoop` | `download_loop`, on top of the session | extends `DownloadSession` |
| `Uploader` | server.rs `start` and `upload_chunk`; main.rs channel, writer, shutdown | `Interface` |
| `Transfer` | both halves, the bucket between them, the user who runs gmf again | extends `DownloadLoop` and `Uploader` |
| `Chunking` | operators: chunk count by a rounded float quotient, offsets, `ChunkBitmap` | |
| `Framing` | lines in a byte stream and the reader that reassembles them (comm.rs, msg.rs) | |
| `Fifo` | abstract: every message arrives whole, once, in order, or the connection ends; noise between them is skipped | |
| `Requests` | Setup and Start, client to gmf-remote and back, over sessions | `Chunking`, `Framing` twice; each direction implements `Fifo` |
| `Client` | `real_main`, `SSHCommunicator::run`, `run_dispatcher`, `delete_bucket` | |
| `Heartbeat` | heartbeat task and dispatcher timer in discrete time | |
| `Configuration` | login and the configuration file | |
| `Deployment` | build.rs, installation, several clients on one host | extends `Configuration` |
| `MC*` | constants for TLC | |
| `<module>_proofs` for `DownloadSession`, `Uploader`, `Client`, `Heartbeat`, `Deployment` | theorems about that module | that module |
| `Transfer_proofs` | theorems about both halves together | extends `Transfer` and the proofs of the halves |
| `Chunking_proofs` | theorems about the arithmetic | that module |
| `Requests_proofs` | theorems about the requests | extends `Requests` and `Chunking_proofs` |

Definitions named "Faulty variant" are not part of a specification. Each is what
a plausible bug would make of the definition below it; put in that one's place,
it makes a property fail, which shows that the property depends on that code.

`Transfer` has the names of both halves in scope, so those of `Uploader` that the
session also has are prefixed (`UploadInit`, `UploadNext`, `UploadSpec`, `r_bitmap`).

Each module abstracts what another has in detail: `Client` reduces gmf-remote to
what it prints and a chunk's task to one step; `Transfer` takes the handshake and
`delete_bucket` as single steps; `Requests` takes the transfer of a chunk as one.

### What a state is

*Data.* In `DownloadSession`, `Uploader` and `Transfer` a chunk's plaintext is
`"orig"` or `"edited"`: read from the file that was hashed, or after someone
changed it. The xxh3 comparison of `finalize` is the comparison of these contents,
which leaves out hash collisions. An object is a key and a plaintext, and AES-GCM is
the rule that only the key it was sealed with opens it. A bitmap is a set of
chunks, except in `Requests`, where it has its length and its words. A region of
the temporary file is `"hole"` until it is written, and after a write that failed
half-way. In `Deployment` an ELF file stands for itself, its archive and its
SHA-256; `Torn` is an archive or program of which a part is there.

*The json file.* `meta` says whether it is absent, torn or valid; `saved` is the
bitmap of the last write that finished. `Metadata::save` is two steps because
`fs::write` truncates before it writes: it serialises (`metadata_content`) and opens
the file, then writes. It can fail in either: without opening the file, which stays
as it was (`MarkUnsaved`), or half-way (`SaveFails`). Deaths of the process are
modelled, not losses of power: what was written stays written.

*Steps.* An action is what a task does between two points where something else
can happen: an await, a change of a file, a request to R2. Reading a chunk and
encrypting it are one step, because nothing that either reads changes between
them except the file, and that choice is made at the read. The write, the mark
and the two halves of the save are steps of their own because a death can
separate them; the mutex (`md_lock`) keeps other tasks out.

*Abort of tasks.* When `download_loop` bails it drops its task set. The tasks end
at their next await; the model lets them go on until the process ends, which
includes that. A `Quit` waits for the task inside the metadata mutex: after the
loop has failed, real_main still closes SSH and talks to R2 several times before
the process exits, and a save has no await. A kill or a panic waits for nothing.

*gmf-remote.* `in_flight` and `join_set` are kept apart as in the code, so that a
miscount is expressible. Cancellation of an upload in its PUT leaves the object
stored or not. `stdout` is the history of printed lines; in `Transfer` the client
has dispatched the first `read` of them. stdin and stdout may close in either order
(`shutdown`, `stdout_closed`); a line for a closed stdout ends the process, because
`println!` panics and the release profile aborts on a panic (`PrintPanics`).

*Sessions.* In `Transfer` each session has a fresh `gmf-remote` and its number
stands for its random passphrases. A new session starts after the old
`gmf-remote` has ended; or earlier, if the connection was cut (`orphaned`) or the
user is in a hurry (`ConnectEarly`), because `shutdown` only closes the connection
and waits for nothing. Then everything the old one had not uploaded may still
arrive, once per chunk, or not (`stale`). A source file that changes under a session
is covered by `Uploader` and `DownloadSession`, and not in `Transfer`: the next run computes another hash and is
another download.

*The client's tasks.* In `Client`, `pc` is where `real_main` stands and `kind` which of
the three answers it is after. Between the answer to Setup and the progress bar
`setup` has an await (`SessionOpened`, `SetupDone`), where Ctrl+C may come. `put` and
`lost` count the uploads of gmf-remote that succeeded and failed; it announces the
former and then says that it is done, and if a chunk was lost the client panics
(`AllBranchesDisabled`). A message that a task has received and cannot pass
on still counts in the channel it came from (`comm = "sending"`, `dispatcher =
"sending"`), so that a full channel blocks the task in front of it as an await on
`send` does. `DispatcherEnds` is enabled where silence is possible; how long that
takes is the subject of `Heartbeat`.

*Bytes.* In `Framing` a line is a head, a tail and a newline, and a packet is any
non-empty prefix of what is on the way. `NotJson` is a line of the host's login scripts.

*Time.* `Heartbeat` has a clock in half seconds. Time passes only when nobody has
anything to do at the moment, and a line is delivered within `MaxDelay` of being printed if there
is room. How long the download loop keeps the dispatcher waiting is not bounded.

*The host.* In `Deployment`, `run[c]` is a run of `gmf get`. Creating or truncating the
temporary archive and filling it are two steps, and so are tar's replacement of
the program and its filling; `tar` is a process of its own, which goes on when the
connection is lost. `disturbed` says that another client has changed something on
the host since this one compared the hashes. `unmarked` says that a build was
interrupted after it had begun to write an archive and before its marker, and that
no marker has been written since.

## Runs

| run | instance | properties |
|---|---|---|
| `session` | 2 chunks, 2 keys, any bucket contents at any time, unlimited deaths and errors | `FinalsIntact`, `SavedIsOnDisk`, `QuietSessionIsSaved`, `ProgressIsKept`, `IsResumableDownload` |
| `uploader` | 3 chunks, 2 tasks, capacity 1, any failure, edits, shutdown at any time | `AnnouncedIsStored`, `AnnouncedOnce`, `CompletedIsLast`, `BoundedConcurrency`, `EveryChunkTried`, `StartCompletes`, `ShutdownStopsUploads`, `ShutdownEnds` |
| `transfer` | 2 chunks, 2 upload tasks, capacities 1, 4 sessions, 2 network, disk or crash faults of any mix, one of which may be a user in a hurry, or one cut; deadlock checked | `NoChunkLost`, `AnnouncedIsFetchable`, `PanicOnlyAfterFailedUpload`, `Delivered` |
| `requests` | files of 0, 2, 6, 7, 9 and 10 bytes in chunks of 3, words of 2 bits, floats of 6 bits, 2 sessions, capacity 1 | `ChunksTileFile`, `PendingIsExact`, `RemainingIsClose`, `PanicsOnlyOverTheFile`, `RequestsInOrder`, `ResponsesInOrder` |
| `client` | 2 chunks, capacities 1 | `AnswersAreAwaited`, `NoBucketAfterSuccess`, `Settles` |
| `heartbeat` | delay and start within 2 s, 3 lines on the way, capacity 1 | `NoFalseAlarm`, `SilenceIsNoticed` |
| `deploy` | 2 builds, 2 clients in the same second, 1 change, 1 fault | `EmbeddedMatches`, `StartedIsEmbedded`, `ConfigIsTested`, `InstallHeals` |
| `upload_failure` | violation | `AllUploaded`, from the log line of server.rs:185 |
| `storage` | violation, 10 chunks, 2 tasks, capacity 100 | `StorageBounded`, from README.md:51 |
| `panic` | violation | `NetworkErrorsAreHandled`, from README.md:13 |
| `hang` | violation, 1 chunk | `WaitEndsWithConnection`, from client.rs:259 |
| `startup` | violation, a start of up to 9 s | `StartupIsAwaited`, from client.rs:233 |

Each passing run also checks its type invariant, and is a question of its own.

### What they show

`session`: whatever is in the bucket, whatever fails and wherever the process
dies, a published file is the remote file that was hashed and progress on disk is
real. `SavedIsOnDisk` has one exception, a step: the rename that publishes takes the
temporary file away before the json file is removed. If the process dies in
between, or the removal fails, the json file keeps what bits it has (all, or those of
an earlier save if the last one failed) for a file that is empty, and a new
download of the same file fails its hash until the json file is deleted by hand.

`uploader`: what gmf-remote prints is true, complete and in order. `StartCompletes`
needs a client that reads (`Read`). `ShutdownStopsUploads` needs neither a reader nor
the end of the process. `ShutdownEnds` needs no reader either: the ten-second abort
frees a start task that is blocked in the channel, and when stdout has closed as
well, the lines that are left end the process by the panic of `println!`.

`transfer`: nothing drops out between the server's bitmap, the channels and the
tasks, and after faults a further run of gmf completes the download (`Delivered`).
The exception is a write of the json file that a kill or an error ends half way: no
later session can load it.

`requests`: the count of chunks, a quotient of floats, is the right one; the padding
that a bitmap acquires each time it is serialised never becomes a chunk; both
directions are queues however the bytes arrive. gmf-remote panics only over a
file it cannot hash and, depending on an allocation's alignment, over an empty one,
and so does the client over the json file that an earlier session of an empty file
has left.

`client`: an answer always finds its waiter; a successful download leaves no bucket.
Nothing of the kind is claimed for a Ctrl+C during the handshake: it panics over a
progress bar that is not there yet (ui.rs:62), and skips the clean-up. `Settles` names the only
two places where gmf hangs. `WaitsForUser`: the dispatcher has returned and main
waits for what only it could deliver; Ctrl+C helps. `Jammed`: `shutdown` waits for
the communicator, that one for the dispatcher, and that one for room in the event
channel, whose reader has left; Ctrl+C is no longer listened to. It takes full channels,
a hundred events in the code.

`heartbeat`: the dispatcher hears no heartbeat while the event channel is full, and
still does not give up a live server, because each turn has a new one-second sleep
and what is waiting is received in that second. For the same reason a dead one is
given up after at most six seconds spent in `select!`; what the dispatcher waits
for the download loop in between comes on top. The first holds when a start, and a
second plus the delay of a line, stay under five seconds.

`deploy`: only another client that installs between the comparison and the start
can make gmf talk to a foreign gmf-remote, and whatever a broken installation
left behind is repaired by the next run. `EmbeddedMatches` is about every build that
ends, whatever was interrupted before it, with one exception (`unmarked`): an archive
that was left without its marker. Then, if the ELF file changes, its build is
interrupted between archive and marker, and the file changes back, the old marker
vouches for the new archive; the run reaches this, which is why changes and
faults count one each.

The violations are what the models say about five statements of the repository:
completion is reported with failed chunks; the bucket grows with the file when the
client is the slower side; a failed upload makes the client panic; a closed
connection does not end the wait for an answer; the dispatcher does not wait the ten
seconds that a start may take.

### Bounds

Two chunks are enough for tasks that compete for the mutex, saves that follow one
another, a last chunk and one that is missing. Three chunks for two upload tasks
force a spawn after a reap while another task is at work. Capacity one makes every
send block; a larger channel only delays that. `FaultPlans` and `MaxSessions` bound
`Transfer`: one cut costs a session and can leave two stale PUTs, each of which can
spoil one more, so the fourth session completes; two other faults cost two. A user
in a hurry is a fault in this count, for it leaves stale PUTs behind as well.

The geometries of `requests` are the cases of the arithmetic: empty, one short chunk,
whole chunks, a short last one, a bitmap that fills its words and one that does
not, one and two words. Words of 2 bits stand for 64 and 6-bit significands for 53;
`QuotientIsExact`, evaluated by TLC for all pairs of 6-bit sizes and proved for every
precision, says that rounding does not change the ceiling. At most one line lies ahead of a heartbeat.

In `heartbeat`, five seconds are ten ticks; `Window` bounds lines on the way, of which
one heartbeat behind the announcements is enough. `deploy` has `Name = {1}`, so that
two clients always choose the same temporary file, the worst case; `MaxChanges` and
`MaxFaults` are one each.

### Deadlock and fairness

Deadlock is checked in `transfer`, where the only state without a next step is meant to
be `Finished`. The other programs may really stop: a session ends for good, a client
exits, a dispatcher returns.

Fairness says that a tokio task that can run is polled and that a request to R2, a
read or a command returns with a result or an error. Nothing obliges a fault, a
Ctrl+C, an edit or a failure to happen.

- `Uploader`: weak fairness of the start task and of each upload (`TasksRun`). The rest are
  premises of single properties: that the client reads (`Read`), that `main` goes on
  after the end of stdin (`MainRuns`), and that stdout closes some time after stdin and
  the panic follows (`HangsUpWholly`), which sshd does when the channel is gone. A
  `println!` that blocks in a full pipe occupies a worker thread of tokio; another
  one is assumed to be left for the other tasks.
- `Transfer`: weak fairness of every step of either side, of a left-behind
  gmf-remote, and of the user, who interrupts a gmf that hangs and runs it again;
  lines are printed as long as the client listens, and the pipe of one that has
  left closes. None for `delete_bucket` or for a hurry.
- `Client`: weak fairness of each task. Strong fairness for a command and the end of
  the commands, because `select!` draws its branches at random and lines of the server
  compete with them; and for gmf-remote's answers and announcements, because its
  channel serves senders in order while heartbeats compete. The ten seconds of
  `wait_ready` pass. An upload ends, well or badly (`PutObject \/ UploadFails`). None for
  `Beat`.
- `Deployment`: weak fairness of the build and of each client. `InstallHeals` counts a run
  only while no other client disturbs it for ever.
- `Heartbeat` needs none: its bounds on time are safety properties.

## Proofs

Each theorem holds for every value of the constants: any file, any concurrency,
any capacity of the channels, any number of sessions and of faults. None of
the invariants below but the type invariants is inductive; what each needs
besides is named as it is in the module.

**`DownloadSession_proofs`**: `TypeOK`, `FinalsIntact`, `SavedIsOnDisk`,
`QuietSessionIsSaved`, `ProgressIsKept`, `IsResumableDownload`, against a bucket that
changes arbitrarily. The type invariant includes that a task past its download
holds an object (`HasObject`). `IInv` adds: the tasks between write and
save are exactly the ones in the mutex and are at most one (`OneSaver`); no task
runs outside the active phase (`OnlyActiveRuns`); a task works on a chunk only
until it has marked it (`NotYetMarked`); memory marks only what is on disk
(`MarkedIsOnDisk`, with the bits that the json file has had since before as its
exception); and what the json file says lies within memory, a bit it lacks is that
of a task that has failed, and what a task is about to write is the bitmap of the
moment (`JsonAgrees`). `WriteChunk` needs `HasObject` so that it leaves no hole, `Save`
needs `JsonAgrees` and `MarkedIsOnDisk`, and only `Rename` is left for the exception of
`SavedIsOnDisk`.
For the refinement (`kept` is `saved`, `delivered` is `finals`), `RefinementStep` maps
`Created` and `Save` to `Keep`, `Rename` to `Deliver`, the removal of the json file to
`Forget`, and every other step to a stutter.

**`Uploader_proofs`**: all safety properties of gmf-remote. For `BoundedConcurrency` and
`EveryChunkTried`, `Counted` says that `in_flight` is the cardinality of `uploads`;
`Placed` that working tasks are in it and that a chunk that is neither waiting nor
already with the client has been spawned; `Emptied` that the loop ends with nothing
left unless there was a shutdown. For `UploadTypeOK`, `AnnouncedIsStored`, `AnnouncedOnce` and
`CompletedIsLast`, `LInv` adds: a chunk past its encryption has an object (`Sealed`); a
chunk the client has is never touched (`Wanted`); from its PUT on, that object is
the one in the bucket, and a waiting line carries its key (`Stored`); a line
belongs to a task that is done, and `UploadCompleted` is at the end, after the start
task (`LinesAreOk`); no chunk has two lines (`Distinct`). Its step needs `Emptied`,
because the start task may only report completion when no task is left to send.

**`Transfer_proofs`**: `TransferTypeOK`, `FinalsIntact` and `IsResumableDownload` of the whole
system, `NoChunkLost`, `AnnouncedIsFetchable`, `PanicOnlyAfterFailedUpload`. The two halves share
the bucket and the lines on stdout. Neither half's invariant speaks of the
bucket's contents, so each survives the other's steps (`HalvesStep`): a step of
gmf-remote is a stutter of the session with another bucket, and the client's steps
leave gmf-remote alone. That gives the first three. The others follow the lines.
`Lines` is all that gmf-remote has handed over; the loop has received the first
`received` of them, and the channel holds the next (`Follows`). A successful upload has
its line (`Reported`); behind `UploadCompleted` every chunk was tried (`Tried`); each
line received was acted on, by a task or a completed chunk (`Heard`). So a missing
chunk is before its line, on the way with it, or behind it in a task, which is
`NoChunkLost`. At a panic `UploadCompleted` has been received and the set of tasks is
empty (`Tallied`), so the only place left is a failed upload. The object of a chunk
stays from its PUT to the GET of its task (`Fetchable`), because the chunk is announced
once, and it is its session's own unless a cut connection has left a gmf-remote
behind, or a user in a hurry has (`Own`, `LeftBehind`). `OneTaskPerChunk` adds what no
run states: the loop never takes an announcement of a chunk that has a task, although
it asks only whether the chunk is completed, so the guard `job[c] = "idle"` of the
model's spawn excludes nothing.

**`Client_proofs`**: `TypeOK`, `AnswersAreAwaited`, `NoBucketAfterSuccess`. The last two
count messages: a request is in one
place at a time, as itself or as its answer (`InTransit`), and while it is anywhere
its waiter is armed; the chunks that are completed, in a channel or on the wire
are no more than were announced or stored (`Told`, `Stored`). When all are completed,
every PUT is over, and `delete_bucket` sees the whole list.

**`Heartbeat_proofs`**: `TypeOK`, `SilenceIsNoticed` and, given `Prompt`, `NoFalseAlarm`. `Prompt`
says that a second plus the delay of a line, and a start plus that delay, are less
than the timeout. It is a hypothesis of the theorem and not an assumption on the constants,
because a start may take longer (run `startup`, where the property fails). After a long
wait for the download loop the silence is as long as that wait; what saves the
dispatcher is that a heartbeat has been waiting as well. The invariant follows the
oldest heartbeat that has not been heard, through the wire (`Ordered`) and the
channel, up to the sleep after which the silence is measured.

**`Deployment_proofs`**: `TypeOK`, `EmbeddedMatches`, `StartedIsEmbedded`, `ConfigIsTested`. The
archive differs from its marker only while it is written and after an interruption
there (`BuildOK`, and `unmarked` for that interruption); the hash in the
configuration file is that of a tested input; a client that nobody disturbs is
followed from its upload to the start: its archive is the one it wrote or is gone,
what tar unpacks is that archive, and what is installed stays its own.

**`Chunking_proofs`**: operators, so theorems without a specification. `QuotientIsExact`:
the quotient lies between two powers of two (`ExponentExists`, by pigeonhole: an
exponent that could always be raised would have to be one too many), and a quotient
that is not an integer misses the next one below by more than half of the last bit
of the float, because the dividend has no more bits than the float: rounding
cannot reach it (`NearestBounds`). What the solvers do not know of powers of two is
obtained by counting subsets. `ChunksTile` and `RemainingIsExactButForOne` count bytes and
chunks through bijections, and `PaddingIsCutOff` is the way of a bitmap through its words.

**`Requests_proofs`**: all safety properties of the two requests, and with them that
either direction is a `Fifo`. `Carries` says that
buffer, stream and channel of a direction hold, in this order, the tail of a sequence of
whole lines: writing appends to it, a packet leaves it alone, the reader takes off its
front (`FirstLine`), and a line of a login script drops out. `IInv` then says
that what is on disk and in memory fits the file (`StaticOK`) and that the session is in
one of twelve stages (`Protocol`), each of which fixes what both sides have set and which
messages are on the way; besides an answer there is only `Noise`. Every action leads from
a stage to a stage: an answer is in flight at most once (`Once`), so handling it leaves
noise. A bitmap that `Fits` still does after it has been packed and unpacked, although it
is longer (`FitsForGood`), and gmf-remote's copy has the length that setup counted.
For the refinement, the queue is the sequence of lines in buffer and stream together
(`Queued`), which are whole ones because of `Carries`.
Printing is `Put`, a packet a stutter (`QueueStays`), a line that is read `Read` (`QueueReads`),
one that is ignored `Skip`, which the abstract queue allows for noise only;
`Connect` and `End` are `HangUp`.

The assumptions are named ones on the constants, each in the module that declares
the constant: chunk ids are naturals and finitely many (`ChunkAssumption`,
`FileAssumption` of `DownloadLoop`); `NoObject`, `NoKey`, `None`, `Torn` and `NotJson` are not objects, keys,
names, archives, configurations, cells or messages (`NoObjectAssumption`, `NoKeyAssumption`,
`NameAssumption`, `ArchiveAssumption`, `FileAssumption` of `Configuration`, `NoneAssumption`,
`NotJsonAssumption`); sizes are those that a float holds exactly
(`GeometriesAssumption`); concurrency, capacities, durations, and the widths of floats
and words are positive; and the passphrase of a session is its number
(`SessionsAreKeys`), which stands for a generator that does not repeat.

Every safety property that a passing run checks is a theorem, and each of the
refinements. Only model-checked is liveness (`Delivered`, `StartCompletes`,
`ShutdownStopsUploads`, `ShutdownEnds`, `Settles`, `InstallHeals`), which with `ENABLED` is out of
the prover's reach.

## Not modelled

- `find_available_filename` (utils.rs): paths and numbered names. `DownloadSession` takes
  its result to be a free name, which fails after 9999 names and when a file of
  that name appears before the rename; both are under `hazards`.
- Hash collisions, cryptography, base64, JSON syntax.
- The inside of russh: an ordered stream of bytes that may end is assumed.
- Command line, prompts, printing, the contents of the progress bar, logging,
  packaging. Of the bar only its existence matters, and `Client` has that.
- Two gmf of different files on one account at once: `DownloadSession` covers what their
  shared bucket can do to one of them, since any bucket may be there at any time.
- Losses of power.

------------------------------ MODULE Deployment ------------------------------
(***************************************************************************)
(* How gmf-remote gets to the remote host: gmf/build.rs packs its ELF file *)
(* into gmf, and GMFClient::new (gmf/src/client.rs, gmf/src/ssh.rs) loads  *)
(* the configuration, connects, compares the installed program with the    *)
(* embedded one, uploads and unpacks the archive if they differ, and       *)
(* starts it.  Several clients share the host.                             *)
(*                                                                         *)
(* An ELF file stands for itself, for its archive and for its SHA-256.     *)
(***************************************************************************)
EXTENDS Configuration

CONSTANTS
  Elf,       \* the builds of gmf-remote
  Client,    \* terminals in which gmf runs
  Name,      \* of temporary archives: the second of their upload
  MaxChanges,  \* of the ELF file, and logins, bound of the model
  MaxFaults    \* kills, lost connections and edits, bound of the model

(* Absent and torn files, builds and temporary names are told apart.       *)
Archive == Elf \cup {None, Torn}

ASSUME NameAssumption == None \notin Name
ASSUME ArchiveAssumption ==
  /\ None \notin Elf /\ Torn \notin Elf /\ None # Torn
  /\ None \notin [tar_gz : Archive, sha256 : Elf]
  /\ None \notin [elf : Archive, whole : BOOLEAN, by : Client \cup {None}]

VARIABLES
  (* the workspace and cargo's OUT_DIR *)
  elf, targz, marker,
  build,        \* where build.rs stands: "out", "targz", "write", "marker", "embed"
  built,        \* the gmf of the last build, with its two constants
  dirty,        \* has the ELF file changed since build.rs last ended
  unmarked,     \* was a build interrupted before the marker of its archive
  (* the runs of gmf get and the remote host *)
  run,          \* of each client: where it stands and what it knows
  tmp,          \* the archives in /tmp
  installed,    \* ~/.local/bin/gmf-remote: which one, whole or not, unpacked by whom
  tar,          \* the processes that unpack, for each client
  changes, faults

workspace == <<elf, targz, marker, build, built, dirty, unmarked>>
host == <<tmp, installed, tar>>
vars == <<config_vars, workspace, run, host, changes, faults>>

Pc == {"out", "connect", "check", "open", "upload", "untar", "tar", "exec", "started"}

(* disturbed: another client has put something on the host since the check. *)
NotRunning ==
  [pc |-> "out", config |-> None, program |-> None, temp_file |-> None,
   started |-> None, disturbed |-> FALSE]
NoTar == [file |-> None, archive |-> None]

(* Earlier builds and runs have left what they leave when nothing fails.   *)
Init ==
  /\ ConfigInit
  /\ elf \in Elf /\ marker \in Elf \cup {None} /\ targz = marker
  /\ build = "out" /\ built = None /\ dirty = TRUE /\ unmarked = FALSE
  /\ run = [c \in Client |-> NotRunning]
  /\ tmp = [n \in Name |-> None]
  /\ installed \in {None} \cup {[elf |-> e, whole |-> TRUE, by |-> None] : e \in Elf}
  /\ tar = [c \in Client |-> NoTar]
  /\ changes = 0 /\ faults = 0

Change == changes < MaxChanges /\ changes' = changes + 1
Fault == faults < MaxFaults /\ faults' = faults + 1

-----------------------------------------------------------------------------
(* The build.                                                              *)
ChangeElf ==
  /\ build = "out" /\ Change
  /\ elf' \in Elf \ {elf} /\ dirty' = TRUE
  /\ UNCHANGED <<targz, marker, build, built, unmarked, config_vars, run, host,
                 faults>>

(* Faulty variant: an archive that exists is as good as a new one.         *)
ArchiveExists == targz # None
UpToDate == marker = elf /\ targz # None

(* Cargo runs build.rs when the ELF file has changed since it last ended.  *)
Build ==
  /\ build = "out"
  /\ dirty
  /\ build' = IF UpToDate THEN "embed" ELSE "targz"
  /\ UNCHANGED <<elf, targz, marker, built, dirty, unmarked>>

WriteTargz ==
  \/ /\ build = "targz" /\ targz' = Torn /\ build' = "write"
     /\ UNCHANGED <<elf, marker, built, dirty, unmarked>>
  \/ /\ build = "write" /\ targz' = elf /\ build' = "marker"
     /\ UNCHANGED <<elf, marker, built, dirty, unmarked>>

WriteMarker ==
  /\ build = "marker"
  /\ marker' = elf /\ build' = "embed" /\ unmarked' = FALSE
  /\ UNCHANGED <<elf, targz, built, dirty>>

Embed ==
  /\ build = "embed"
  /\ built' = [tar_gz |-> targz, sha256 |-> elf] /\ build' = "out"
  /\ dirty' = FALSE
  /\ UNCHANGED <<elf, targz, marker, unmarked>>

BuildStep ==
  /\ Build \/ WriteTargz \/ WriteMarker \/ Embed
  /\ UNCHANGED <<config_vars, run, host, changes, faults>>

Interrupted ==
  /\ build # "out" /\ Fault
  /\ build' = "out" /\ unmarked' = (unmarked \/ build \in {"write", "marker"})
  /\ UNCHANGED <<elf, targz, marker, built, dirty, changes, config_vars, run, host>>

-----------------------------------------------------------------------------
(* GMFClient::new.                                                         *)
OnlyRun == UNCHANGED <<config_vars, workspace, host, changes, faults>>
At(c, label) == run[c].pc = label
Leave(c) == run' = [run EXCEPT ![c] = NotRunning]
Goto(c, label) == run' = [run EXCEPT ![c].pc = label]
Disturbed(r) == [r EXCEPT !.disturbed = r.pc # "out"]
GotoAndDisturb(c, label) ==
  run' = [[d \in Client |-> Disturbed(run[d])] EXCEPT ![c] = [run[c] EXCEPT !.pc = label]]

get_config(c) ==
  /\ At(c, "out") /\ built # None /\ load_config
  /\ run' = [run EXCEPT ![c].pc = "connect", ![c].program = built,
                        ![c].config = config_file.config]
  /\ OnlyRun

Connect(c) ==
  /\ At(c, "connect")
  /\ IF connect(run[c].config) THEN Goto(c, "check") ELSE Leave(c)
  /\ OnlyRun

(* Faulty variants: a program that is there is good enough; an error of    *)
(* sha256sum is no difference.                                             *)
MissingOnly(c) == installed = None

Differs(c) == ~installed.whole \/ installed.elf # run[c].program.sha256
FoundAndDiffers(c) == installed # None /\ Differs(c)

NeedsInstall(c) == installed = None \/ Differs(c)

check_remote(c) ==
  /\ At(c, "check")
  /\ IF NeedsInstall(c)
       THEN \E n \in Name :
              run' = [run EXCEPT ![c].pc = "open", ![c].temp_file = n,
                                ![c].disturbed = FALSE]
       ELSE run' = [run EXCEPT ![c].pc = "exec", ![c].disturbed = FALSE]
  /\ OnlyRun

(* upload_file creates or truncates the file, under whoever is reading it, *)
(* and then writes it.  Faulty variant: it must be a new file.             *)
OpenNewTempFile(c) ==
  /\ At(c, "open")
  /\ IF tmp[run[c].temp_file] # None THEN Leave(c) /\ UNCHANGED tmp
     ELSE /\ GotoAndDisturb(c, "upload")
          /\ tmp' = [tmp EXCEPT ![run[c].temp_file] = Torn]
  /\ UNCHANGED <<config_vars, workspace, installed, tar, changes, faults>>

CutShort(process) == [process EXCEPT !.archive = Torn]

OpenTempFile(c) ==
  LET file == run[c].temp_file IN
    /\ At(c, "open") /\ GotoAndDisturb(c, "upload")
    /\ tmp' = [tmp EXCEPT ![file] = Torn]
    /\ tar' = [d \in Client |-> IF tar[d].file = file THEN CutShort(tar[d]) ELSE tar[d]]
    /\ UNCHANGED <<config_vars, workspace, installed, changes, faults>>

WriteTempFile(c) ==
  /\ At(c, "upload") /\ GotoAndDisturb(c, "untar")
  /\ tmp' = [tmp EXCEPT ![run[c].temp_file] = run[c].program.tar_gz]
  /\ UNCHANGED <<config_vars, workspace, installed, tar, changes, faults>>

(* tar replaces the file by a new one and fills that.                      *)
Replace(c, archive) == [elf |-> archive, whole |-> FALSE, by |-> c]

Untar(c) ==
  LET file == run[c].temp_file IN
    /\ At(c, "untar") /\ tar[c] = NoTar
    /\ IF tmp[file] = None
         THEN Leave(c) /\ UNCHANGED <<installed, tar>>
         ELSE /\ GotoAndDisturb(c, "tar")
              /\ installed' = Replace(c, tmp[file])
              /\ tar' = [tar EXCEPT ![c] = [file |-> file, archive |-> tmp[file]]]
    /\ UNCHANGED <<config_vars, workspace, tmp, changes, faults>>

(* The end of "tar -xf ... && rm ...", also of a client that is gone.  An  *)
(* archive that is cut off is an error of tar, one that another client has *)
(* removed by now an error of rm.  What counts is the exit code.           *)
TarEnds(c) ==
  LET file == tar[c].file
      complete == tar[c].archive # Torn
  IN /\ tar[c] # NoTar
     /\ tar' = [tar EXCEPT ![c] = NoTar]
     /\ tmp' = IF complete THEN [tmp EXCEPT ![file] = None] ELSE tmp
     /\ installed' = IF complete /\ installed.by = c
                       THEN [installed EXCEPT !.whole = TRUE] ELSE installed
     /\ CASE At(c, "tar") /\ complete /\ tmp[file] # None -> Goto(c, "exec")
          [] At(c, "tar") /\ ~(complete /\ tmp[file] # None) -> Leave(c)
          [] OTHER -> UNCHANGED run
     /\ UNCHANGED <<config_vars, workspace, changes, faults>>

exec_interactive(c) ==
  /\ At(c, "exec")
  /\ run' = [run EXCEPT ![c].pc = "started",
                        ![c].started = IF installed.whole THEN installed.elf ELSE Torn]
  /\ OnlyRun

Exit(c) == At(c, "started") /\ Leave(c) /\ OnlyRun

(* The client is killed, or the connection lost; the host may or may not   *)
(* end what the client started.                                            *)
Lost(c) ==
  /\ run[c].pc \notin {"out", "started"} /\ Fault
  /\ Leave(c)
  /\ tar' \in {tar, [tar EXCEPT ![c] = NoTar]}
  /\ UNCHANGED <<config_vars, workspace, tmp, installed, changes>>

ClientStep(c) ==
  \/ get_config(c) \/ Connect(c) \/ check_remote(c)
  \/ OpenTempFile(c) \/ WriteTempFile(c) \/ Untar(c) \/ TarEnds(c)
  \/ exec_interactive(c) \/ Exit(c)

LoginStep ==
  /\ \/ Login /\ Change
     \/ (TestConnection \/ save_config) /\ UNCHANGED changes
  /\ UNCHANGED <<workspace, run, host, faults>>

UserFault ==
  /\ LoginEnds \/ EditConfig
  /\ Fault
  /\ UNCHANGED <<workspace, run, host, changes>>

Next ==
  \/ LoginStep \/ UserFault
  \/ ChangeElf \/ BuildStep \/ Interrupted
  \/ \E c \in Client : ClientStep(c) \/ Lost(c)

Spec == Init /\ [][Next]_vars

(* Fairness.  Every program goes on, and the user logs in, builds and runs *)
(* gmf again until it works; the seconds go by, so that uploads at the     *)
(* same time do not have the same name for ever.  None for a fault.        *)
FairSpec ==
  /\ Spec
  /\ WF_vars(BuildStep)
  /\ \A c \in Client : WF_vars(ClientStep(c))

-----------------------------------------------------------------------------
TypeOK ==
  /\ config_file \in {None, Torn} \cup [config : Input, hash : Input]
  /\ login \in {"out", "ssh", "r2", "save", "write"} /\ typed \in Input \cup {None}
  /\ elf \in Elf /\ targz \in Archive /\ marker \in Elf \cup {None}
  /\ built # None => built.tar_gz \in Archive \ {None} /\ built.sha256 \in Elf
  /\ tmp \in [Name -> Archive]
  /\ \A c \in Client :
       /\ run[c].pc \in Pc
       /\ tar[c] # NoTar => tar[c].file \in Name /\ tar[c].archive \in Archive \ {None}
       /\ At(c, "tar") => tar[c] # NoTar
       /\ At(c, "tar") \/ At(c, "exec") => installed # None

(* The two constants embedded in gmf belong together, wherever an earlier  *)
(* build was interrupted, except that it left an archive without its       *)
(* marker and that archive is the one embedded (build.rs:57-65, 94-97).    *)
EmbeddedMatches ==
  [][built' # built => built'.tar_gz = built'.sha256 \/ unmarked]_vars

(* gmf never talks to a gmf-remote of another build or to a part of one,   *)
(* whatever an earlier run, killed at any step, left on the host: only     *)
(* another client that installs between the check and the start can put    *)
(* one there (client.rs:22-42).                                            *)
StartedIsEmbedded ==
  \A c \in Client :
    LET r == run[c] IN
      /\ r.pc = "started" /\ ~r.disturbed
      /\ r.program.tar_gz = r.program.sha256
      => r.started = r.program.sha256

(* "gmf get" never connects with a configuration that login has not tried  *)
(* with SSH and with R2: not with a file cut short, nor with one edited    *)
(* afterwards (config.rs:55).                                              *)
ConfigIsTested ==
  \A c \in Client :
    ~At(c, "out") => connect(run[c].config) /\ init_r2(run[c].config)

(* Whatever faults have left behind, a user who has a valid configuration  *)
(* gets gmf-remote started, again and again; the exceptions are a gmf with *)
(* a torn archive embedded and clients that disturb each other for ever.   *)
InstallHeals ==
  \/ []<>(\/ \E c \in Client : At(c, "started")
          \/ ~load_config
          \/ built # None /\ built.tar_gz = Torn)
  \/ []<>(\E c \in Client : run[c].disturbed)
=============================================================================

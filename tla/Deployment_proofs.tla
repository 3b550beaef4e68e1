--------------------------- MODULE Deployment_proofs ---------------------------
(***************************************************************************)
(* What gmf uploads and starts, for any number of builds, terminals and    *)
(* seconds: the two constants of a build belong together, only a tested    *)
(* configuration is used, and what runs in the end is what was embedded.   *)
(*                                                                         *)
(* The last follows a client that nobody disturbs from its upload to the   *)
(* start: its archive is the one it wrote or is gone, what tar unpacks is  *)
(* that archive, and what is installed stays its own.                      *)
(***************************************************************************)
EXTENDS Deployment, TLAPS

Built == [tar_gz : Archive, sha256 : Elf]
Installed == [elf : Archive, whole : BOOLEAN, by : Client \cup {None}]
Run ==
  [pc : Pc, config : Input \cup {None}, program : Built \cup {None},
   temp_file : Name \cup {None}, started : Archive, disturbed : BOOLEAN]
Process == [file : Name \cup {None}, archive : Archive]

(* The configuration: the hash in the file is that of a tested one.        *)
LoginOK ==
  /\ config_file \in {None, Torn} \cup [config : Input, hash : Input]
  /\ config_file \notin {None, Torn} => config_file.hash \in ValidInput
  /\ login \in {"out", "ssh", "r2", "save", "write"}
  /\ typed \in Input \cup {None}
  /\ login # "out" => typed \in Input
  /\ login \in {"r2", "save", "write"} => connect(typed)
  /\ login \in {"save", "write"} => init_r2(typed)

(* The build: the archive and its marker differ only from when one of them *)
(* is written until both are.                                              *)
BuildOK ==
  /\ elf \in Elf /\ targz \in Archive /\ marker \in Elf \cup {None}
  /\ build \in {"out", "targz", "write", "marker", "embed"}
  /\ built \in Built \cup {None}
  /\ built # None => built.tar_gz # None
  /\ build \in {"write", "marker", "embed"} => targz # None
  /\ unmarked \in BOOLEAN
  /\ ~unmarked /\ build \in {"out", "targz", "embed"} => targz = marker
  /\ ~unmarked /\ build = "embed" => targz = elf
  /\ build = "marker" => targz = elf

HostTypeOK ==
  /\ run \in [Client -> Run]
  /\ tmp \in [Name -> Archive]
  /\ installed \in Installed \cup {None}
  /\ installed # None => installed.elf # None
  /\ tar \in [Client -> Process]

ClientOK(c) ==
  /\ ~At(c, "out") =>
       /\ run[c].config \in ValidInput
       /\ run[c].program \in Built /\ run[c].program.tar_gz # None
  /\ run[c].pc \in {"open", "upload", "untar"} => run[c].temp_file \in Name
  /\ tar[c] # NoTar => /\ tar[c].file \in Name /\ tar[c].archive # None
                       /\ installed # None
  /\ At(c, "tar") => tar[c] # NoTar
  /\ At(c, "tar") \/ At(c, "exec") => installed # None

HostOK == HostTypeOK /\ \A c \in Client : ClientOK(c)

(* A client that nobody disturbs, with a gmf that was built as a whole.    *)
Undisturbed(c) ==
  /\ ~At(c, "out") /\ ~run[c].disturbed
  /\ run[c].program.tar_gz = run[c].program.sha256

FollowedAt(c) ==
  LET r == run[c] IN
    Undisturbed(c) =>
      /\ r.pc = "untar" => tmp[r.temp_file] \in {r.program.tar_gz, None}
      /\ r.pc = "tar" => /\ installed.elf = r.program.tar_gz /\ installed.by = c
                         /\ tar[c].archive = r.program.tar_gz
      /\ r.pc = "exec" => installed.whole /\ installed.elf = r.program.sha256
      /\ r.pc = "started" => r.started = r.program.sha256

Followed == \A c \in Client : FollowedAt(c)

IInv == LoginOK /\ BuildOK /\ HostOK

-----------------------------------------------------------------------------
(* login and the user's editor; nothing else writes the configuration.     *)
LEMMA LoginStepOK == LoginOK /\ [Next]_vars => LoginOK'
<1> SUFFICES ASSUME LoginOK, [Next]_vars PROVE LoginOK'
  OBVIOUS
<1> USE DEF LoginOK
<1>1. CASE Login
  BY <1>1 DEF Login
<1>2. CASE TestConnection
  BY <1>2 DEF TestConnection, Step, Out
<1>3. CASE save_config
  <2>1. CASE login = "save" /\ Step("write") /\ config_file' = Torn
    BY <2>1 DEF Step
  <2>2. CASE /\ login = "write" /\ Out
             /\ config_file' = [config |-> typed, hash |-> calculate_hash(typed)]
    <3>1. typed \in Input /\ typed \in ValidInput
      BY <2>2 DEF ValidInput
    <3> QED
      BY <2>2, <3>1 DEF Out, calculate_hash
  <2> QED
    BY <1>3, <2>1, <2>2 DEF save_config
<1>4. CASE LoginEnds
  BY <1>4 DEF LoginEnds, Out
<1>5. CASE EditConfig
  <2>1. PICK config \in Input : config_file' = [config_file EXCEPT !.config = config]
    BY <1>5 DEF EditConfig
  <2>2. /\ config_file \in [config : Input, hash : Input] /\ config_file.hash \in ValidInput
        /\ UNCHANGED <<login, typed>>
    BY <1>5 DEF EditConfig
  <2> QED
    BY <2>1, <2>2
<1>6. CASE UNCHANGED config_vars
  BY <1>6 DEF config_vars
<1> QED
  BY <1>1, <1>2, <1>3, <1>4, <1>5, <1>6
     DEF Next, LoginStep, UserFault, ChangeElf, BuildStep, Interrupted, ClientStep, get_config,
         Connect, check_remote, OpenTempFile, WriteTempFile, Untar, TarEnds, exec_interactive,
         Exit, OnlyRun, Lost, vars

(* What cargo embeds belongs together, at every step of build.rs.          *)
LEMMA BuildStepOK == BuildOK /\ [Next]_vars => BuildOK'
<1> SUFFICES ASSUME BuildOK, [Next]_vars PROVE BuildOK'
  OBVIOUS
<1> USE ArchiveAssumption DEF BuildOK, Archive, Built
<1>1. CASE ChangeElf
  BY <1>1 DEF ChangeElf
<1>2. CASE Build
  BY <1>2 DEF Build, UpToDate
<1>3. CASE WriteTargz
  BY <1>3 DEF WriteTargz
<1>4. CASE WriteMarker
  BY <1>4 DEF WriteMarker
<1>5. CASE Embed
  BY <1>5 DEF Embed
<1>6. CASE Interrupted
  BY <1>6 DEF Interrupted
<1>7. CASE UNCHANGED workspace
  BY <1>7 DEF workspace
<1> QED
  BY <1>1, <1>2, <1>3, <1>4, <1>5, <1>6, <1>7
     DEF Next, LoginStep, UserFault, BuildStep, ClientStep, get_config,
         Connect, check_remote, OpenTempFile, WriteTempFile, Untar, TarEnds, exec_interactive,
         Exit, OnlyRun, Lost, vars

(* The archive in gmf is that of the program whose SHA-256 is in it,       *)
(* however often the ELF file changes and wherever build.rs was            *)
(* interrupted, unless gmf embeds the very archive that a build left       *)
(* without its marker (build.rs:57-65, 94-97).                             *)
THEOREM EmbeddedIsOfOneBuild == Spec => EmbeddedMatches
<1>1. Init => BuildOK
  BY ArchiveAssumption DEF Init, BuildOK, Archive
<1>2. BuildOK /\ [Next]_vars =>
        [built' # built => built'.tar_gz = built'.sha256 \/ unmarked]_vars
  <2> SUFFICES ASSUME BuildOK, Next, built' # built, ~unmarked
               PROVE  built'.tar_gz = built'.sha256
    BY DEF vars, workspace
  <2>1. Embed
    BY DEF Next, LoginStep, UserFault, ChangeElf, BuildStep, Build, WriteTargz, WriteMarker,
           Interrupted, ClientStep, get_config, Connect, check_remote, OpenTempFile,
           WriteTempFile, Untar, TarEnds, exec_interactive, Exit, OnlyRun, Lost, workspace
  <2> QED
    BY <2>1 DEF Embed, BuildOK
<1> QED
  BY <1>1, <1>2, BuildStepOK, PTL DEF Spec, EmbeddedMatches

-----------------------------------------------------------------------------
(* A configuration that can be loaded was tested.                          *)
LEMMA LoadedIsTested ==
  ASSUME LoginOK, load_config
  PROVE  config_file.config \in ValidInput /\ config_file.config \in Input
<1>1. config_file \in [config : Input, hash : Input] /\ config_file.hash \in ValidInput
  BY DEF LoginOK, load_config
<1> QED
  BY <1>1 DEF load_config, calculate_hash

(* A client on the host disturbs the others and keeps what it knows.       *)
LEMMA Disturbing ==
  ASSUME run \in [Client -> Run], NEW c \in Client, NEW label \in Pc, GotoAndDisturb(c, label)
  PROVE  /\ run' \in [Client -> Run]
         /\ run'[c] = [run[c] EXCEPT !.pc = label]
         /\ \A d \in Client \ {c} : run'[d] = [run[d] EXCEPT !.disturbed = run[d].pc # "out"]
<1>1. \A d \in Client : Disturbed(run[d]) \in Run
  BY DEF Disturbed, Run
<1>2. [run[c] EXCEPT !.pc = label] \in Run
  BY DEF Run
<1>3. run' = [[d \in Client |-> Disturbed(run[d])] EXCEPT ![c] = [run[c] EXCEPT !.pc = label]]
  BY DEF GotoAndDisturb
<1> QED
  BY <1>1, <1>2, <1>3 DEF Disturbed

(* A step of one client changes its own record only.                       *)
LEMMA Going ==
  ASSUME run \in [Client -> Run], NEW c \in Client, NEW label \in Pc, Goto(c, label)
  PROVE  /\ run' \in [Client -> Run]
         /\ run'[c] = [run[c] EXCEPT !.pc = label]
         /\ \A d \in Client \ {c} : run'[d] = run[d]
<1>1. [run[c] EXCEPT !.pc = label] \in Run
  BY DEF Run
<1> QED
  BY <1>1 DEF Goto

(* So does its end.                                                        *)
LEMMA Leaving ==
  ASSUME run \in [Client -> Run], NEW c \in Client, Leave(c)
  PROVE  /\ run' \in [Client -> Run]
         /\ run'[c] = NotRunning /\ run'[c].pc = "out"
         /\ \A d \in Client \ {c} : run'[d] = run[d]
<1>1. NotRunning \in Run /\ NotRunning.pc = "out"
  BY DEF NotRunning, Run, Pc, Archive
<1> QED
  BY <1>1 DEF Leave

(* A client whose own step this is not.                                    *)
LEMMA Bystander ==
  ASSUME HostTypeOK, NEW d \in Client, ClientOK(d),
         \/ run'[d] = run[d]
         \/ run'[d] = [run[d] EXCEPT !.disturbed = run[d].pc # "out"],
         tar'[d] = tar[d] \/ (tar[d].file \in Name /\ tar'[d] = CutShort(tar[d])),
         installed # None => installed' # None
  PROVE  ClientOK(d)'
<1> USE DEF At
<1>1. run[d] \in Run /\ tar[d] \in Process
  BY DEF HostTypeOK
<1>2. /\ run'[d].pc = run[d].pc /\ run'[d].config = run[d].config
      /\ run'[d].program = run[d].program /\ run'[d].temp_file = run[d].temp_file
  BY <1>1 DEF Run
<1>3. CASE tar'[d] = tar[d]
  BY <1>2, <1>3 DEF ClientOK
<1>4. CASE tar[d].file \in Name /\ tar'[d] = CutShort(tar[d])
  <2>1. tar'[d].file = tar[d].file /\ tar'[d].archive = Torn
    BY <1>1, <1>4 DEF CutShort, Process
  <2>2. tar[d] # NoTar /\ tar'[d] # NoTar
    BY <1>4, <2>1, NameAssumption, ArchiveAssumption DEF NoTar
  <2> QED
    BY <1>2, <1>4, <2>1, <2>2, ArchiveAssumption DEF ClientOK
<1> QED
  BY <1>3, <1>4

(* Every client uses a tested configuration and a gmf that was built; what *)
(* it needs of the host is there.                                          *)
LEMMA HostStep == IInv /\ [Next]_vars => HostOK'
<1> SUFFICES ASSUME IInv, [Next]_vars PROVE HostOK'
  OBVIOUS
<1>0. /\ HostTypeOK /\ LoginOK /\ BuildOK
      /\ \A d \in Client : ClientOK(d) /\ run[d] \in Run /\ tar[d] \in Process
  BY DEF IInv, HostOK, HostTypeOK
<1> USE DEF HostTypeOK
<1>1. CASE UNCHANGED <<run, host>>
  BY <1>0, <1>1 DEF HostOK, ClientOK, At, host
<1>2. ASSUME NEW c \in Client, run' \in [Client -> Run], UNCHANGED host, ClientOK(c)',
             \A d \in Client \ {c} : run'[d] = run[d]
      PROVE  HostOK'
  <2>1. \A d \in Client \ {c} : ClientOK(d)'
    BY <1>0, <1>2, Bystander DEF host
  <2> QED
    BY <1>0, <1>2, <2>1 DEF HostOK, host
<1>3. ASSUME NEW c \in Client, get_config(c) PROVE HostOK'
  <2>1. /\ run' = [run EXCEPT ![c].pc = "connect", ![c].program = built,
                              ![c].config = config_file.config]
        /\ built # None /\ UNCHANGED host /\ load_config
    BY <1>3 DEF get_config, OnlyRun
  <2>2. config_file.config \in ValidInput /\ config_file.config \in Input
    BY <1>0, <2>1, LoadedIsTested
  <2>3. built \in Built /\ built.tar_gz # None
    BY <1>0, <2>1 DEF BuildOK
  <2>4. /\ run'[c].pc = "connect" /\ run'[c].program = built
        /\ run'[c].config = config_file.config
        /\ \A d \in Client \ {c} : run'[d] = run[d]
        /\ run' \in [Client -> Run]
    <3> DEFINE r == [run[c] EXCEPT !.pc = "connect", !.program = built,
                                   !.config = config_file.config]
    <3>1. /\ r \in Run /\ r.pc = "connect" /\ r.program = built
          /\ r.config = config_file.config
      BY <1>0, <2>2, <2>3 DEF Run, Pc
    <3>2. run' = [run EXCEPT ![c] = r]
      BY <1>0, <2>1
    <3> HIDE DEF r
    <3> QED
      BY <1>0, <3>1, <3>2
  <2>5. ClientOK(c)'
    BY <1>0, <2>1, <2>2, <2>3, <2>4 DEF ClientOK, At, host
  <2> QED
    BY <1>2, <2>1, <2>4, <2>5
<1>4. ASSUME NEW c \in Client, Connect(c) PROVE HostOK'
  <2>1. UNCHANGED host /\ At(c, "connect") /\ (Goto(c, "check") \/ Leave(c))
    BY <1>4 DEF Connect, OnlyRun
  <2>2. CASE Goto(c, "check")
    <3>1. /\ run' \in [Client -> Run] /\ run'[c] = [run[c] EXCEPT !.pc = "check"]
          /\ \A d \in Client \ {c} : run'[d] = run[d]
      BY <1>0, <2>2, Going DEF Pc
    <3>2. /\ run'[c].pc = "check" /\ run'[c].config = run[c].config
          /\ run'[c].program = run[c].program
      BY <1>0, <3>1 DEF Run
    <3>3. ClientOK(c)'
      BY <1>0, <2>1, <3>2 DEF ClientOK, At, host
    <3> QED
      BY <1>2, <2>1, <3>1, <3>3
  <2>3. CASE Leave(c)
    <3>1. /\ run' \in [Client -> Run] /\ run'[c].pc = "out"
          /\ \A d \in Client \ {c} : run'[d] = run[d]
      BY <1>0, <2>3, Leaving
    <3>2. ClientOK(c)'
      BY <1>0, <2>1, <3>1 DEF ClientOK, At, host
    <3> QED
      BY <1>2, <2>1, <3>1, <3>2
  <2> QED
    BY <2>1, <2>2, <2>3
<1>5. ASSUME NEW c \in Client, check_remote(c) PROVE HostOK'
  <2>1. UNCHANGED host /\ At(c, "check")
    BY <1>5 DEF check_remote, OnlyRun
  <2>2. CASE \E n \in Name :
               run' = [run EXCEPT ![c].pc = "open", ![c].temp_file = n, ![c].disturbed = FALSE]
    <3>1. PICK n \in Name :
            run' = [run EXCEPT ![c].pc = "open", ![c].temp_file = n, ![c].disturbed = FALSE]
      BY <2>2
    <3>2. /\ run' \in [Client -> Run] /\ \A d \in Client \ {c} : run'[d] = run[d]
          /\ run'[c].pc = "open" /\ run'[c].temp_file = n
          /\ run'[c].config = run[c].config /\ run'[c].program = run[c].program
      BY <1>0, <3>1 DEF Run, Pc
    <3>3. ClientOK(c)'
      BY <1>0, <2>1, <3>2 DEF ClientOK, At, host
    <3> QED
      BY <1>2, <2>1, <3>2, <3>3
  <2>3. CASE /\ run' = [run EXCEPT ![c].pc = "exec", ![c].disturbed = FALSE]
             /\ ~NeedsInstall(c)
    <3>1. /\ run' \in [Client -> Run] /\ \A d \in Client \ {c} : run'[d] = run[d]
          /\ run'[c].pc = "exec"
          /\ run'[c].config = run[c].config /\ run'[c].program = run[c].program
      BY <1>0, <2>3 DEF Run, Pc
    <3>2. installed # None
      BY <2>3 DEF NeedsInstall
    <3>3. ClientOK(c)'
      BY <1>0, <2>1, <3>1, <3>2 DEF ClientOK, At, host
    <3> QED
      BY <1>2, <2>1, <3>1, <3>3
  <2> QED
    BY <1>5, <2>2, <2>3 DEF check_remote
<1>6. ASSUME NEW c \in Client, NEW label \in Pc, GotoAndDisturb(c, label),
             tmp' \in [Name -> Archive], installed' \in Installed \cup {None},
             installed' # None => installed'.elf # None, installed # None => installed' # None,
             tar' \in [Client -> Process], ~At(c, "out"),
             label \in {"upload", "untar"} => run[c].temp_file \in Name,
             label = "tar" => installed' # None /\ tar'[c] # NoTar, label # "exec",
             tar'[c] # NoTar =>
               tar'[c].file \in Name /\ tar'[c].archive # None /\ installed' # None,
             label # "open",
             \A d \in Client \ {c} :
               tar'[d] = tar[d] \/ (tar[d].file \in Name /\ tar'[d] = CutShort(tar[d]))
      PROVE  HostOK'
  <2>1. /\ run' \in [Client -> Run] /\ run'[c] = [run[c] EXCEPT !.pc = label]
        /\ \A d \in Client \ {c} : run'[d] = [run[d] EXCEPT !.disturbed = run[d].pc # "out"]
    BY <1>0, <1>6, Disturbing
  <2>2. \A d \in Client \ {c} : ClientOK(d)'
    BY <1>0, <1>6, <2>1, Bystander
  <2>3. /\ run'[c].pc = label /\ run'[c].config = run[c].config
        /\ run'[c].program = run[c].program /\ run'[c].temp_file = run[c].temp_file
    BY <1>0, <2>1 DEF Run
  <2>4. ClientOK(c)'
    BY <1>0, <1>6, <2>3 DEF ClientOK, At
  <2> QED
    BY <1>6, <2>1, <2>2, <2>4 DEF HostOK
<1>7. ASSUME NEW c \in Client, OpenTempFile(c) PROVE HostOK'
  <2> DEFINE file == run[c].temp_file
  <2>1. /\ At(c, "open") /\ GotoAndDisturb(c, "upload") /\ tmp' = [tmp EXCEPT ![file] = Torn]
        /\ tar' = [d \in Client |-> IF tar[d].file = file THEN CutShort(tar[d]) ELSE tar[d]]
        /\ installed' = installed
    BY <1>7 DEF OpenTempFile
  <2>2. file \in Name
    BY <1>0, <2>1 DEF ClientOK, At
  <2>3. \A d \in Client : CutShort(tar[d]) \in Process
    BY <1>0 DEF CutShort, Process, Archive
  <2>4. tar' \in [Client -> Process] /\ tmp' \in [Name -> Archive]
    BY <1>0, <2>1, <2>3 DEF Archive
  <2>5. \A d \in Client :
          tar'[d] = tar[d] \/ (tar[d].file \in Name /\ tar'[d] = CutShort(tar[d]))
    BY <2>1, <2>2
  <2>6. tar'[c] # NoTar =>
          tar'[c].file \in Name /\ tar'[c].archive # None /\ installed' # None
    <3>1. CutShort(tar[c]).file = tar[c].file /\ CutShort(tar[c]).archive = Torn
      BY <1>0 DEF CutShort, Process
    <3> QED
      BY <1>0, <2>1, <2>2, <2>5, <3>1, NameAssumption, ArchiveAssumption DEF ClientOK, NoTar
  <2>7. "upload" \in Pc /\ ~At(c, "out")
    BY <2>1 DEF Pc, At
  <2> HIDE DEF file
  <2> QED
    BY <1>0, <1>6, <2>1, <2>2, <2>4, <2>5, <2>6, <2>7 DEF file
<1>8. ASSUME NEW c \in Client, WriteTempFile(c) PROVE HostOK'
  <2>1. /\ At(c, "upload") /\ GotoAndDisturb(c, "untar")
        /\ tmp' = [tmp EXCEPT ![run[c].temp_file] = run[c].program.tar_gz]
        /\ installed' = installed /\ tar' = tar
    BY <1>8 DEF WriteTempFile
  <2>2. run[c].temp_file \in Name /\ run[c].program \in Built
    BY <1>0, <2>1 DEF ClientOK, At
  <2>3. tmp' \in [Name -> Archive]
    BY <1>0, <2>1, <2>2 DEF Built
  <2>4. "untar" \in Pc /\ ~At(c, "out")
    BY <2>1 DEF Pc, At
  <2>5. tar'[c] # NoTar =>
          tar'[c].file \in Name /\ tar'[c].archive # None /\ installed' # None
    BY <1>0, <2>1 DEF ClientOK
  <2> QED
    BY <1>0, <1>6, <2>1, <2>2, <2>3, <2>4, <2>5
<1>9. ASSUME NEW c \in Client, Untar(c) PROVE HostOK'
  <2> DEFINE file == run[c].temp_file
  <2>1. At(c, "untar") /\ UNCHANGED tmp /\ file \in Name
    BY <1>0, <1>9 DEF Untar, ClientOK, At
  <2>2. CASE tmp[file] = None
    <3>1. Leave(c) /\ UNCHANGED host
      BY <1>9, <2>2 DEF Untar, host
    <3>2. /\ run' \in [Client -> Run] /\ run'[c].pc = "out"
          /\ \A d \in Client \ {c} : run'[d] = run[d]
      BY <1>0, <3>1, Leaving
    <3>3. ClientOK(c)'
      BY <1>0, <3>1, <3>2 DEF ClientOK, At, host
    <3> QED
      BY <1>2, <3>1, <3>2, <3>3
  <2>3. CASE tmp[file] # None
    <3>1. /\ GotoAndDisturb(c, "tar") /\ installed' = Replace(c, tmp[file])
          /\ tar' = [tar EXCEPT ![c] = [file |-> file, archive |-> tmp[file]]]
      BY <1>9, <2>3 DEF Untar
    <3>2. tmp[file] \in Archive
      BY <1>0, <2>1
    <3>3. installed' \in Installed /\ installed'.elf # None
      BY <2>3, <3>1, <3>2 DEF Replace, Installed
    <3>4. installed' # None
      BY <3>3, ArchiveAssumption DEF Installed
    <3>5. [file |-> file, archive |-> tmp[file]] \in Process
      BY <2>1, <3>2 DEF Process
    <3>6. /\ tar' \in [Client -> Process] /\ tar'[c].file = file /\ tar'[c].archive = tmp[file]
          /\ \A d \in Client \ {c} : tar'[d] = tar[d]
      BY <1>0, <3>1, <3>5
    <3>7. tar'[c] # NoTar
      BY <2>3, <3>6 DEF NoTar
    <3>8. "tar" \in Pc /\ ~At(c, "out")
      BY <2>1 DEF Pc, At
    <3>9. tmp' \in [Name -> Archive]
      BY <1>0, <2>1
    <3> HIDE DEF file
    <3> QED
      BY <1>6, <2>1, <2>3, <3>1, <3>3, <3>4, <3>6, <3>7, <3>8, <3>9
  <2> QED
    BY <2>2, <2>3
<1>10. ASSUME NEW c \in Client, TarEnds(c) PROVE HostOK'
  <2> DEFINE file == tar[c].file
             complete == tar[c].archive # Torn
  <2>1. /\ tar[c] # NoTar /\ tar' = [tar EXCEPT ![c] = NoTar]
        /\ tmp' = IF complete THEN [tmp EXCEPT ![file] = None] ELSE tmp
        /\ installed' = IF complete /\ installed.by = c
                          THEN [installed EXCEPT !.whole = TRUE] ELSE installed
    BY <1>10 DEF TarEnds
  <2>2. NoTar \in Process /\ NoTar.archive = None
    BY DEF NoTar, Process, Archive
  <2>3. /\ tar' \in [Client -> Process] /\ tar'[c] = NoTar
        /\ \A d \in Client \ {c} : tar'[d] = tar[d]
    BY <1>0, <2>1, <2>2
  <2>4. tmp' \in [Name -> Archive]
    BY <1>0, <2>1 DEF Archive
  <2>5. /\ installed' \in Installed \cup {None} /\ (installed # None => installed' # None)
        /\ installed' # None => installed'.elf # None
    <3>0. installed \in Installed /\ installed.elf # None
      BY <1>0, <2>1 DEF ClientOK
    <3>1. CASE installed' = installed
      BY <1>0, <3>1
    <3>2. CASE installed' = [installed EXCEPT !.whole = TRUE]
      <4>1. installed' \in Installed /\ installed'.elf = installed.elf
        BY <3>0, <3>2 DEF Installed
      <4> QED
        BY <3>0, <4>1, ArchiveAssumption DEF Installed
    <3> QED
      BY <2>1, <3>1, <3>2
  <2>6. \/ At(c, "tar") /\ complete /\ tmp[file] # None /\ Goto(c, "exec")
        \/ At(c, "tar") /\ Leave(c)
        \/ ~At(c, "tar") /\ UNCHANGED run
    BY <1>10 DEF TarEnds
  <2>7. /\ run' \in [Client -> Run] /\ \A d \in Client \ {c} : run'[d] = run[d]
        /\ ClientOK(c)'
    <3>0. installed' # None
      BY <1>0, <2>1, <2>5 DEF ClientOK
    <3>1. CASE At(c, "tar") /\ Goto(c, "exec")
      <4>1. /\ run' \in [Client -> Run] /\ run'[c] = [run[c] EXCEPT !.pc = "exec"]
            /\ \A d \in Client \ {c} : run'[d] = run[d]
        BY <1>0, <3>1, Going DEF Pc
      <4>2. /\ run'[c].pc = "exec" /\ run'[c].config = run[c].config
            /\ run'[c].program = run[c].program
        BY <1>0, <4>1 DEF Run
      <4> QED
        BY <1>0, <2>3, <3>0, <3>1, <4>1, <4>2 DEF ClientOK, At
    <3>2. CASE Leave(c)
      <4>1. /\ run' \in [Client -> Run] /\ run'[c].pc = "out"
            /\ \A d \in Client \ {c} : run'[d] = run[d]
        BY <1>0, <3>2, Leaving
      <4> QED
        BY <2>3, <4>1 DEF ClientOK, At
    <3>3. CASE ~At(c, "tar") /\ UNCHANGED run
      BY <1>0, <2>3, <3>0, <3>3 DEF ClientOK, At
    <3> QED
      BY <2>6, <3>1, <3>2, <3>3
  <2>8. \A d \in Client \ {c} : ClientOK(d)'
    BY <1>0, <2>3, <2>5, <2>7, Bystander
  <2> HIDE DEF file, complete
  <2> QED
    BY <2>3, <2>4, <2>5, <2>7, <2>8 DEF HostOK
<1>11. ASSUME NEW c \in Client, exec_interactive(c) PROVE HostOK'
  <2>1. /\ At(c, "exec") /\ UNCHANGED host
        /\ run' = [run EXCEPT ![c].pc = "started",
                              ![c].started = IF installed.whole THEN installed.elf ELSE Torn]
    BY <1>11 DEF exec_interactive, OnlyRun
  <2>2. (IF installed.whole THEN installed.elf ELSE Torn) \in Archive
    BY <1>0, <2>1 DEF ClientOK, Installed, Archive
  <2>3. /\ run' \in [Client -> Run] /\ \A d \in Client \ {c} : run'[d] = run[d]
        /\ run'[c].pc = "started"
        /\ run'[c].config = run[c].config /\ run'[c].program = run[c].program
    <3> DEFINE now == IF installed.whole THEN installed.elf ELSE Torn
               r == [run[c] EXCEPT !.pc = "started", !.started = now]
    <3>1. now \in Archive
      BY <2>2
    <3> HIDE DEF now
    <3>2. /\ r \in Run /\ r.pc = "started" /\ r.program = run[c].program
          /\ r.config = run[c].config
      BY <1>0, <3>1 DEF Run, Pc
    <3>3. run' = [run EXCEPT ![c] = r]
      BY <1>0, <2>1 DEF now
    <3> HIDE DEF r
    <3> QED
      BY <1>0, <3>2, <3>3
  <2>4. ClientOK(c)'
    BY <1>0, <2>1, <2>3 DEF ClientOK, At, host
  <2> QED
    BY <1>2, <2>1, <2>3, <2>4
<1>12. ASSUME NEW c \in Client, Exit(c) \/ Lost(c) PROVE HostOK'
  <2>1. /\ Leave(c) /\ UNCHANGED <<tmp, installed>>
        /\ tar' = tar \/ tar' = [tar EXCEPT ![c] = NoTar]
    BY <1>12 DEF Exit, Lost, OnlyRun, host
  <2>2. NoTar \in Process
    BY DEF NoTar, Process, Archive
  <2>3. /\ tar' \in [Client -> Process] /\ tar'[c] \in {tar[c], NoTar}
        /\ \A d \in Client \ {c} : tar'[d] = tar[d]
    BY <1>0, <2>1, <2>2
  <2>4. /\ run' \in [Client -> Run] /\ run'[c].pc = "out"
        /\ \A d \in Client \ {c} : run'[d] = run[d]
    BY <1>0, <2>1, Leaving
  <2>5. ClientOK(c)'
    BY <1>0, <2>1, <2>3, <2>4 DEF ClientOK, At
  <2>6. \A d \in Client \ {c} : ClientOK(d)'
    BY <1>0, <2>1, <2>3, <2>4, Bystander
  <2> QED
    BY <1>0, <2>1, <2>3, <2>4, <2>5, <2>6 DEF HostOK
<1> QED
  BY <1>1, <1>3, <1>4, <1>5, <1>7, <1>8, <1>9, <1>10, <1>11, <1>12
     DEF Next, LoginStep, UserFault, ChangeElf, BuildStep, Interrupted, ClientStep, vars

(* At first nothing is built, installed or configured.                     *)
LEMMA IInvInit == Init => IInv
<1> SUFFICES ASSUME Init PROVE IInv
  OBVIOUS
<1>1. LoginOK
  BY DEF Init, ConfigInit, LoginOK, ValidInput, calculate_hash
<1>2. BuildOK
  BY ArchiveAssumption DEF Init, BuildOK, Archive
<1>3. HostTypeOK
  <2>1. NotRunning \in Run /\ NoTar \in Process
    BY DEF NotRunning, Run, NoTar, Process, Pc, Archive
  <2>2. installed \in Installed \cup {None} /\ (installed # None => installed.elf # None)
    <3>1. CASE installed = None
      BY <3>1
    <3>2. CASE \E e \in Elf : installed = [elf |-> e, whole |-> TRUE, by |-> None]
      BY <3>2, ArchiveAssumption DEF Installed, Archive
    <3> QED
      BY <3>1, <3>2 DEF Init
  <2> QED
    BY <2>1, <2>2 DEF Init, HostTypeOK, Archive
<1>4. \A c \in Client : run[c].pc = "out" /\ tar[c] = NoTar
  BY DEF Init, NotRunning
<1> QED
  BY <1>1, <1>2, <1>3, <1>4 DEF IInv, HostOK, ClientOK, At

(* The files, the configuration and the clients, through every step.       *)
LEMMA IInvStep == IInv /\ [Next]_vars => IInv'
  BY LoginStepOK, BuildStepOK, HostStep DEF IInv

(* The files of the workspace and of the host, and what each client knows. *)
THEOREM TypeCorrectness == Spec => []TypeOK
<1>1. IInv => TypeOK
  <2> SUFFICES ASSUME IInv PROVE TypeOK
    OBVIOUS
  <2>1. built # None => built.tar_gz \in Archive \ {None} /\ built.sha256 \in Elf
    BY DEF IInv, BuildOK, Built
  <2>2. \A c \in Client : run[c].pc \in Pc
    BY DEF IInv, HostOK, HostTypeOK, Run
  <2>3. \A c \in Client : tar[c] # NoTar => tar[c].file \in Name /\ tar[c].archive \in Archive \ {None}
    BY DEF IInv, HostOK, HostTypeOK, Process, ClientOK
  <2> QED
    BY <2>1, <2>2, <2>3 DEF TypeOK, IInv, LoginOK, BuildOK, HostOK, HostTypeOK, ClientOK
<1> QED
  BY <1>1, IInvInit, IInvStep, PTL DEF Spec

(* "gmf get" connects only with a configuration that login has tried with  *)
(* SSH and with R2, whatever was typed, interrupted or edited.             *)
THEOREM OnlyTestedConfigs == Spec => []ConfigIsTested
<1>1. IInv => ConfigIsTested
  BY DEF IInv, HostOK, ClientOK, ConfigIsTested, ValidInput
<1> QED
  BY <1>1, IInvInit, IInvStep, PTL DEF Spec

-----------------------------------------------------------------------------
(* A client whose run and whose place on the host stay as they are.        *)
LEMMA LeftAlone ==
  ASSUME NEW d \in Client, FollowedAt(d), run'[d] = run[d],
         ~At(d, "tar") \/ tar'[d] = tar[d],
         \A n \in Name : tmp'[n] = tmp[n] \/ tmp'[n] = None,
         run[d].pc = "untar" => run[d].temp_file \in Name,
         installed'.elf = installed.elf, installed'.by = installed.by,
         installed'.whole = installed.whole \/ installed'.whole = TRUE
  PROVE  FollowedAt(d)'
<1> USE DEF FollowedAt, Undisturbed, At
<1>1. CASE run[d].pc = "untar"
  BY <1>1
<1>2. CASE run[d].pc = "tar"
  BY <1>2
<1>3. CASE run[d].pc = "exec"
  BY <1>3
<1> QED
  BY <1>1, <1>2, <1>3

(* One that has just been disturbed is not followed.                       *)
LEMMA NoLongerFollowed ==
  ASSUME run \in [Client -> Run], NEW c \in Client, NEW label \in Pc, GotoAndDisturb(c, label),
         NEW d \in Client \ {c}
  PROVE  FollowedAt(d)'
<1>1. run'[d] = [run[d] EXCEPT !.disturbed = run[d].pc # "out"] /\ run[d] \in Run
  BY Disturbing
<1>2. run'[d].pc = run[d].pc /\ run'[d].disturbed = (run[d].pc # "out")
  BY <1>1 DEF Run
<1>3. ~Undisturbed(d)'
  BY <1>2 DEF Undisturbed, At
<1> QED
  BY <1>3 DEF FollowedAt

(* What a client that is not disturbed finds on the host is its own.       *)
LEMMA FollowedStep == IInv /\ Followed /\ [Next]_vars => Followed'
<1> SUFFICES ASSUME IInv, Followed, [Next]_vars PROVE Followed'
  OBVIOUS
<1>0. /\ run \in [Client -> Run] /\ tmp \in [Name -> Archive]
      /\ \A d \in Client : ClientOK(d) /\ run[d] \in Run /\ tar[d] \in Process /\ FollowedAt(d)
      /\ tar \in [Client -> Process]
      /\ \A d \in Client : run[d].pc = "untar" => run[d].temp_file \in Name
  BY DEF IInv, HostOK, HostTypeOK, ClientOK, Followed
<1>1. CASE UNCHANGED <<run, host>>
  BY <1>1 DEF Followed, FollowedAt, Undisturbed, At, host
<1>2. ASSUME NEW c \in Client, UNCHANGED host, \A d \in Client \ {c} : run'[d] = run[d],
             FollowedAt(c)'
      PROVE  Followed'
  <2>1. \A d \in Client \ {c} : FollowedAt(d)'
    BY <1>0, <1>2, LeftAlone DEF host
  <2> QED
    BY <1>2, <2>1 DEF Followed
<1>3. ASSUME NEW c \in Client, run'[c].pc \in {"out", "connect", "check", "open", "upload"}
      PROVE  FollowedAt(c)'
  BY <1>3 DEF FollowedAt
<1>4. ASSUME NEW c \in Client, get_config(c) \/ Connect(c) PROVE Followed'
  <2>1. /\ UNCHANGED host /\ \A d \in Client \ {c} : run'[d] = run[d]
        /\ run'[c].pc \in {"out", "connect", "check"}
    <3>1. CASE get_config(c)
      BY <1>0, <3>1 DEF get_config, OnlyRun, Run
    <3>2. CASE Goto(c, "check") /\ UNCHANGED host
      <4>1. run'[c] = [run[c] EXCEPT !.pc = "check"] /\ \A d \in Client \ {c} : run'[d] = run[d]
        BY <1>0, <3>2, Going DEF Pc
      <4> QED
        BY <1>0, <3>2, <4>1 DEF Run
    <3>3. CASE Leave(c) /\ UNCHANGED host
      BY <1>0, <3>3, Leaving
    <3> QED
      BY <1>4, <3>1, <3>2, <3>3 DEF Connect, OnlyRun
  <2> QED
    BY <1>2, <1>3, <2>1
<1>5. ASSUME NEW c \in Client, check_remote(c) PROVE Followed'
  <2>1. UNCHANGED host
    BY <1>5 DEF check_remote, OnlyRun
  <2>2. CASE \E n \in Name :
               run' = [run EXCEPT ![c].pc = "open", ![c].temp_file = n, ![c].disturbed = FALSE]
    <3>1. run'[c].pc = "open" /\ \A d \in Client \ {c} : run'[d] = run[d]
      BY <1>0, <2>2 DEF Run
    <3> QED
      BY <1>2, <1>3, <2>1, <3>1
  <2>3. CASE /\ run' = [run EXCEPT ![c].pc = "exec", ![c].disturbed = FALSE]
             /\ ~NeedsInstall(c)
    <3>1. /\ \A d \in Client \ {c} : run'[d] = run[d]
          /\ run'[c].pc = "exec" /\ run'[c].program = run[c].program
      BY <1>0, <2>3 DEF Run
    <3>2. installed.whole /\ installed.elf = run[c].program.sha256
      BY <2>3 DEF NeedsInstall, Differs
    <3>3. FollowedAt(c)'
      BY <2>1, <3>1, <3>2 DEF FollowedAt, host
    <3> QED
      BY <1>2, <2>1, <3>1, <3>3
  <2> QED
    BY <1>5, <2>2, <2>3 DEF check_remote
<1>6. ASSUME NEW c \in Client, NEW label \in Pc, GotoAndDisturb(c, label), FollowedAt(c)'
      PROVE  Followed'
  BY <1>0, <1>6, NoLongerFollowed DEF Followed
<1>7. ASSUME NEW c \in Client, OpenTempFile(c) PROVE Followed'
  <2>1. GotoAndDisturb(c, "upload") /\ "upload" \in Pc
    BY <1>7 DEF OpenTempFile, Pc
  <2>2. run'[c] = [run[c] EXCEPT !.pc = "upload"]
    BY <1>0, <2>1, Disturbing
  <2>3. run'[c].pc = "upload"
    BY <1>0, <2>2 DEF Run
  <2> QED
    BY <1>3, <1>6, <2>1, <2>3
<1>8. ASSUME NEW c \in Client, WriteTempFile(c) PROVE Followed'
  <2>1. /\ GotoAndDisturb(c, "untar") /\ "untar" \in Pc /\ At(c, "upload")
        /\ tmp' = [tmp EXCEPT ![run[c].temp_file] = run[c].program.tar_gz]
    BY <1>8 DEF WriteTempFile, Pc
  <2>2. run'[c] = [run[c] EXCEPT !.pc = "untar"]
    BY <1>0, <2>1, Disturbing
  <2>3. /\ run'[c].pc = "untar" /\ run'[c].program = run[c].program
        /\ run'[c].temp_file = run[c].temp_file
    BY <1>0, <2>2 DEF Run
  <2>4. run[c].temp_file \in Name
    BY <1>0, <2>1 DEF ClientOK, At
  <2>5. tmp'[run'[c].temp_file] = run'[c].program.tar_gz
    BY <1>0, <2>1, <2>3, <2>4
  <2>6. FollowedAt(c)'
    BY <2>3, <2>5 DEF FollowedAt
  <2> QED
    BY <1>6, <2>1, <2>6
<1>9. ASSUME NEW c \in Client, Untar(c) PROVE Followed'
  <2> DEFINE archive == tmp[run[c].temp_file]
  <2>1. CASE Leave(c) /\ UNCHANGED host
    <3>1. run'[c].pc = "out" /\ \A d \in Client \ {c} : run'[d] = run[d]
      BY <1>0, <2>1, Leaving
    <3> QED
      BY <1>2, <1>3, <2>1, <3>1
  <2>2. CASE /\ GotoAndDisturb(c, "tar") /\ installed' = Replace(c, archive)
             /\ tar' = [tar EXCEPT ![c] = [file |-> run[c].temp_file, archive |-> archive]]
             /\ At(c, "untar") /\ archive # None
    <3>1. run'[c] = [run[c] EXCEPT !.pc = "tar"] /\ "tar" \in Pc
      BY <1>0, <2>2, Disturbing DEF Pc
    <3>2. /\ run'[c].pc = "tar" /\ run'[c].program = run[c].program
          /\ run'[c].disturbed = run[c].disturbed
      BY <1>0, <3>1 DEF Run
    <3>3. Undisturbed(c)' => archive = run[c].program.tar_gz
      BY <1>0, <2>2, <3>2 DEF FollowedAt, Undisturbed, At
    <3>4. installed'.elf = archive /\ installed'.by = c /\ tar'[c].archive = archive
      BY <1>0, <2>2 DEF Replace
    <3>5. FollowedAt(c)'
      BY <3>2, <3>3, <3>4 DEF FollowedAt
    <3> QED
      BY <1>6, <2>2, <3>1, <3>5
  <2> QED
    BY <1>9, <2>1, <2>2 DEF Untar, host
<1>10. ASSUME NEW c \in Client, TarEnds(c) PROVE Followed'
  <2> DEFINE file == tar[c].file
             complete == tar[c].archive # Torn
  <2>1. /\ tar[c] # NoTar /\ tar' = [tar EXCEPT ![c] = NoTar]
        /\ tmp' = IF complete THEN [tmp EXCEPT ![file] = None] ELSE tmp
        /\ installed' = IF complete /\ installed.by = c
                          THEN [installed EXCEPT !.whole = TRUE] ELSE installed
        /\ \/ At(c, "tar") /\ complete /\ tmp[file] # None /\ Goto(c, "exec")
           \/ At(c, "tar") /\ Leave(c)
           \/ ~At(c, "tar") /\ UNCHANGED run
    BY <1>10 DEF TarEnds
  <2>2. \A n \in Name : tmp'[n] = tmp[n] \/ tmp'[n] = None
    BY <1>0, <2>1
  <2>3. installed \in Installed
    BY <1>0, <2>1 DEF ClientOK, IInv, HostOK, HostTypeOK
  <2>4. /\ installed'.elf = installed.elf /\ installed'.by = installed.by
        /\ installed'.whole = installed.whole \/ installed'.whole = TRUE
        /\ complete /\ installed.by = c => installed'.whole = TRUE
    BY <2>1, <2>3 DEF Installed
  <2>5. \A d \in Client \ {c} : run'[d] = run[d] /\ tar'[d] = tar[d]
    BY <1>0, <2>1, Going, Leaving DEF Pc
  <2>6. \A d \in Client \ {c} : FollowedAt(d)'
    BY <1>0, <2>2, <2>4, <2>5, LeftAlone
  <2>7. FollowedAt(c)'
    <3>1. CASE At(c, "tar") /\ complete /\ Goto(c, "exec")
      <4>1. run'[c] = [run[c] EXCEPT !.pc = "exec"]
        BY <1>0, <3>1, Going DEF Pc
      <4>2. /\ run'[c].pc = "exec" /\ run'[c].program = run[c].program
            /\ run'[c].disturbed = run[c].disturbed
        BY <1>0, <4>1 DEF Run
      <4>3. Undisturbed(c)' =>
              installed.elf = run[c].program.tar_gz /\ installed.by = c
              /\ run[c].program.tar_gz = run[c].program.sha256
        BY <1>0, <3>1, <4>2 DEF FollowedAt, Undisturbed, At
      <4>4. Undisturbed(c)' => installed'.whole /\ installed'.elf = run'[c].program.sha256
        BY <2>4, <3>1, <4>2, <4>3
      <4> QED
        BY <4>2, <4>4 DEF FollowedAt
    <3>2. CASE Leave(c)
      <4>1. run'[c].pc = "out"
        BY <1>0, <3>2, Leaving
      <4> QED
        BY <1>3, <4>1
    <3>3. CASE ~At(c, "tar") /\ UNCHANGED run
      BY <1>0, <2>2, <2>4, <3>3, LeftAlone
    <3> QED
      BY <2>1, <3>1, <3>2, <3>3
  <2> QED
    BY <2>6, <2>7 DEF Followed
<1>11. ASSUME NEW c \in Client, exec_interactive(c) PROVE Followed'
  <2> DEFINE now == IF installed.whole THEN installed.elf ELSE Torn
  <2>1. /\ At(c, "exec") /\ UNCHANGED host
        /\ run' = [run EXCEPT ![c].pc = "started", ![c].started = now]
    BY <1>11 DEF exec_interactive, OnlyRun
  <2>2. /\ \A d \in Client \ {c} : run'[d] = run[d]
        /\ run'[c].pc = "started" /\ run'[c].started = now
        /\ run'[c].program = run[c].program /\ run'[c].disturbed = run[c].disturbed
    <3> HIDE DEF now
    <3> QED
      BY <1>0, <2>1 DEF Run
  <2>3. Undisturbed(c)' => now = run[c].program.sha256
    BY <1>0, <2>1, <2>2 DEF FollowedAt, Undisturbed, At
  <2>4. FollowedAt(c)'
    BY <2>2, <2>3 DEF FollowedAt
  <2> QED
    BY <1>2, <2>1, <2>2, <2>4
<1>12. ASSUME NEW c \in Client, Exit(c) \/ Lost(c) PROVE Followed'
  <2>1. /\ Leave(c) /\ UNCHANGED <<tmp, installed>>
        /\ tar' = tar \/ tar' = [tar EXCEPT ![c] = NoTar]
    BY <1>12 DEF Exit, Lost, OnlyRun, host
  <2>2. run'[c].pc = "out" /\ \A d \in Client \ {c} : run'[d] = run[d] /\ tar'[d] = tar[d]
    BY <1>0, <2>1, Leaving
  <2>3. \A d \in Client \ {c} : FollowedAt(d)'
    BY <1>0, <2>1, <2>2, LeftAlone
  <2> QED
    BY <1>3, <2>2, <2>3 DEF Followed
<1> QED
  BY <1>1, <1>4, <1>5, <1>7, <1>8, <1>9, <1>10, <1>11, <1>12
     DEF Next, LoginStep, UserFault, ChangeElf, BuildStep, Interrupted, ClientStep, vars

(* gmf starts the gmf-remote it was built with and the whole of it, unless *)
(* another client installs between its check and its start: whatever       *)
(* earlier runs left on the host, and wherever they were killed.           *)
THEOREM StartedAsEmbedded == Spec => []StartedIsEmbedded
<1>1. Init => Followed
  BY DEF Init, NotRunning, Followed, FollowedAt, Undisturbed, At
<1>2. Followed => StartedIsEmbedded
  BY DEF Followed, FollowedAt, Undisturbed, StartedIsEmbedded, At
<1> QED
  BY <1>1, <1>2, IInvInit, IInvStep, FollowedStep, PTL DEF Spec
=============================================================================

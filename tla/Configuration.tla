---------------------------- MODULE Configuration ----------------------------
(***************************************************************************)
(* "gmf login" and the configuration file (gmf/src/config.rs), which every *)
(* "gmf get" loads.  A configuration is a record of what the user typed:   *)
(* each secret is left out, right or wrong.                                *)
(***************************************************************************)
EXTENDS Naturals

CONSTANTS
  Input,  \* what the user may type
  None,   \* no such file
  Torn    \* a file whose writing was ended half way

Secret == {"none", "right", "wrong"}
Config == [password : Secret, private_key : Secret, r2 : {"right", "wrong"}]

ASSUME InputAssumption == Input \subseteq Config

ASSUME FileAssumption == {None, Torn} \cap [config : Input, hash : Input] = {}

VARIABLES
  config_file,  \* None, Torn, or its config with the hash that is in it
  login,        \* where login stands: "out", "ssh", "r2", "save", "write"
  typed         \* the configuration it is about

config_vars == <<config_file, login, typed>>

(* SSHSession::connect: a password is tried alone, whatever the key is.    *)
connect(config) ==
  IF config.password # "none" THEN config.password = "right"
                              ELSE config.private_key = "right"

(* r2::init with these credentials, which creates the bucket, and          *)
(* delete_bucket.                                                          *)
init_r2(config) == config.r2 = "right"

(* xxh3 of everything but the hash itself.  The time of saving, which it   *)
(* covers too, and which nothing reads, is left out of the configuration.  *)
calculate_hash(config) == config

ValidInput == {i \in Input : connect(i) /\ init_r2(i)}

(* The user may have logged in before.                                     *)
ConfigInit ==
  /\ config_file \in {None} \cup {[config |-> i, hash |-> calculate_hash(i)] : i \in ValidInput}
  /\ login = "out" /\ typed = None

(* Faulty variant: whatever can be parsed is accepted.                     *)
load_configUnverified == config_file \notin {None, Torn}

load_config ==
  /\ config_file \notin {None, Torn}
  /\ config_file.hash = calculate_hash(config_file.config)

Step(label) == login' = label /\ UNCHANGED typed
Out == login' = "out" /\ typed' = None

Login ==
  /\ login = "out"
  /\ typed' \in Input /\ login' = "ssh"
  /\ UNCHANGED config_file

TestConnection ==
  /\ \/ login = "ssh" /\ IF connect(typed) THEN Step("r2") ELSE Out
     \/ login = "r2" /\ IF init_r2(typed) THEN Step("save") ELSE Out
  /\ UNCHANGED config_file

(* fs::write truncates the file and then writes it.                        *)
save_config ==
  \/ login = "save" /\ Step("write") /\ config_file' = Torn
  \/ /\ login = "write" /\ Out
     /\ config_file' = [config |-> typed, hash |-> calculate_hash(typed)]

(* An error of any of its steps, Ctrl+C or a kill.                         *)
LoginEnds ==
  /\ login # "out" /\ Out
  /\ UNCHANGED config_file

(* The user opens the file in an editor.                                   *)
EditConfig ==
  /\ config_file \notin {None, Torn}
  /\ \E config \in Input : config_file' = [config_file EXCEPT !.config = config]
  /\ UNCHANGED <<login, typed>>
=============================================================================

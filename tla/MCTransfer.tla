------------------------------ MODULE MCTransfer ------------------------------
(* Two chunks, channels of one message, and as many sessions as two faults *)
(* of any kinds, one of them perhaps a user in a hurry, or one cut         *)
(* connection, call for.                                                   *)
EXTENDS Transfer

MCChunk == {0, 1}
MCKey == 1 .. MaxSessions

Only(kind, n) == [k \in FaultKind |-> IF k = kind THEN n ELSE 0]

Errors(p) == p["network"] + p["crash"] + p["disk"]

TwoFaultsOrACut ==
  {Only("cut", 1)}
    \cup {p \in [FaultKind -> 0 .. 2] :
            p["cut"] = 0 /\ p["hurry"] <= 1 /\ Errors(p) + p["hurry"] = 2}
OneError == {Only("network", 1)}
=============================================================================

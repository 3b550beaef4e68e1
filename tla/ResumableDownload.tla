--------------------------- MODULE ResumableDownload ---------------------------
(***************************************************************************)
(* What a resumable download promises, whatever happens to the processes   *)
(* that carry it out: the chunks that are kept only grow, what is          *)
(* delivered is the whole file, and nothing that was kept is given up      *)
(* before a delivery.                                                      *)
(***************************************************************************)
EXTENDS Naturals

CONSTANTS Chunk, Whole

VARIABLES
  kept,     \* the chunks that need not be transferred again
  delivered \* what the user has been given

Init == kept = {} /\ delivered = {}

Keep ==
  /\ kept' \in SUBSET Chunk /\ kept \subseteq kept'
  /\ UNCHANGED delivered

Deliver == delivered' = {Whole} /\ UNCHANGED kept

Forget == delivered # {} /\ kept' = {} /\ UNCHANGED delivered

Next == Keep \/ Deliver \/ Forget

Spec == Init /\ [][Next]_<<kept, delivered>>
=============================================================================

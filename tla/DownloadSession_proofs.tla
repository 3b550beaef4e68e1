------------------------ MODULE DownloadSession_proofs ------------------------
(***************************************************************************)
(* The safety properties of DownloadSession, proved for every file, every  *)
(* set of passphrases and every number of sessions.                        *)
(*                                                                         *)
(* Only the typing is inductive.  What the rest stands on: tasks exclude   *)
(* each other between the write and the save; no task outlives the phase   *)
(* in which its session is active; the json file, when whole, says what    *)
(* memory says, but for chunks whose save failed; and memory marks nothing *)
(* that has not been written.                                              *)
(***************************************************************************)
EXTENDS DownloadSession, TLAPS

Open == {"active", "verified", "renamed"}   \* the session has its metadata

OneSaver ==
  /\ \A c \in Chunk : c \in md_lock <=> job[c] \in Critical
  /\ \A c, d \in md_lock : c = d

OnlyActiveRuns ==
  /\ phase # "active" => \A c \in Chunk : ~Running(c)
  /\ phase \in {"down", "opening", "creating"}
       => bitmap = {} /\ \A c \in Chunk : job[c] = "idle"

(* A task works on a chunk only until it has marked it.                    *)
NotYetMarked ==
  \A c \in Chunk :
    /\ job[c] \in {"get", "decrypt", "delete", "lock", "write", "mark"}
         => c \notin bitmap
    /\ job[c] = "mark" => temp[c] # "hole"

(* A bit without data is one the json file has had since before.           *)
MarkedIsOnDisk ==
  /\ phase \in {"opening", "creating", "active", "verified"} => temp_exists
  /\ phase \in {"active", "verified"} =>
       \A c \in bitmap : temp[c] # "hole" \/ c \in saved
  /\ phase = "verified" => bitmap = Chunk /\ temp = Original
  /\ phase = "renamed" => bitmap = Chunk /\ finals # {}

(* A save writes out the bits of the moment: nobody marks meanwhile.       *)
JsonAgrees ==
  /\ meta = "absent" => saved = {}
  /\ phase = "creating" => saved = {}
  /\ phase \in Open => saved \subseteq bitmap
  /\ phase \in Open /\ meta = "valid" =>
       \A c \in bitmap \ saved : job[c] = "failure"
  /\ phase = "active" /\ meta # "valid"
       => \E c \in Chunk : job[c] \in {"saving", "failure"}
  /\ \A c \in Chunk : job[c] = "saving" => metadata_content[c] = bitmap

Inv ==
  /\ FinalsIntact
  /\ OneSaver
  /\ OnlyActiveRuns
  /\ NotYetMarked
  /\ MarkedIsOnDisk
  /\ JsonAgrees

IInv == TypeOK /\ Inv

-----------------------------------------------------------------------------
(* Every variable keeps its type, and a task past its download holds an    *)
(* object: without that, what it writes has no type.                       *)
LEMMA TypeStep == TypeOK /\ [Next]_vars => TypeOK'
<1> SUFFICES ASSUME TypeOK, [Next]_vars PROVE TypeOK'
  OBVIOUS
<1> USE DEF TypeOK, HasObject, Phase, JobPc, Bucket, Object, Region,
        EmptyBucket, EmptyFile, Idle, NoPass, NoContent, disk, memory, Goto
<1>1. CASE OpenTemp
  BY <1>1 DEF OpenTemp
<1>2. CASE Load
  BY <1>2 DEF Load
<1>3. CASE LoadFails
  BY <1>3 DEF LoadFails
<1>4. CASE Create
  BY <1>4 DEF Create
<1>5. CASE Created
  BY <1>5 DEF Created
<1>6. CASE CreateFails
  BY <1>6 DEF CreateFails
<1>7. ASSUME NEW c \in Chunk, NEW k \in Key, Spawn(c, k) PROVE TypeOK'
  BY <1>7 DEF Spawn
<1>8. ASSUME NEW c \in Chunk, GetObject(c) PROVE TypeOK'
  BY <1>8 DEF GetObject
<1>9. ASSUME NEW c \in Chunk, GetObjectFails(c) PROVE TypeOK'
  BY <1>9 DEF GetObjectFails
<1>10. ASSUME NEW c \in Chunk, Decrypt(c) PROVE TypeOK'
  BY <1>10 DEF Decrypt
<1>11. ASSUME NEW c \in Chunk, DeleteObject(c) PROVE TypeOK'
  BY <1>11 DEF DeleteObject, MaybeDone, delete_object
<1>12. ASSUME NEW c \in Chunk, DeleteObjectFails(c) PROVE TypeOK'
  BY <1>12 DEF DeleteObjectFails, MaybeDone, delete_object
<1>13. ASSUME NEW c \in Chunk, LockMetadata(c) PROVE TypeOK'
  BY <1>13 DEF LockMetadata
<1>14. ASSUME NEW c \in Chunk, WriteChunk(c) PROVE TypeOK'
  BY <1>14 DEF WriteChunk
<1>15. ASSUME NEW c \in Chunk, WriteChunkFails(c) PROVE TypeOK'
  BY <1>15 DEF WriteChunkFails
<1>16. ASSUME NEW c \in Chunk, MarkAndTruncate(c) PROVE TypeOK'
  BY <1>16 DEF MarkAndTruncate
<1>17. ASSUME NEW c \in Chunk, Save(c) PROVE TypeOK'
  BY <1>17 DEF Save
<1>18. ASSUME NEW c \in Chunk, SaveFails(c) PROVE TypeOK'
  BY <1>18 DEF SaveFails
<1>19. CASE Verify
  BY <1>19 DEF Verify
<1>20. CASE Rename
  BY <1>20 DEF Rename
<1>21. CASE RemoveMetadata
  BY <1>21 DEF RemoveMetadata
<1>22. CASE FinalizeFails
  BY <1>22 DEF FinalizeFails
<1>23. CASE Die
  BY <1>23 DEF Die
<1>24. CASE Outside
  BY <1>24 DEF Outside, put_object, delete_object
<1>25. CASE OpenTempFails
  BY <1>25 DEF OpenTempFails
<1>26. ASSUME NEW c \in Chunk, MarkUnsaved(c) PROVE TypeOK'
  BY <1>26 DEF MarkUnsaved
<1>27. CASE UNCHANGED vars
  BY <1>27 DEF vars
<1> QED
  BY <1>1, <1>2, <1>3, <1>4, <1>5, <1>6, <1>7, <1>8, <1>9, <1>10, <1>11, <1>12, <1>13,
     <1>14, <1>15, <1>16, <1>17, <1>18, <1>19, <1>20, <1>21, <1>22, <1>23, <1>24, <1>25,
     <1>26, <1>27
     DEF Next, New, HandleChunk, Finalize

(* A step keeps the rest of the invariant.  The actions that matter:       *)
(* WriteChunk, which must not leave a hole; MarkAndTruncate, which marks   *)
(* what WriteChunk wrote; Save, whose exclusive section makes the json     *)
(* file agree with memory; Load, which trusts it; Rename, which takes the  *)
(* data away from under the bitmap.                                        *)
LEMMA InvStep == TypeOK /\ Inv /\ [Next]_vars => Inv'
<1> SUFFICES ASSUME TypeOK, Inv, [Next]_vars PROVE Inv'
  OBVIOUS
<1> USE DEF TypeOK, HasObject, Phase, JobPc, Region, EmptyFile, Idle,
        NoPass, NoContent, Original, disk, memory, Goto, Running, Ended, Critical,
        Inv, FinalsIntact, OneSaver, OnlyActiveRuns, NotYetMarked,
        MarkedIsOnDisk, JsonAgrees, Open
<1>1. CASE OpenTemp
  BY <1>1 DEF OpenTemp
<1>2. CASE Load
  BY <1>2 DEF Load
<1>3. CASE LoadFails
  BY <1>3 DEF LoadFails
<1>4. CASE Create
  BY <1>4 DEF Create
<1>5. CASE Created
  BY <1>5 DEF Created
<1>6. CASE CreateFails
  BY <1>6 DEF CreateFails
<1>7. ASSUME NEW c \in Chunk, NEW k \in Key, Spawn(c, k) PROVE Inv'
  BY <1>7 DEF Spawn
<1>8. ASSUME NEW c \in Chunk, GetObject(c) PROVE Inv'
  BY <1>8 DEF GetObject
<1>9. ASSUME NEW c \in Chunk, GetObjectFails(c) PROVE Inv'
  BY <1>9 DEF GetObjectFails
<1>10. ASSUME NEW c \in Chunk, Decrypt(c) PROVE Inv'
  BY <1>10 DEF Decrypt
<1>11. ASSUME NEW c \in Chunk, DeleteObject(c) PROVE Inv'
  BY <1>11 DEF DeleteObject
<1>12. ASSUME NEW c \in Chunk, DeleteObjectFails(c) PROVE Inv'
  BY <1>12 DEF DeleteObjectFails
<1>13. ASSUME NEW c \in Chunk, LockMetadata(c) PROVE Inv'
  BY <1>13 DEF LockMetadata
<1>14. ASSUME NEW c \in Chunk, WriteChunk(c) PROVE Inv'
  <2>1. got[c].data \in Content
    BY <1>14 DEF WriteChunk, Object
  <2>2. /\ phase = "active" /\ c \notin bitmap
        /\ \A d \in Chunk : temp[d] # "hole" => temp'[d] # "hole"
        /\ temp'[c] # "hole"
    BY <1>14, <2>1 DEF WriteChunk, Content
  <2> QED
    BY <1>14, <2>2 DEF WriteChunk
<1>15. ASSUME NEW c \in Chunk, WriteChunkFails(c) PROVE Inv'
  BY <1>15 DEF WriteChunkFails
<1>16. ASSUME NEW c \in Chunk, MarkAndTruncate(c) PROVE Inv'
  BY <1>16 DEF MarkAndTruncate
<1>17. ASSUME NEW c \in Chunk, Save(c) PROVE Inv'
  BY <1>17 DEF Save
<1>18. ASSUME NEW c \in Chunk, SaveFails(c) PROVE Inv'
  BY <1>18 DEF SaveFails
<1>19. CASE Verify
  BY <1>19 DEF Verify
<1>20. CASE Rename
  BY <1>20 DEF Rename
<1>21. CASE RemoveMetadata
  BY <1>21 DEF RemoveMetadata
<1>22. CASE FinalizeFails
  BY <1>22 DEF FinalizeFails
<1>23. CASE Die
  BY <1>23 DEF Die
<1>24. CASE Outside
  BY <1>24 DEF Outside
<1>25. CASE OpenTempFails
  BY <1>25 DEF OpenTempFails
<1>26. ASSUME NEW c \in Chunk, MarkUnsaved(c) PROVE Inv'
  BY <1>26 DEF MarkUnsaved
<1>27. CASE UNCHANGED vars
  BY <1>27 DEF vars
<1> QED
  BY <1>1, <1>2, <1>3, <1>4, <1>5, <1>6, <1>7, <1>8, <1>9, <1>10, <1>11, <1>12, <1>13,
     <1>14, <1>15, <1>16, <1>17, <1>18, <1>19, <1>20, <1>21, <1>22, <1>23, <1>24, <1>25,
     <1>26, <1>27
     DEF Next, New, HandleChunk, Finalize

-----------------------------------------------------------------------------
(* Before the first session nothing is on disk.                            *)
LEMMA InitInv == Init => IInv
  BY DEF Init, IInv, TypeOK, HasObject, Phase, JobPc, Bucket, Object,
         Region, EmptyBucket, EmptyFile, Idle, NoPass, NoContent, Inv,
         FinalsIntact, OneSaver, OnlyActiveRuns, NotYetMarked, MarkedIsOnDisk,
         JsonAgrees, Open, Critical, Ended, Running

(* The invariant of the session, in every state it reaches.                *)
LEMMA Invariance == Spec => []IInv
<1>1. IInv /\ [Next]_vars => IInv'
  BY TypeStep, InvStep DEF IInv
<1> QED
  BY <1>1, InitInv, PTL DEF Spec

(* Every variable has its type in every reachable state.                   *)
THEOREM TypeCorrect == Spec => []TypeOK
<1>1. IInv => TypeOK
  BY DEF IInv
<1> QED
  BY <1>1, Invariance, PTL

(* A file under the user's name has the contents of the remote file that   *)
(* was hashed (DownloadSession::finalize, file.rs:304-324), for any bucket *)
(* contents, any interleaving of handle_chunk tasks and any crashes.       *)
THEOREM PublishedIsIntact == Spec => []FinalsIntact
<1>1. IInv => FinalsIntact
  BY DEF IInv, Inv
<1> QED
  BY <1>1, Invariance, PTL

(* Write before mark before save (file.rs:262-273): no step but the rename *)
(* of a verified file leaves the json file with a bit whose data is not in *)
(* <xxh3>.gmf, whichever saves have failed, at the open or half way.       *)
THEOREM TrustedBitsHaveData == Spec => SavedIsOnDisk
<1>1. Init => Unbacked = {}
  BY DEF Init, Unbacked
<1>2. IInv /\ [Next]_vars => Unbacked' \subseteq Unbacked \/ Publishes
  <2> SUFFICES ASSUME IInv, [Next]_vars, ~Publishes
               PROVE  Unbacked' \subseteq Unbacked
    OBVIOUS
  <2> USE DEF Unbacked, OnDisk
  <2>1. ASSUME NEW c \in Chunk, Save(c) PROVE Unbacked' \subseteq Unbacked
    <3>1. phase = "active"
      BY <2>1 DEF Save, IInv, Inv, OnlyActiveRuns, Running, Ended
    <3>2. saved' = bitmap /\ temp_exists' = temp_exists /\ temp' = temp
      BY <2>1 DEF Save, IInv, Inv, JsonAgrees
    <3> QED
      BY <3>1, <3>2 DEF IInv, Inv, MarkedIsOnDisk
  <2>2. ASSUME NEW c \in Chunk, WriteChunk(c) PROVE Unbacked' \subseteq Unbacked
    <3>1. got[c].data # "hole"
      BY <2>2 DEF WriteChunk, IInv, TypeOK, HasObject, Object, Content
    <3> QED
      BY <2>2, <3>1 DEF WriteChunk, IInv, TypeOK
  <2>3. ASSUME NEW c \in Chunk, WriteChunkFails(c)
        PROVE  Unbacked' \subseteq Unbacked
    <3>1. c \notin saved
      BY <2>3 DEF WriteChunkFails, IInv, Inv, NotYetMarked, OnlyActiveRuns,
                  Running, Ended, JsonAgrees, Open
    <3> QED
      BY <2>3, <3>1 DEF WriteChunkFails, IInv, TypeOK
  <2>4. CASE Created
    BY <2>4 DEF Created, IInv, Inv, OnlyActiveRuns
  <2>5. CASE OpenTemp \/ OpenTempFails
    BY <2>5 DEF OpenTemp, OpenTempFails
  <2>6. CASE RemoveMetadata
    BY <2>6 DEF RemoveMetadata
  <2>7. ~Rename
    BY DEF Rename, Publishes
  <2>8. ASSUME \A c \in Chunk : ~Save(c) /\ ~WriteChunk(c) /\ ~WriteChunkFails(c),
               ~Created, ~OpenTemp, ~OpenTempFails, ~RemoveMetadata
        PROVE  UNCHANGED <<saved, temp_exists, temp>>
    BY <2>7, <2>8 DEF Next, New, Load, LoadFails, Create, CreateFails, Spawn,
                HandleChunk, GetObject, GetObjectFails, Decrypt, DeleteObject,
                DeleteObjectFails, LockMetadata, MarkAndTruncate, MarkUnsaved,
                SaveFails, Finalize, Verify, FinalizeFails, Die, Outside,
                disk, vars
  <2> QED
    BY <2>1, <2>2, <2>3, <2>4, <2>5, <2>6, <2>8
<1> QED
  BY <1>1, <1>2, Invariance, PTL DEF SavedIsOnDisk, Spec

(* An interruption while no save is under way or has failed costs no       *)
(* progress: the json file is whole and equal to memory.                   *)
THEOREM QuietIsSaved == Spec => []QuietSessionIsSaved
<1>1. IInv => QuietSessionIsSaved
  BY DEF IInv, TypeOK, Inv, JsonAgrees, Open, QuietSessionIsSaved
<1> QED
  BY <1>1, Invariance, PTL

(* No step but the removal after publication takes a chunk out of the      *)
(* bitmap on disk: the metadata mutex (file.rs:253) is held from the write *)
(* to the end of the save, so no save carries an older bitmap.             *)
THEOREM ProgressOnlyGrows == Spec => ProgressIsKept
<1>1. IInv /\ [Next]_vars => saved \subseteq saved' \/ phase = "renamed"
  <2> SUFFICES ASSUME IInv, [Next]_vars, phase # "renamed"
               PROVE  saved \subseteq saved'
    OBVIOUS
  <2>1. CASE Created
    BY <2>1 DEF Created, IInv, Inv, JsonAgrees
  <2>2. ASSUME NEW c \in Chunk, Save(c) PROVE saved \subseteq saved'
    <3>1. phase = "active"
      BY <2>2 DEF Save, IInv, Inv, OnlyActiveRuns, Running, Ended
    <3> QED
      BY <2>2, <3>1 DEF Save, IInv, Inv, JsonAgrees, Open
  <2>3. ASSUME ~Created, \A c \in Chunk : ~Save(c) PROVE saved' = saved
    BY <2>3 DEF Next, New, OpenTemp, OpenTempFails, Load, LoadFails, Create, CreateFails,
                Spawn, HandleChunk, GetObject, GetObjectFails, Decrypt,
                DeleteObject, DeleteObjectFails, LockMetadata, WriteChunk,
                WriteChunkFails, MarkAndTruncate, MarkUnsaved, SaveFails, Finalize, Verify,
                Rename, RemoveMetadata, FinalizeFails, Die, Outside, disk, vars
  <2> QED
    BY <2>1, <2>2, <2>3
<1> QED
  BY <1>1, Invariance, PTL DEF ProgressIsKept, Spec

(* The session implements a resumable download: what a user sees of any    *)
(* number of sessions, crashes and foreign objects in the bucket is chunks *)
(* that are kept, a delivery of the whole file, and chunks forgotten only  *)
(* after a delivery (the order of file.rs:304-332).                        *)
LEMMA RefinementStep ==
  IInv /\ IInv' /\ [Next]_vars => [RD!Next]_<<saved, finals>>
<1> SUFFICES ASSUME IInv, IInv', [Next]_vars PROVE [RD!Next]_<<saved, finals>>
  OBVIOUS
<1> USE DEF RD!Next, RD!Keep, RD!Deliver, RD!Forget
<1>1. CASE Created
  <2>1. saved \subseteq saved' /\ saved' \in SUBSET Chunk
    BY <1>1 DEF Created, IInv, Inv, JsonAgrees, TypeOK
  <2> QED
    BY <1>1, <2>1 DEF Created
<1>2. ASSUME NEW c \in Chunk, Save(c) PROVE [RD!Next]_<<saved, finals>>
  <2>1. phase = "active"
    BY <1>2 DEF Save, IInv, Inv, OnlyActiveRuns, Running, Ended
  <2>2. saved \subseteq saved' /\ saved' \in SUBSET Chunk
    BY <1>2, <2>1 DEF Save, IInv, Inv, JsonAgrees, Open, TypeOK
  <2> QED
    BY <1>2, <2>2 DEF Save
<1>3. CASE Rename
  <2>1. finals \subseteq {Original} /\ temp = Original
    BY <1>3 DEF Rename, IInv, Inv, FinalsIntact, MarkedIsOnDisk
  <2>2. finals' = {Original} /\ saved' = saved
    BY <1>3, <2>1 DEF Rename
  <2> QED
    BY <2>2
<1>4. CASE RemoveMetadata
  BY <1>4 DEF RemoveMetadata, IInv, Inv, MarkedIsOnDisk
<1>5. ASSUME ~Created, \A c \in Chunk : ~Save(c), ~Rename, ~RemoveMetadata
      PROVE  UNCHANGED <<saved, finals>>
  BY <1>5 DEF Next, New, OpenTemp, OpenTempFails, Load, LoadFails, Create, CreateFails,
              Spawn, HandleChunk, GetObject, GetObjectFails, Decrypt,
              DeleteObject, DeleteObjectFails, LockMetadata, WriteChunk,
              WriteChunkFails, MarkAndTruncate, MarkUnsaved, SaveFails, Finalize, Verify,
              FinalizeFails, Die, Outside, disk, vars
<1> QED
  BY <1>1, <1>2, <1>3, <1>4, <1>5

(* A session, with its crashes and its restarts from disk, is one abstract *)
(* resumable download: what is kept only grows, until the whole of it is   *)
(* delivered (file.rs:262-332).                                            *)
THEOREM ImplementsResumableDownload == Spec => IsResumableDownload
<1>1. Init => RD!Init
  BY DEF Init, RD!Init
<1> QED
  BY <1>1, Invariance, RefinementStep, PTL DEF Spec, IsResumableDownload, RD!Spec
=============================================================================

------------------------- MODULE ModelStorageProofs -------------------------
(***************************************************************************)
(* Proofs about the model directory, for any jobs and any pieces.  The     *)
(* inductive invariant says where the pieces of the bundle are while a     *)
(* publication or a deletion moves them.                                   *)
(***************************************************************************)
EXTENDS ModelStorage, TLAPS

Bundle == IF wanted THEN Pieces ELSE {}

Moving == deletion \in {"staging", "rolling_back"} \/ \E j \in Jobs : worker[j] = "installing"

\* The bundle is in place unless it is being moved; then its pieces are in the
\* deletion's staging directory, or in the backup of the publication.
Kept ==
  ~spoiled =>
    /\ ~Moving => final = Bundle
    /\ deletion \in {"staging", "rolling_back"} => wanted /\ final \cup trash = Pieces
    /\ \A j \in Jobs : worker[j] = "installing" =>
         final = {} /\ (wanted => retired = Pieces)

\* The staging directory of a job is gone once it got the bundle's name.
StagingMoved ==
  \A j \in Jobs : worker[j] = "installed" /\ staging[j] # "none" => crashed

IInv == TypeOK /\ StagingHasOwner /\ Kept /\ StagingMoved

\* The types, for the two actions that need steps of their own.
LEMMA InstallNewType == ASSUME IInv, NEW j \in Jobs, InstallNew(j) PROVE TypeOK'
<1>1. /\ worker[j] = "installing" /\ lock = j
      /\ \A k \in Jobs : worker[k] \in Publishing <=> k = j
  BY DEF IInv, TypeOK, InstallNew, Publishing
<1>2. \/ worker' = [worker EXCEPT ![j] = "installed"] /\ lock' = lock
      \/ worker' = [worker EXCEPT ![j] = "failing"] /\ lock' = "free"
  BY DEF InstallNew, Goto
<1>3. /\ worker' \in [Jobs -> {"none", "checked", "created", "unregistered", "published",
                               "ended"} \cup Working]
      /\ \A k \in Jobs : worker'[k] \in Publishing <=> lock' = k
      /\ lock' \in Jobs \cup {"free", "delete"}
      /\ deletion # "idle" <=> lock' = "delete"
  BY <1>1, <1>2, StorageAssumption DEF IInv, TypeOK, Publishing, Working
<1>4. /\ final' \subseteq Pieces /\ retired' \subseteq Pieces
      /\ staging' \in [Jobs -> {"none", "partial", "complete"}]
      /\ wanted' \in BOOLEAN /\ spoiled' \in BOOLEAN
  BY DEF IInv, TypeOK, InstallNew
<1>5. UNCHANGED <<status, registered, cancelled, trash, deletion, crashed>>
  BY DEF InstallNew
<1>6. /\ status' \in [Jobs -> Statuses] /\ registered' \subseteq Jobs /\ cancelled' \subseteq Jobs
      /\ trash' \subseteq Pieces /\ crashed' \in BOOLEAN
      /\ deletion' = deletion /\ deletion \in {"idle", "checking", "staging", "removing", "rolling_back"}
  BY <1>5 DEF IInv, TypeOK
<1> QED BY <1>3, <1>4, <1>5, <1>6 DEF TypeOK

LEMMA RolledBackType == ASSUME IInv, RolledBack PROVE TypeOK'
<1>1. lock = "delete" /\ \A k \in Jobs : worker[k] \notin Publishing
  BY StorageAssumption DEF IInv, TypeOK, RolledBack
<1>2. lock' = "free" /\ deletion' = "idle" /\ trash' = {} /\ spoiled' \in BOOLEAN
  BY DEF RolledBack, Release, DeleteGoto, IInv, TypeOK
<1>3. UNCHANGED <<jobVars, final, retired, wanted, crashed>>
  BY DEF RolledBack
<1> QED BY <1>1, <1>2, <1>3, StorageAssumption DEF IInv, TypeOK, jobVars

\* One lemma for each action: it preserves IInv, conjunct by conjunct.
LEMMA CheckActiveIInv == ASSUME IInv, NEW j \in Jobs, CheckActive(j) PROVE IInv'
<1>1. TypeOK'
  BY StorageAssumption DEF IInv, TypeOK, CheckActive, history, dirVars, Goto, Publishing
<1>2. StagingHasOwner'
  BY StorageAssumption DEF IInv, StagingHasOwner, CheckActive, history, dirVars, Goto,
     Working, Publishing
<1>3. Kept'
  BY StorageAssumption DEF IInv, Kept, CheckActive, history, dirVars, Goto, Moving,
     Bundle
<1>4. StagingMoved'
  BY StorageAssumption DEF IInv, StagingMoved, CheckActive, history, dirVars, Goto
<1> QED BY <1>1, <1>2, <1>3, <1>4 DEF IInv

LEMMA CreateIInv == ASSUME IInv, NEW j \in Jobs, Create(j) PROVE IInv'
<1>1. TypeOK'
  BY StorageAssumption DEF IInv, TypeOK, Create, history, dirVars, Goto, Publishing,
     Statuses
<1>2. StagingHasOwner'
  BY StorageAssumption DEF IInv, StagingHasOwner, Create, history, dirVars, Goto,
     Working, Publishing
<1>3. Kept'
  BY StorageAssumption DEF IInv, Kept, Create, history, dirVars, Goto, Moving, Bundle
<1>4. StagingMoved'
  BY StorageAssumption DEF IInv, StagingMoved, Create, history, dirVars, Goto
<1> QED BY <1>1, <1>2, <1>3, <1>4 DEF IInv

LEMMA DeleteJobIInv == ASSUME IInv, NEW j \in Jobs, DeleteJob(j) PROVE IInv'
<1>1. StagingHasOwner' /\ Kept' /\ StagingMoved'
  BY DEF IInv, StagingHasOwner, Kept, Moving, Bundle, StagingMoved, DeleteJob, history,
     dirVars
<1>2. TypeOK'
  BY StorageAssumption DEF IInv, TypeOK, DeleteJob, history, dirVars, Statuses
<1> QED BY <1>1, <1>2 DEF IInv

LEMMA BeginIInv == ASSUME IInv, NEW j \in Jobs, Begin(j) PROVE IInv'
<1>1. TypeOK'
  BY StorageAssumption DEF IInv, TypeOK, Begin, history, dirVars, SetStatus, Goto,
     Publishing, Statuses
<1>2. StagingHasOwner'
  BY StorageAssumption DEF IInv, StagingHasOwner, Begin, history, dirVars, SetStatus,
     Goto, Working, Publishing, TypeOK
<1>3. Kept'
  BY StorageAssumption DEF IInv, Kept, Begin, history, dirVars, Goto, Moving, Bundle,
     TypeOK
<1>4. StagingMoved'
  BY StorageAssumption DEF IInv, StagingMoved, Begin, history, dirVars, Goto, TypeOK
<1> QED BY <1>1, <1>2, <1>3, <1>4 DEF IInv

LEMMA RegisterIInv == ASSUME IInv, NEW j \in Jobs, Register(j) PROVE IInv'
<1>1. TypeOK'
  BY StorageAssumption DEF IInv, TypeOK, Register, history, dirVars, Goto, Working,
     Publishing
<1>2. StagingHasOwner'
  BY StorageAssumption DEF IInv, StagingHasOwner, Register, history, dirVars, Goto,
     Working
<1>3. Kept'
  BY StorageAssumption DEF IInv, Kept, Register, history, dirVars, Goto, Moving, Bundle
<1>4. StagingMoved'
  BY StorageAssumption DEF IInv, StagingMoved, Register, history, dirVars, Goto
<1> QED BY <1>1, <1>2, <1>3, <1>4 DEF IInv

LEMMA DownloadIInv == ASSUME IInv, NEW j \in Jobs, Download(j) PROVE IInv'
<1>1. TypeOK'
  BY StorageAssumption DEF IInv, TypeOK, Download, history, dirVars, Goto, Working,
     Publishing
<1>2. StagingHasOwner'
  BY StorageAssumption DEF IInv, StagingHasOwner, Download, history, dirVars, Goto,
     Working, TypeOK
<1>3. Kept'
  BY StorageAssumption DEF IInv, Kept, Download, history, dirVars, Goto, Moving, Bundle,
     TypeOK
<1>4. StagingMoved'
  BY StorageAssumption DEF IInv, StagingMoved, Download, history, Goto, TypeOK
<1> QED BY <1>1, <1>2, <1>3, <1>4 DEF IInv

LEMMA DownloadFailsIInv == ASSUME IInv, NEW j \in Jobs, DownloadFails(j) PROVE IInv'
<1>1. TypeOK'
  BY StorageAssumption DEF IInv, TypeOK, DownloadFails, history, dirVars, Goto, Working,
     Publishing
<1>2. StagingHasOwner'
  BY StorageAssumption DEF IInv, StagingHasOwner, DownloadFails, history, dirVars, Goto,
     Working
<1>3. Kept'
  BY StorageAssumption DEF IInv, Kept, DownloadFails, history, dirVars, Goto, Moving,
     Bundle
<1>4. StagingMoved'
  BY StorageAssumption DEF IInv, StagingMoved, DownloadFails, history, dirVars, Goto
<1> QED BY <1>1, <1>2, <1>3, <1>4 DEF IInv

LEMMA AcquireDirectoryIInv ==
  ASSUME IInv, NEW j \in Jobs, AcquireDirectory(j)
  PROVE  IInv'
<1>1. TypeOK'
  BY StorageAssumption DEF IInv, TypeOK, AcquireDirectory, history, Goto, Working,
     Publishing
<1>2. StagingHasOwner'
  BY StorageAssumption DEF IInv, StagingHasOwner, AcquireDirectory, history, Goto,
     Working, Publishing
<1>3. Kept'
  BY StorageAssumption DEF IInv, Kept, AcquireDirectory, history, Goto, Moving, Bundle
<1>4. StagingMoved'
  BY StorageAssumption DEF IInv, StagingMoved, AcquireDirectory, history, Goto, TypeOK
<1> QED BY <1>1, <1>2, <1>3, <1>4 DEF IInv

LEMMA DropBackupIInv == ASSUME IInv, NEW j \in Jobs, DropBackup(j) PROVE IInv'
<1>1. TypeOK'
  BY StorageAssumption DEF IInv, TypeOK, DropBackup, RemoveBackup, history, Goto, Working, Publishing
<1>2. StagingHasOwner'
  BY StorageAssumption DEF IInv, StagingHasOwner, DropBackup, history, Goto, Working,
     Publishing
<1>3. Kept'
  BY StorageAssumption DEF IInv, Kept, DropBackup, RemoveBackup, history, Goto, Moving, Bundle,
     TypeOK, Working
<1>4. StagingMoved'
  BY StorageAssumption DEF IInv, StagingMoved, DropBackup, history, Goto, TypeOK
<1> QED BY <1>1, <1>2, <1>3, <1>4 DEF IInv

LEMMA RetireOldIInv == ASSUME IInv, NEW j \in Jobs, RetireOld(j) PROVE IInv'
<1>1. TypeOK'
  BY StorageAssumption DEF IInv, TypeOK, RetireOld, history, Goto, Working, Publishing
<1>2. StagingHasOwner'
  BY StorageAssumption DEF IInv, StagingHasOwner, RetireOld, history, Goto, Working,
     Publishing
<1>3. Kept'
  BY StorageAssumption DEF IInv, Kept, RetireOld, history, Goto, Moving, Bundle, TypeOK,
     Working
<1>4. StagingMoved'
  BY StorageAssumption DEF IInv, StagingMoved, RetireOld, history, Goto, TypeOK
<1> QED BY <1>1, <1>2, <1>3, <1>4 DEF IInv

LEMMA InstallNewIInv == ASSUME IInv, NEW j \in Jobs, InstallNew(j) PROVE IInv'
<1>1. TypeOK'
  BY InstallNewType
<1>2. StagingHasOwner'
  BY StorageAssumption DEF IInv, StagingHasOwner, InstallNew, Goto, Working, TypeOK
<1>3. Kept'
  <2>1. /\ worker[j] = "installing" /\ lock = j /\ deletion = "idle" /\ deletion' = deletion
        /\ \A k \in Jobs : worker'[k] # "installing"
    BY StorageAssumption DEF IInv, TypeOK, InstallNew, Goto, Publishing
  <2>2. ~spoiled => final = {} /\ (wanted => retired = Pieces)
    BY <2>1 DEF IInv, Kept
  <2>3. CASE final' = Pieces /\ wanted' = TRUE
    BY <2>1, <2>3 DEF Kept, Moving, Bundle
  <2>4. CASE /\ final' = retired /\ spoiled' = (spoiled \/ (retired # {} /\ ~wanted))
             /\ wanted' = wanted
    BY <2>1, <2>2, <2>4 DEF Kept, Moving, Bundle
  <2>5. CASE spoiled' = TRUE
    BY <2>5 DEF Kept
  <2> QED BY <2>3, <2>4, <2>5 DEF InstallNew
<1>4. StagingMoved'
  BY StorageAssumption DEF IInv, StagingMoved, InstallNew, Goto, TypeOK, Moving
<1> QED BY <1>1, <1>2, <1>3, <1>4 DEF IInv

LEMMA PublishIInv == ASSUME IInv, NEW j \in Jobs, Publish(j) PROVE IInv'
<1>1. TypeOK'
  BY StorageAssumption DEF IInv, TypeOK, Publish, RemoveBackup, history, Goto, Publishing
<1>2. StagingHasOwner'
  BY StorageAssumption DEF IInv, StagingHasOwner, Publish, history, Goto, Working,
     Publishing, StagingMoved
<1>3. Kept'
  BY StorageAssumption DEF IInv, Kept, Publish, RemoveBackup, history, Goto, Moving, Bundle, TypeOK,
     Working
<1>4. StagingMoved'
  BY StorageAssumption DEF IInv, StagingMoved, Publish, history, Goto, TypeOK
<1> QED BY <1>1, <1>2, <1>3, <1>4 DEF IInv

LEMMA PublishFailsIInv == ASSUME IInv, NEW j \in Jobs, PublishFails(j) PROVE IInv'
<1>1. TypeOK'
  BY StorageAssumption DEF IInv, TypeOK, PublishFails, history, Goto, Working,
     Publishing
<1>2. StagingHasOwner'
  BY StorageAssumption DEF IInv, StagingHasOwner, PublishFails, history, Goto, Working
<1>3. Kept'
  BY StorageAssumption DEF IInv, Kept, PublishFails, history, Goto, Moving, Bundle
<1>4. StagingMoved'
  BY StorageAssumption DEF IInv, StagingMoved, PublishFails, history, Goto, TypeOK
<1> QED BY <1>1, <1>2, <1>3, <1>4 DEF IInv

LEMMA DoneIInv == ASSUME IInv, NEW j \in Jobs, Done(j) PROVE IInv'
<1>1. TypeOK'
  BY StorageAssumption DEF IInv, TypeOK, Done, history, dirVars, SetStatus, Goto,
     Publishing, Statuses
<1>2. StagingHasOwner'
  BY StorageAssumption DEF IInv, StagingHasOwner, Done, history, dirVars, SetStatus,
     Goto, Working, Publishing
<1>3. Kept'
  BY StorageAssumption DEF IInv, Kept, Done, history, dirVars, Goto, Moving, Bundle
<1>4. StagingMoved'
  BY StorageAssumption DEF IInv, StagingMoved, Done, history, dirVars, Goto
<1> QED BY <1>1, <1>2, <1>3, <1>4 DEF IInv

LEMMA FailIInv == ASSUME IInv, NEW j \in Jobs, Fail(j) PROVE IInv'
<1>1. TypeOK'
  BY StorageAssumption DEF IInv, TypeOK, Fail, history, dirVars, SetStatus, Goto,
     Working, Publishing, Statuses
<1>2. StagingHasOwner'
  BY StorageAssumption DEF IInv, StagingHasOwner, Fail, history, dirVars, SetStatus,
     Goto, Working
<1>3. Kept'
  BY StorageAssumption DEF IInv, Kept, Fail, history, dirVars, Goto, Moving, Bundle
<1>4. StagingMoved'
  BY StorageAssumption DEF IInv, StagingMoved, Fail, history, dirVars, Goto
<1> QED BY <1>1, <1>2, <1>3, <1>4 DEF IInv

LEMMA CleanUpIInv == ASSUME IInv, NEW j \in Jobs, CleanUp(j) PROVE IInv'
<1>1. TypeOK'
  BY StorageAssumption DEF IInv, TypeOK, CleanUp, history, dirVars, Goto, Publishing
<1>2. StagingHasOwner'
  BY StorageAssumption DEF IInv, StagingHasOwner, CleanUp, history, dirVars, Goto,
     TypeOK
<1>3. Kept'
  BY StorageAssumption DEF IInv, Kept, CleanUp, history, dirVars, Goto, Moving, Bundle
<1>4. StagingMoved'
  BY StorageAssumption DEF IInv, StagingMoved, CleanUp, history, dirVars, Goto
<1> QED BY <1>1, <1>2, <1>3, <1>4 DEF IInv

LEMMA RequestDeleteIInv == ASSUME IInv, RequestDelete PROVE IInv'
<1>1. StagingHasOwner' /\ StagingMoved'
  BY DEF IInv, StagingHasOwner, StagingMoved, RequestDelete, jobVars, history
<1>2. TypeOK'
  BY StorageAssumption DEF IInv, TypeOK, RequestDelete, jobVars, history, DeleteGoto
<1>3. Kept'
  BY StorageAssumption DEF IInv, Kept, RequestDelete, jobVars, history, DeleteGoto,
     Moving, Bundle
<1> QED BY <1>1, <1>2, <1>3 DEF IInv

LEMMA RefuseIInv == ASSUME IInv, Refuse PROVE IInv'
<1>1. StagingHasOwner' /\ StagingMoved'
  BY DEF IInv, StagingHasOwner, StagingMoved, Refuse, jobVars, history
<1>2. TypeOK'
  BY StorageAssumption DEF IInv, TypeOK, Refuse, jobVars, history, Release, DeleteGoto
<1>3. Kept'
  BY StorageAssumption DEF IInv, Kept, Refuse, jobVars, history, Release, DeleteGoto,
     Moving, Bundle
<1> QED BY <1>1, <1>2, <1>3 DEF IInv

LEMMA AcceptIInv == ASSUME IInv, Accept PROVE IInv'
<1>1. StagingHasOwner' /\ StagingMoved'
  BY DEF IInv, StagingHasOwner, StagingMoved, Accept, jobVars, history
<1>2. TypeOK'
  BY StorageAssumption DEF IInv, TypeOK, Accept, jobVars, history, DeleteGoto
<1>3. Kept'
  BY StorageAssumption DEF IInv, Kept, Accept, jobVars, history, Moving, Bundle, Whole
<1> QED BY <1>1, <1>2, <1>3 DEF IInv

LEMMA StagePieceIInv == ASSUME IInv, NEW p \in Pieces, StagePiece(p) PROVE IInv'
<1>1. StagingHasOwner' /\ StagingMoved'
  BY DEF IInv, StagingHasOwner, StagingMoved, StagePiece, jobVars, history
<1>2. TypeOK'
  BY StorageAssumption DEF IInv, TypeOK, StagePiece, jobVars, history, Working
<1>3. Kept'
  BY StorageAssumption DEF IInv, Kept, StagePiece, jobVars, history, Moving
<1> QED BY <1>1, <1>2, <1>3 DEF IInv

LEMMA StagedAllIInv == ASSUME IInv, StagedAll PROVE IInv'
<1>1. StagingHasOwner' /\ StagingMoved'
  BY DEF IInv, StagingHasOwner, StagingMoved, StagedAll, jobVars, dirVars
<1>2. TypeOK'
  BY StorageAssumption DEF IInv, TypeOK, StagedAll, jobVars, dirVars, DeleteGoto
<1>3. Kept'
  BY StorageAssumption DEF IInv, Kept, StagedAll, jobVars, dirVars, DeleteGoto, Moving,
     Bundle, TypeOK, Working
<1> QED BY <1>1, <1>2, <1>3 DEF IInv

LEMMA StageFailsIInv == ASSUME IInv, StageFails PROVE IInv'
<1>1. StagingHasOwner' /\ StagingMoved'
  BY DEF IInv, StagingHasOwner, StagingMoved, StageFails, jobVars, history
<1>2. TypeOK'
  BY StorageAssumption DEF IInv, TypeOK, StageFails, jobVars, history, dirVars,
     DeleteGoto
<1>3. Kept'
  BY StorageAssumption DEF IInv, Kept, StageFails, jobVars, history, dirVars,
     DeleteGoto, Moving, Bundle
<1> QED BY <1>1, <1>2, <1>3 DEF IInv

LEMMA RollBackPieceIInv == ASSUME IInv, NEW p \in Pieces, RollBackPiece(p) PROVE IInv'
<1>1. StagingHasOwner' /\ StagingMoved'
  BY DEF IInv, StagingHasOwner, StagingMoved, RollBackPiece, jobVars, history
<1>2. TypeOK'
  BY StorageAssumption DEF IInv, TypeOK, RollBackPiece, jobVars, history, Working
<1>3. Kept'
  BY StorageAssumption DEF IInv, Kept, RollBackPiece, jobVars, history, Moving, Bundle,
     TypeOK, Working
<1> QED BY <1>1, <1>2, <1>3 DEF IInv

LEMMA RolledBackIInv == ASSUME IInv, RolledBack PROVE IInv'
<1>1. StagingHasOwner' /\ StagingMoved'
  BY DEF IInv, StagingHasOwner, StagingMoved, RolledBack, jobVars, Release
<1>2. TypeOK'
  BY RolledBackType
<1>3. Kept'
  BY StorageAssumption DEF IInv, Kept, RolledBack, jobVars, Release, Bundle
<1> QED BY <1>1, <1>2, <1>3 DEF IInv

LEMMA RemoveIInv == ASSUME IInv, Remove PROVE IInv'
<1>1. StagingHasOwner' /\ StagingMoved'
  BY DEF IInv, StagingHasOwner, StagingMoved, Remove, jobVars, history
<1>2. TypeOK'
  BY StorageAssumption DEF IInv, TypeOK, Remove, jobVars, history, Release, DeleteGoto
<1>3. Kept'
  BY StorageAssumption DEF IInv, Kept, Remove, jobVars, history, Release, DeleteGoto,
     Moving, Bundle
<1> QED BY <1>1, <1>2, <1>3 DEF IInv

LEMMA RestartIInv == ASSUME IInv, Restart PROVE IInv'
<1>1. TypeOK'
  BY StorageAssumption DEF IInv, TypeOK, Restart, Working, Publishing, Statuses
<1>2. StagingHasOwner'
  BY StorageAssumption DEF IInv, StagingHasOwner, Restart, Working, Publishing, Statuses
<1>3. Kept'
  BY StorageAssumption DEF IInv, Kept, Restart, Moving, Bundle, Statuses
<1>4. StagingMoved'
  BY StorageAssumption DEF IInv, StagingMoved, Restart, Statuses, Saved, TypeOK
<1> QED BY <1>1, <1>2, <1>3, <1>4 DEF IInv

\* IInv holds initially, and no step of the system and no stuttering disturbs it.
LEMMA InitIInv == Init => IInv
<1> SUFFICES ASSUME Init PROVE IInv
  OBVIOUS
<1>1. TypeOK
  <2>1. /\ status \in [Jobs -> Statuses]
        /\ worker \in [Jobs -> {"none", "checked", "created", "unregistered", "published",
                                "ended"} \cup Working]
        /\ staging \in [Jobs -> {"none", "partial", "complete"}]
    BY DEF Init, Statuses
  <2>2. \A j \in Jobs : worker[j] \in Publishing <=> lock = j
    BY StorageAssumption DEF Init, Publishing
  <2> QED BY <2>1, <2>2 DEF Init, TypeOK
<1>2. StagingHasOwner /\ Kept /\ StagingMoved
  BY DEF Init, StagingHasOwner, Kept, Moving, Bundle, StagingMoved
<1> QED BY <1>1, <1>2 DEF IInv

LEMMA StutterIInv == ASSUME IInv, UNCHANGED vars PROVE IInv'
<1>1. TypeOK'
  BY DEF IInv, TypeOK, vars, jobVars, dirVars, history
<1>2. StagingHasOwner' /\ Kept' /\ StagingMoved'
  BY DEF IInv, StagingHasOwner, Kept, Moving, Bundle, StagingMoved, vars, jobVars,
     dirVars, history
<1> QED BY <1>1, <1>2 DEF IInv

LEMMA NextIInv == IInv /\ [Next]_vars => IInv'
<1> SUFFICES ASSUME IInv, [Next]_vars PROVE IInv'
  OBVIOUS
<1>1. CASE \E j \in Jobs : CheckActive(j) \/ Create(j) \/ DeleteJob(j)
  BY <1>1, CheckActiveIInv, CreateIInv, DeleteJobIInv
<1>2. CASE \E j \in Jobs : WorkerStep(j)
  BY <1>2, BeginIInv, RegisterIInv, DownloadIInv, DownloadFailsIInv,
     AcquireDirectoryIInv, DropBackupIInv, RetireOldIInv, InstallNewIInv, PublishIInv,
     PublishFailsIInv, DoneIInv, FailIInv, CleanUpIInv DEF WorkerStep
<1>3. CASE RequestDelete \/ DeleteStep
  BY <1>3, RequestDeleteIInv, RefuseIInv, AcceptIInv, StagePieceIInv, StagedAllIInv,
     StageFailsIInv, RollBackPieceIInv, RolledBackIInv, RemoveIInv DEF DeleteStep
<1>4. CASE Restart
  BY <1>4, RestartIInv
<1>5. CASE UNCHANGED vars
  BY <1>5, StutterIInv
<1> QED BY <1>1, <1>2, <1>3, <1>4, <1>5 DEF Next

\* IInv holds in every reachable state of every instance.
THEOREM Invariance == Spec => []IInv
BY InitIInv, NextIInv, PTL DEF Spec

\* The types, and that whoever moves files holds the lock (modelstorage.Acquire).
THEOREM TypeCorrect == Spec => []TypeOK
<1>1. IInv => TypeOK
  BY DEF IInv
<1> QED BY <1>1, Invariance, PTL

\* A published bundle is whole whenever nobody moves files, and a deleted one gone
\* (bundle.go, validateAndPublishBundle; model_delete.go, deleteModel).
THEOREM PublishedStays == Spec => []PublishedIsKept
<1>1. ASSUME IInv, lock = "free", ~spoiled PROVE final = IF wanted THEN Pieces ELSE {}
  <2>1. deletion = "idle" /\ \A j \in Jobs : worker[j] \notin Publishing
    BY <1>1, StorageAssumption DEF IInv, TypeOK
  <2>2. ~Moving
    BY <2>1 DEF Moving, Publishing
  <2> QED BY <1>1, <2>2 DEF IInv, Kept, Bundle
<1>2. IInv => PublishedIsKept
  BY <1>1 DEF PublishedIsKept
<1> QED BY <1>2, Invariance, PTL

\* No job leaves its staging directory behind (handler.go, runDownloadJob).
THEOREM StagingIsOwned == Spec => []StagingHasOwner
<1>1. IInv => StagingHasOwner
  BY DEF IInv
<1> QED BY <1>1, Invariance, PTL
=============================================================================

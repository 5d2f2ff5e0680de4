---------------------------- MODULE ModelStorage ----------------------------
(***************************************************************************)
(* The model directory and who changes it: the download jobs of the        *)
(* marketplace (modules/marketplace/download_jobs.go, handler.go,          *)
(* bundle.go), which publish a bundle, and the deletion of a model by the  *)
(* engine (modules/engine/model_delete.go).  Both hold the process-wide    *)
(* lock of internal/modelstorage while they move files.                    *)
(*                                                                         *)
(* One bundle is modelled: all jobs download the same revision of the same *)
(* model, so they publish to the same directory.  What of it is there is   *)
(* the set of its pieces; a deletion renames piece by piece.  The catalog  *)
(* of the engine is not modelled: a deletion may find the model unknown.   *)
(***************************************************************************)
EXTENDS Naturals, FiniteSets

CONSTANTS Jobs,     \* the jobs there can be
          Pieces,   \* what a deletion renames: the one directory of the bundle, or
                    \* the files of a model that shares its directory
          Faults    \* "crash": the backend ends once, at any point;
                    \* "io": a rename that would undo another one fails, or the
                    \* removal of an old bundle, of which a part may then be left

ASSUME StorageAssumption ==
  /\ IsFiniteSet(Jobs) /\ "delete" \notin Jobs /\ "free" \notin Jobs
  /\ IsFiniteSet(Pieces) /\ Pieces # {}
  /\ Faults \subseteq {"crash", "io"}

VARIABLES
  status,      \* DownloadJobStore.jobs: the status of every job
  worker,      \* where the job's goroutine (runDownloadJob) is
  registered,  \* cancels: the jobs whose context can be cancelled
  cancelled,   \* the jobs whose context has been
  staging,     \* the staging directory of a job
  final,       \* the pieces of the published bundle that are in place
  retired,     \* the pieces in final.previous
  trash,       \* the pieces in the staging directories of deletions
  lock,        \* modelstorage.directoryMutationMu: a job, "delete" or "free"
  deletion,    \* where deleteModel is
  wanted,      \* history: a bundle was published and no deletion of it completed since
  crashed,     \* history: the backend has ended once (bound: it does so once)
  spoiled      \* history: it did so while pieces were moved, a rename that was to undo
               \* another one failed, or one put back an old bundle for a deleted one

jobVars == <<status, worker, registered, cancelled, staging>>
dirVars == <<final, retired, trash, lock>>
history == <<wanted, crashed, spoiled>>
vars == <<jobVars, dirVars, deletion, history>>

Init ==
  /\ status = [j \in Jobs |-> "none"] /\ worker = [j \in Jobs |-> "none"]
  /\ registered = {} /\ cancelled = {}
  /\ staging = [j \in Jobs |-> "none"]
  /\ final = {} /\ retired = {} /\ trash = {} /\ lock = "free"
  /\ deletion = "idle"
  /\ wanted = FALSE /\ crashed = FALSE /\ spoiled = FALSE

Live(j) == status[j] \notin {"none", "deleted"}
Active(j) == status[j] \in {"queued", "running"}
Whole == final = Pieces

Goto(j, step) == worker' = [worker EXCEPT ![j] = step]

\* mutate: a job that is gone is left alone.
SetStatus(j, s) == status' = IF Live(j) THEN [status EXCEPT ![j] = s] ELSE status

-----------------------------------------------------------------------------
(* The requests of clients.                                                *)

\* StartDownload answers with the active job of the model if there is one ...
CheckActive(j) ==
  /\ worker[j] = "none" /\ status[j] = "none"
  /\ \A k \in Jobs : ~Active(k)
  /\ Goto(j, "checked")
  /\ UNCHANGED <<status, registered, cancelled, staging, dirVars, deletion,
                 history>>

\* ... or creates one, in a section of its own, and starts its goroutine.
Create(j) ==
  /\ worker[j] = "checked" /\ Goto(j, "created")
  /\ status' = [status EXCEPT ![j] = "queued"]
  /\ UNCHANGED <<registered, cancelled, staging, dirVars, deletion, history>>

\* Delete: only a context that is registered by now is cancelled.
DeleteJob(j) ==
  /\ Live(j)
  /\ status' = [status EXCEPT ![j] = "deleted"]
  /\ cancelled' = IF j \in registered THEN cancelled \cup {j} ELSE cancelled
  /\ registered' = registered \ {j}
  /\ UNCHANGED <<worker, staging, dirVars, deletion, history>>

-----------------------------------------------------------------------------
(* runDownloadJob.                                                         *)

\* A job that was deleted already is not begun; without settings it fails.
Begin(j) ==
  /\ worker[j] = "created"
  /\ \/ Live(j) /\ SetStatus(j, "running") /\ Goto(j, "unregistered")
     \/ Live(j) /\ SetStatus(j, "failed") /\ Goto(j, "ended")
     \/ ~Live(j) /\ Goto(j, "ended") /\ UNCHANGED status
  /\ UNCHANGED <<registered, cancelled, staging, dirVars, deletion, history>>

\* RegisterCancel.
Register(j) ==
  /\ worker[j] = "unregistered" /\ Goto(j, "downloading")
  /\ registered' = registered \cup {j}
  /\ UNCHANGED <<status, cancelled, staging, dirVars, deletion, history>>

\* prepareBundlePaths, and the files one after the other.
Download(j) ==
  /\ worker[j] = "downloading"
  /\ \/ /\ staging[j] = "none" /\ j \notin cancelled
        /\ staging' = [staging EXCEPT ![j] = "partial"]
        /\ UNCHANGED worker
     \/ /\ staging[j] = "partial"
        /\ staging' = [staging EXCEPT ![j] = "complete"] /\ Goto(j, "waiting")
  /\ UNCHANGED <<status, registered, cancelled, dirVars, deletion, history>>

\* The bundle cannot be resolved or downloaded, or the context is done.
DownloadFails(j) ==
  /\ worker[j] = "downloading" /\ Goto(j, "failing")
  /\ UNCHANGED <<status, registered, cancelled, staging, dirVars, deletion,
                 history>>

\* modelstorage.Acquire.
AcquireDirectory(j) ==
  /\ worker[j] = "waiting" /\ lock = "free"
  /\ lock' = j /\ Goto(j, "validating")
  /\ UNCHANGED <<status, registered, cancelled, staging, final, retired, trash, deletion, history>>

\* os.RemoveAll of final.previous, whose failure nobody looks at.
RemoveBackup ==
  \/ retired' = {}
  \/ "io" \in Faults /\ retired' \in SUBSET retired

\* validateAndPublishBundle: what an earlier publication left is removed, ...
DropBackup(j) ==
  /\ worker[j] = "validating" /\ Goto(j, "retiring")
  /\ RemoveBackup
  /\ UNCHANGED <<status, registered, cancelled, staging, final, trash, lock, deletion, history>>

\* ... the bundle that is there is moved aside (which fails, PublishFails, when there
\* still is something), ...
RetireOld(j) ==
  /\ worker[j] = "retiring" /\ Goto(j, "installing")
  /\ \/ retired = {} /\ retired' = final /\ final' = {}
     \/ final = {} /\ UNCHANGED <<final, retired>>
  /\ UNCHANGED <<status, registered, cancelled, staging, trash, lock, deletion,
                 history>>

\* Mutant of InstallNew: a failed publication leaves the old bundle aside.
InstallNewOrNone(j) ==
  /\ worker[j] = "installing"
  /\ \/ /\ final' = Pieces /\ staging' = [staging EXCEPT ![j] = "none"]
        /\ Goto(j, "installed") /\ wanted' = TRUE /\ spoiled' = FALSE
        /\ UNCHANGED lock
     \/ /\ lock' = "free" /\ Goto(j, "failing")
        /\ UNCHANGED <<final, staging, wanted, spoiled>>
  /\ UNCHANGED <<status, registered, cancelled, retired, trash, deletion,
                 crashed>>

\* ... and the staging directory gets its name, or what was moved aside gets it back.
InstallNew(j) ==
  /\ worker[j] = "installing"
  /\ \/ /\ final' = Pieces /\ staging' = [staging EXCEPT ![j] = "none"]
        /\ Goto(j, "installed") /\ wanted' = TRUE /\ spoiled' = FALSE
        /\ UNCHANGED <<retired, lock>>
     \/ /\ \/ /\ final' = retired /\ retired' = {}
              /\ spoiled' = (spoiled \/ (retired # {} /\ ~wanted))
           \/ /\ "io" \in Faults /\ spoiled' = TRUE
              /\ UNCHANGED <<final, retired>>
        /\ lock' = "free" /\ Goto(j, "failing")
        /\ UNCHANGED <<staging, wanted>>
  /\ UNCHANGED <<status, registered, cancelled, trash, deletion, crashed>>

\* The old bundle is removed, the lock released.
Publish(j) ==
  /\ worker[j] = "installed" /\ Goto(j, "published")
  /\ RemoveBackup /\ lock' = "free"
  /\ UNCHANGED <<status, registered, cancelled, staging, final, trash, deletion,
                 history>>

\* Mutant of PublishFails: the lock is not released on this path.
PublishFailsLocked(j) ==
  /\ worker[j] \in {"validating", "retiring"} /\ Goto(j, "failing")
  /\ UNCHANGED <<status, registered, cancelled, staging, dirVars, deletion, history>>

\* The bundle is not valid, or a directory cannot be made or moved.
PublishFails(j) ==
  /\ worker[j] \in {"validating", "retiring"} /\ Goto(j, "failing")
  /\ lock' = "free"
  /\ UNCHANGED <<status, registered, cancelled, staging, final, retired, trash, deletion, history>>

\* SetDone.  (The event that makes the engine rescan is not modelled.)
Done(j) ==
  /\ worker[j] = "published" /\ Goto(j, "ended")
  /\ SetStatus(j, "done")
  /\ registered' = registered \ {j}
  /\ UNCHANGED <<cancelled, staging, dirVars, deletion, history>>

Fail(j) ==
  /\ worker[j] = "failing" /\ Goto(j, "cleaning")
  /\ SetStatus(j, "failed")
  /\ UNCHANGED <<registered, cancelled, staging, dirVars, deletion, history>>

\* Mutant of CleanUp: the staging directory stays.
CleanUpNothing(j) ==
  /\ worker[j] = "cleaning" /\ Goto(j, "ended")
  /\ registered' = registered \ {j}
  /\ UNCHANGED <<status, cancelled, staging, dirVars, deletion, history>>

\* The deferred calls.
CleanUp(j) ==
  /\ worker[j] = "cleaning" /\ Goto(j, "ended")
  /\ staging' = [staging EXCEPT ![j] = "none"]
  /\ registered' = registered \ {j}
  /\ UNCHANGED <<status, cancelled, dirVars, deletion, history>>

-----------------------------------------------------------------------------
(* deleteModel.                                                            *)

DeleteGoto(step) == deletion' = step

RequestDelete ==
  /\ deletion = "idle" /\ lock = "free"
  /\ lock' = "delete" /\ DeleteGoto("checking")
  /\ UNCHANGED <<jobVars, final, retired, trash, history>>

Release(step) == lock' = "free" /\ DeleteGoto(step)

\* Mutant of Refuse: the lock is not released on this path.
RefuseLocked ==
  /\ deletion = "checking"
  /\ DeleteGoto("idle")
  /\ UNCHANGED <<jobVars, dirVars, history>>

\* It is refused for a model that is used by an instance, is not in the catalog or
\* not as it was scanned, or when what earlier deletions left cannot be removed.
Refuse ==
  /\ deletion = "checking"
  /\ Release("idle")
  /\ UNCHANGED <<jobVars, final, retired, trash, history>>

\* What earlier deletions left is removed first.
Accept ==
  /\ deletion = "checking" /\ Whole
  /\ trash' = {} /\ DeleteGoto("staging")
  /\ UNCHANGED <<jobVars, final, retired, lock, history>>

\* stageModelPaths.
StagePiece(p) ==
  /\ deletion = "staging" /\ p \in final
  /\ final' = final \ {p} /\ trash' = trash \cup {p}
  /\ UNCHANGED <<jobVars, retired, lock, deletion, history>>

\* Everything is staged, and a rescan does not find the model any more.
StagedAll ==
  /\ deletion = "staging" /\ final = {}
  /\ DeleteGoto("removing")
  /\ wanted' = FALSE
  /\ UNCHANGED <<jobVars, dirVars, crashed, spoiled>>

\* A piece cannot be staged, or the rescan fails.
StageFails ==
  /\ deletion = "staging" /\ DeleteGoto("rolling_back")
  /\ UNCHANGED <<jobVars, dirVars, history>>

\* rollbackStagedModelPaths: every staged piece is moved back ...
RollBackPiece(p) ==
  /\ deletion = "rolling_back" /\ p \in trash
  /\ trash' = trash \ {p} /\ final' = final \cup {p}
  /\ UNCHANGED <<jobVars, retired, lock, deletion, history>>

\* Mutant of RolledBack: the staging directory is removed at once.
RolledBackAtOnce ==
  /\ deletion = "rolling_back"
  /\ trash' = {}
  /\ Release("idle")
  /\ UNCHANGED <<jobVars, final, retired, history>>

\* ... and the staging directory removed, with whatever could not be moved.
RolledBack ==
  /\ deletion = "rolling_back"
  /\ \/ trash = {} /\ UNCHANGED spoiled
     \/ trash # {} /\ "io" \in Faults /\ spoiled' = TRUE
  /\ trash' = {}
  /\ Release("idle")
  /\ UNCHANGED <<jobVars, final, retired, wanted, crashed>>

\* The staged pieces are removed; what cannot be is left to the next deletion.
Remove ==
  /\ deletion = "removing"
  /\ trash' \in {{}, trash}
  /\ Release("idle")
  /\ UNCHANGED <<jobVars, final, retired, history>>

-----------------------------------------------------------------------------
Statuses == {"none", "queued", "running", "done", "failed", "deleted"}

\* What may be on the disk of a job: saves are written after the change and in any
\* order, and two that overlap can make the file unreadable.
Saved(s) ==
  CASE s = "none" -> {"none"}
    [] s = "queued" -> {"none", "queued"}
    [] s = "running" -> {"none", "queued", "running"}
    [] s \in {"done", "failed"} -> {"none", "queued", "running", s}
    [] s = "deleted" -> Statuses

\* The backend ends and is started again: the jobs are loaded and nobody works on
\* them, staged deletions are completed, the model directory is scanned.
Restart ==
  /\ "crash" \in Faults /\ ~crashed /\ crashed' = TRUE
  /\ spoiled' = \/ spoiled \/ deletion \in {"staging", "rolling_back"}
                \/ \E j \in Jobs : worker[j] = "installing"
  /\ status' \in [Jobs -> Statuses]
  /\ \A j \in Jobs : status'[j] \in Saved(status[j])
  /\ worker' = [j \in Jobs |-> IF worker[j] = "none" THEN "none" ELSE "ended"]
  /\ registered' = {} /\ cancelled' = {}
  /\ lock' = "free" /\ deletion' = "idle"
  /\ trash' \in {{}, trash}
  /\ UNCHANGED <<staging, final, retired, wanted>>

-----------------------------------------------------------------------------
WorkerStep(j) ==
  \/ Begin(j) \/ Register(j) \/ Download(j) \/ DownloadFails(j)
  \/ AcquireDirectory(j) \/ DropBackup(j) \/ RetireOld(j) \/ InstallNew(j) \/ Publish(j)
  \/ PublishFails(j) \/ Done(j) \/ Fail(j) \/ CleanUp(j)

DeleteStep ==
  \/ Refuse \/ Accept
  \/ (\E p \in Pieces : StagePiece(p)) \/ StagedAll \/ StageFails
  \/ (\E p \in Pieces : RollBackPiece(p)) \/ RolledBack
  \/ Remove

Next ==
  \/ \E j \in Jobs : CheckActive(j) \/ Create(j) \/ DeleteJob(j) \/ WorkerStep(j)
  \/ RequestDelete \/ DeleteStep
  \/ Restart

Spec == Init /\ [][Next]_vars

\* Goroutines go on, and the lock, a mutex, goes to a waiter in the end.
FairSpec ==
  /\ Spec
  /\ \A j \in Jobs : WF_vars(WorkerStep(j)) /\ SF_vars(AcquireDirectory(j))
  /\ WF_vars(DeleteStep)

-----------------------------------------------------------------------------
(* Properties.                                                             *)

Publishing == {"validating", "retiring", "installing", "installed"}
Working == {"downloading", "waiting", "failing", "cleaning"} \cup Publishing

\* Every variable has its type, and the lock of the directory is held by whoever
\* moves files in it.
TypeOK ==
  /\ status \in [Jobs -> Statuses]
  /\ worker \in [Jobs -> {"none", "checked", "created", "unregistered", "published", "ended"}
                          \cup Working]
  /\ registered \subseteq Jobs /\ cancelled \subseteq Jobs
  /\ staging \in [Jobs -> {"none", "partial", "complete"}]
  /\ final \subseteq Pieces /\ retired \subseteq Pieces /\ trash \subseteq Pieces
  /\ deletion \in {"idle", "checking", "staging", "removing", "rolling_back"}
  /\ lock \in Jobs \cup {"free", "delete"}
  /\ \A j \in Jobs : worker[j] \in Publishing <=> lock = j
  /\ deletion # "idle" <=> lock = "delete"
  /\ wanted \in BOOLEAN
  /\ crashed \in BOOLEAN /\ spoiled \in BOOLEAN

\* Whenever nobody moves files, a bundle that was published and not deleted is there
\* with all its pieces, and of a deleted one nothing is: a publication that fails, a
\* deletion that fails half way, a second job for the same model, an old bundle that
\* cannot be removed and a restart while no file is being moved change nothing.  After
\* a restart at the wrong moment, a rename that could not be undone, or one that put
\* back an old bundle for a deleted one, the next publication makes it whole.
PublishedIsKept ==
  lock = "free" /\ ~spoiled => final = IF wanted THEN Pieces ELSE {}

\* A staging directory belongs to a job that is at work on it, whichever way earlier
\* jobs ended; only a backend that ended leaves one behind.
StagingHasOwner ==
  \A j \in Jobs : staging[j] # "none" => worker[j] \in Working \/ crashed

\* A job that was begun ends and a deletion that was begun gives the directory back,
\* whoever else waits for it; the jobs of a backend that has ended stay as they are
\* for good.
OperationsEnd ==
  /\ \A j \in Jobs : status[j] = "running" ~> status[j] # "running" \/ crashed
  /\ deletion # "idle" ~> deletion = "idle"
=============================================================================

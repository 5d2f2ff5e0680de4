------------------------- MODULE InstanceLifecycle -------------------------
(***************************************************************************)
(* The life of one engine instance (modules/engine): the start and restart *)
(* transaction with its rollback (transaction.go, start.go, rollback.go),  *)
(* stop and delete (stop_delete.go), confirmed stops with their receipts   *)
(* and reapers (process_stop.go), the stops of the resource guard          *)
(* (resource_guard.go) and the two observers of a dead worker (retry.go,   *)
(* health_watch.go).                                                       *)
(*                                                                         *)
(* The supervisor is taken for what Supervisor.tla shows of it: handles    *)
(* are numbered, a new one is installed only when the current one is       *)
(* terminal, and a stop is confirmed (the handle is terminal) or not.      *)
(* A transaction that restarts further instances is not modelled: the plan *)
(* affects this instance only.  One section under m.mu is one action.      *)
(***************************************************************************)
EXTENDS Naturals, FiniteSets

CONSTANTS MaxHandles,   \* bound on the workers started
          Closers,      \* the operations that close the instance: "stop", "delete"
          Guards        \* {"guard"}, or {} for an engine whose guard never acts

ASSUME LifecycleAssumption ==
  /\ MaxHandles \in Nat
  /\ Closers \subseteq {"stop", "delete"}
  /\ Guards \subseteq {"guard"}

Handles == 1..MaxHandles
Actors == {"starter"} \cup Closers \cup Guards

VARIABLES
  exists,      \* the instance is in m.instances
  inst,        \* its State, Phase, WorkerSecret (the handle it routes to) and
               \* workerGeneration
  current,     \* the handle of the supervisor, 0 before the first
  alive,       \* the handles that are not terminal
  gate,        \* who holds the lifecycle gate
  pc,          \* where the start transaction is; its startExecutions entry
               \* exists until it is "idle"
  backup,      \* seedBackups[instanceID]
  cancelled,   \* actors whose operation was cancelled
  rolling,     \* the transaction is in its rollback
  closer,      \* where a stop or delete operation is
  already,     \* scheduleStop found the instance stopped
  guard,       \* where the emergency stop is
  captured,    \* the stop target an actor has captured
  receipt,     \* m.confirmedStops[instanceID]
  reapers,     \* reapUnconfirmedStop goroutines
  monitors,    \* the handles a monitorWorker goroutine waits for
  snapped      \* reconcileWorkers has seen the current handle terminal

instVars == <<exists, inst>>
workerVars == <<current, alive>>
startVars == <<pc, backup, rolling>>
closeVars == <<closer, already>>
stopVars == <<captured, receipt, reapers>>
watchVars == <<monitors, snapped>>
vars == <<instVars, workerVars, gate, cancelled, startVars, closeVars, guard,
          stopVars, watchVars>>

NoBackup == [state |-> "none", phase |-> "none", secret |-> 0, generation |-> 0]
NoTarget == [handle |-> 0, state |-> "none", phase |-> "none", generation |-> 0]

\* A confirmedStopTarget or unconfirmedStopMarker of the instance as it is.
TargetOf(h) == [handle |-> h, state |-> inst.state, phase |-> inst.phase,
                generation |-> inst.generation]

\* createInstanceWithID: its start is scheduled, and has no backup of it.
Init ==
  /\ exists = TRUE
  /\ inst = [state |-> "queued", phase |-> "queued", secret |-> 0, generation |-> 0]
  /\ current = 0 /\ alive = {}
  /\ gate = "free"
  /\ pc = "queued" /\ backup = NoBackup /\ rolling = FALSE
  /\ cancelled = {}
  /\ closer = [c \in Closers |-> "idle"] /\ already = FALSE
  /\ guard = "idle"
  /\ captured = [a \in Actors |-> NoTarget] /\ receipt = NoTarget
  /\ reapers = {} /\ monitors = {} /\ snapped = FALSE

-----------------------------------------------------------------------------
(* What several handlers share.                                            *)

\* setInstanceStateDetail: routing and generation stay as they are.
SetState(state, phase) ==
  inst' = IF exists THEN [inst EXCEPT !.state = state, !.phase = phase] ELSE inst

\* Stopped, with the routing cleared.
Cleared(state, phase) == [inst EXCEPT !.state = state, !.phase = phase, !.secret = 0]

\* Mutant of Merge: the routing is not looked at.
MergeIgnoringRouting(now, saved) ==
  IF saved.state # "ready" THEN saved
  ELSE IF now.generation = saved.generation
       THEN [now EXCEPT !.state = "ready", !.phase = "ready"]
       ELSE now

\* mergeLiveWorkerRollback: a ready backup is restored only over the same worker,
\* still routed, and only from Ready or the transaction's own drain; otherwise the
\* current state stays (the configuration, which is restored then, is not modelled).
Merge(now, saved) ==
  IF saved.state # "ready" THEN saved
  ELSE IF /\ now.generation = saved.generation
          /\ now.secret = saved.secret /\ now.secret # 0
          /\ now.state = "ready" \/ (now.state = "draining" /\ now.phase = "draining")
       THEN [now EXCEPT !.state = "ready", !.phase = "ready"]
       ELSE now

\* The merged instance is a new object: markers and receipts of the old one, which
\* are compared by identity, match nothing any more.
Restore ==
  /\ IF exists /\ backup # NoBackup
     THEN /\ inst' = Merge(inst, backup)
          /\ captured' = [a \in Actors |-> [NoTarget EXCEPT !.handle = captured[a].handle]]
          /\ receipt' = NoTarget /\ reapers' = {}
     ELSE UNCHANGED <<inst, stopVars>>

\* clearConfirmedStop and captureStopTarget.
Capture(a) ==
  /\ captured' = [captured EXCEPT ![a] = TargetOf(current)]
  /\ receipt' = NoTarget
  /\ UNCHANGED reapers

\* StopHandle or ForceStopHandle of the captured handle, and recordConfirmedStop.
\* A receipt is kept only when the guard may take it before it clears it itself.
Confirmed(a) ==
  /\ alive' = alive \ {captured[a].handle}
  /\ receipt' = IF a = "guard" \/ guard = "stopped" THEN captured[a] ELSE receipt
  /\ captured' = [captured EXCEPT ![a] = NoTarget]
  /\ UNCHANGED <<current, reapers>>

\* Or the process does not end in time: markStopUnconfirmed, and a reaper waits on.
Unconfirmed(a, phase) ==
  /\ captured[a].handle \in alive
  /\ IF exists /\ inst.state # "stopped"
     THEN /\ inst' = Cleared("draining", phase)
          /\ reapers' = reapers \cup
               {[handle |-> captured[a].handle, phase |-> phase,
                 generation |-> inst.generation, checked |-> FALSE]}
     ELSE UNCHANGED <<inst, reapers>>
  /\ captured' = [captured EXCEPT ![a] = NoTarget]
  /\ UNCHANGED <<current, alive, receipt>>

\* finalizeStopTarget looks at the supervisor ...
TargetIsGone(h) == current = h /\ h \notin alive

\* ... and then, under m.mu, at the instance.
Matches(state, phase, generation) ==
  /\ exists
  /\ inst.state = state /\ inst.phase = phase /\ inst.generation = generation

-----------------------------------------------------------------------------
(* The start transaction.                                                  *)

Goto(step) == pc' = step

\* scheduleStartForModel: an active start is returned instead of a new one.
ScheduleStart ==
  /\ exists /\ pc = "idle"
  /\ backup' = inst
  /\ inst' = IF inst.state = "ready" THEN inst
             ELSE [inst EXCEPT !.state = "queued", !.phase = "queued"]
  /\ Goto("queued")
  /\ UNCHANGED <<exists, workerVars, gate, cancelled, rolling, closeVars, guard, stopVars, watchVars>>

\* cancelOperation of the start: by the client, or by relievePressure.
CancelStart ==
  /\ pc \notin {"idle", "finishing"} /\ "starter" \notin cancelled
  /\ cancelled' = cancelled \cup {"starter"}
  /\ UNCHANGED <<instVars, workerVars, gate, startVars, closeVars, guard, stopVars, watchVars>>

\* The start queue grants the slot (StartQueue.tla).
Dequeue ==
  /\ pc = "queued" /\ Goto("gating")
  /\ UNCHANGED <<instVars, workerVars, gate, cancelled, backup, rolling, closeVars,
                 guard, stopVars, watchVars>>

\* The wait for the slot fails, by cancellation or its own timeout, or the wait for
\* the gate does: the backup is restored ...
LeaveQueue ==
  /\ \/ pc = "queued" /\ Goto("timed_out")
     \/ pc \in {"queued", "gating"} /\ "starter" \in cancelled /\ Goto("left")
  /\ Restore
  /\ UNCHANGED <<exists, workerVars, gate, cancelled, backup, rolling, closeVars, guard,
                 watchVars>>

\* ... and unless that was a ready instance, it becomes stopped or failed.
LeftQueue ==
  /\ pc \in {"left", "timed_out"} /\ Goto("finishing")
  /\ IF backup.state = "ready" THEN UNCHANGED inst
     ELSE IF pc = "left" THEN SetState("stopped", "stopped") ELSE SetState("failed", "failed")
  /\ UNCHANGED <<exists, workerVars, gate, cancelled, backup, rolling, closeVars, guard,
                 stopVars, watchVars>>

\* acquireLifecycle: a cancelled start may still get the gate.  The first start of
\* the instance takes its backup here.
TakeGate ==
  /\ pc = "gating" /\ gate = "free"
  /\ gate' = "starter"
  /\ Goto(IF exists THEN "preparing" ELSE "releasing")
  /\ backup' = IF backup = NoBackup THEN inst ELSE backup
  /\ UNCHANGED <<instVars, workerVars, cancelled, rolling, closeVars, guard,
                 stopVars, watchVars>>

\* prepareRuntime, of the transaction and of startOne: the runtime is installed, and
\* unless the instance serves requests, its state says so.
Install ==
  /\ pc \in {"preparing", "launching"}
  /\ inst.state # "ready" \/ inst.secret = 0
  /\ SetState("installing", "installing")
  /\ UNCHANGED <<exists, workerVars, gate, cancelled, startVars, closeVars, guard, stopVars,
                 watchVars>>

\* The runtime cannot be prepared, or the plan no longer fits (failBeforeDrain).
FailBeforeDrain ==
  /\ pc = "preparing"
  /\ IF backup.state = "ready"
     THEN Restore /\ Goto("releasing")
     ELSE /\ Goto(IF "starter" \in cancelled THEN "set_stopped" ELSE "set_failed")
          /\ UNCHANGED <<inst, stopVars>>
  /\ UNCHANGED <<exists, workerVars, gate, cancelled, backup, rolling, closeVars, guard,
                 watchVars>>

\* The cancellation is noticed before the drain (restoreBeforeDrainCancellation).
CancelBeforeDrain ==
  /\ pc = "preparing" /\ "starter" \in cancelled
  /\ Restore
  /\ Goto(IF backup.state = "ready" THEN "releasing" ELSE "set_stopped")
  /\ UNCHANGED <<exists, workerVars, gate, cancelled, backup, rolling, closeVars, guard,
                 watchVars>>

\* States that hold resources: a worker may be there and is drained and stopped.
ResourceHolding(state) ==
  state \in {"installing", "queued", "starting", "ready", "draining"}

\* From the first launch on, all that is asked of the backup is whether it is ready.
StateOf(saved) == IF saved.state = "ready" THEN [NoBackup EXCEPT !.state = "ready"]
                  ELSE NoBackup

\* The states Restarting and Draining are set one after the other.
BeginDrain ==
  /\ pc = "preparing"
  /\ IF ResourceHolding(backup.state)
     THEN SetState("draining", "draining") /\ Goto("draining")
     ELSE Goto("launching") /\ UNCHANGED inst
  /\ backup' = IF ResourceHolding(backup.state) THEN backup ELSE StateOf(backup)
  /\ UNCHANGED <<exists, workerVars, gate, cancelled, rolling, closeVars, guard,
                 stopVars, watchVars>>

\* Cancelled in the drain: failTransactionScoped with nothing stopped yet.
CancelDrain ==
  /\ pc = "draining" /\ "starter" \in cancelled
  /\ IF backup.state = "ready"
     THEN Restore /\ Goto("releasing")
     ELSE Goto("set_stopped") /\ UNCHANGED <<inst, stopVars>>
  /\ UNCHANGED <<exists, workerVars, gate, cancelled, backup, rolling, closeVars, guard,
                 watchVars>>

\* Drained, or 32 seconds are over: the old worker is stopped.
CaptureOld ==
  /\ pc = "draining" /\ Goto("stopping")
  /\ Capture("starter")
  /\ UNCHANGED <<instVars, workerVars, gate, cancelled, backup, rolling, closeVars, guard,
                 watchVars>>

\* A worker that may still run is not replaced.
StopOld ==
  /\ pc = "stopping"
  /\ \/ /\ Confirmed("starter") /\ Goto("launching")
        /\ UNCHANGED inst
     \/ /\ Unconfirmed("starter", "restart_stop_unconfirmed") /\ Goto("releasing")
  /\ backup' = StateOf(backup)
  /\ UNCHANGED <<exists, gate, cancelled, rolling, closeVars, guard, watchVars>>

-----------------------------------------------------------------------------
(* startOne, for the new plan or, in the rollback, for the last good one.  *)

Launch ==
  /\ pc = "launching" /\ Goto("starting")
  /\ SetState("starting", "launching_worker")
  /\ UNCHANGED <<exists, workerVars, gate, cancelled, backup, rolling, closeVars, guard,
                 stopVars, watchVars>>

\* Anything before the worker's start fails, Start's rejection of a live handle
\* included.
LaunchFails ==
  /\ pc \in {"launching", "starting"} /\ Goto("failing")
  /\ UNCHANGED <<instVars, workerVars, gate, cancelled, backup, rolling, closeVars, guard,
                 stopVars, watchVars>>

\* supervisor.Start installs a new handle.  A reaper that has not seen the old one
\* terminal by now sees that it was replaced, and is done.
StartWorker ==
  /\ pc = "starting" /\ current \notin alive /\ current + 1 \in Handles
  /\ current' = current + 1 /\ alive' = alive \cup {current + 1}
  /\ reapers' = {r \in reapers : r.checked}
  /\ Goto("loading")
  /\ UNCHANGED <<instVars, gate, cancelled, backup, rolling, closeVars, guard, captured,
                 receipt, watchVars>>

\* The Progress callback, while Start runs.
Progress ==
  /\ pc = "loading" /\ SetState("starting", "loading")
  /\ UNCHANGED <<exists, workerVars, gate, cancelled, startVars, closeVars, guard,
                 stopVars, watchVars>>

\* Start returns a healthy worker; or an error, with a fallback to try or not,
\* after its own stop, whose result it does not report.
StartReturns ==
  /\ pc = "loading"
  /\ \/ /\ current \in alive /\ Goto("verifying")
        /\ SetState("starting", "verifying_worker")
        /\ UNCHANGED alive
     \/ /\ alive' \in {alive, alive \ {current}}
        /\ \/ Goto("launching") \/ Goto("failing")
        /\ UNCHANGED inst
  /\ UNCHANGED <<exists, current, gate, cancelled, backup, rolling, closeVars, guard,
                 stopVars, watchVars>>

\* The worker answers the test request; or it does not, or the context search wants
\* to try a longer context, and it is stopped.
Verify ==
  /\ pc = "verifying"
  /\ \/ /\ current \in alive /\ Goto("verified")
        /\ UNCHANGED stopVars
     \/ /\ Capture("starter") /\ Goto("cleaning")
  /\ UNCHANGED <<instVars, workerVars, gate, cancelled, backup, rolling, closeVars, guard,
                 watchVars>>

\* Only a confirmed stop is followed by another attempt.  In the rollback the
\* failure of either kind becomes FailedRollback.
CleanUp ==
  /\ pc = "cleaning"
  /\ \/ /\ Confirmed("starter")
        /\ \/ Goto("launching") \/ Goto("failing")
        /\ UNCHANGED inst
     \/ /\ Unconfirmed("starter", "verify_stop_unconfirmed")
        /\ Goto(IF rolling THEN "set_failed" ELSE "releasing")
  /\ UNCHANGED <<exists, gate, cancelled, backup, rolling, closeVars, guard, watchVars>>

\* The worker becomes the instance's, whatever its state is by now.
Commit ==
  /\ pc = "verified" /\ Goto("releasing")
  /\ inst' = [state |-> "ready", phase |-> "ready", secret |-> current,
              generation |-> inst.generation + 1]
  /\ monitors' = monitors \cup {current}
  /\ UNCHANGED <<exists, workerVars, gate, cancelled, backup, rolling, closeVars, guard,
                 stopVars, snapped>>

\* failTransactionScoped after startOne: an instance that was ready is started
\* again with its last good plan, once.
Fail ==
  /\ pc = "failing"
  /\ \/ /\ ~rolling /\ backup.state = "ready"
        /\ rolling' = TRUE /\ Goto("launching")
     \/ /\ rolling \/ backup.state # "ready"
        /\ Goto(IF ~rolling /\ "starter" \in cancelled THEN "set_stopped" ELSE "set_failed")
        /\ UNCHANGED rolling
  /\ UNCHANGED <<instVars, workerVars, gate, cancelled, backup, closeVars, guard, stopVars,
                 watchVars>>

\* Mutant of SetOutcome: the primary instance is left as it is.
LeaveOutcome ==
  /\ pc \in {"set_failed", "set_stopped"} /\ Goto("releasing")
  /\ UNCHANGED <<instVars, workerVars, gate, cancelled, backup, rolling, closeVars, guard,
                 stopVars, watchVars>>

\* The last word on an instance that was not ready before: Failed (FailedRollback is
\* not told apart), or Stopped after a cancellation.
SetOutcome ==
  /\ pc \in {"set_failed", "set_stopped"} /\ Goto("releasing")
  /\ IF pc = "set_failed" THEN SetState("failed", "failed") ELSE SetState("stopped", "stopped")
  /\ UNCHANGED <<exists, workerVars, gate, cancelled, backup, rolling, closeVars, guard,
                 stopVars, watchVars>>

\* The deferred calls: the gate is released, then the entry in startExecutions
\* removed.  Until then a new start is answered with this one.  A stop that has not
\* cancelled the start by now comes too late for that.
Finish ==
  /\ \/ pc = "releasing" /\ gate' = "free" /\ Goto("finishing")
     \/ pc = "finishing" /\ Goto("idle") /\ UNCHANGED gate
  /\ rolling' = FALSE
  /\ backup' = NoBackup
  /\ cancelled' = cancelled \ {"starter"}
  /\ closer' = [c \in Closers |-> IF closer[c] = "cancelling" THEN "waiting" ELSE closer[c]]
  /\ UNCHANGED <<instVars, workerVars, already, guard, stopVars, watchVars>>

-----------------------------------------------------------------------------
(* Stop and delete.                                                        *)

GotoClose(c, step) == closer' = [closer EXCEPT ![c] = step]

\* claimIdleStop, claimPressureStop: an instance without requests is claimed.  The
\* first respects a start of the instance, the second not in an emergency.
Claim ==
  /\ "stop" \in Closers /\ closer["stop"] = "idle"
  /\ exists /\ inst.state = "ready"
  /\ inst' = Cleared("draining", "claimed")
  /\ GotoClose("stop", "claimed")
  /\ UNCHANGED <<exists, workerVars, gate, cancelled, startVars, already, guard, stopVars,
                 watchVars>>

\* scheduleStop, by a client or after Claim, and scheduleDelete.
ScheduleClose(c) ==
  /\ closer[c] \in {"idle", "claimed"}
  /\ IF exists
     THEN GotoClose(c, IF c = "stop" /\ pc \notin {"idle", "finishing"} THEN "cancelling"
                       ELSE "waiting")
     ELSE closer[c] = "claimed" /\ GotoClose(c, "idle")
  /\ already' = IF c = "stop" THEN inst.state \in {"stopped", "failed"} ELSE already
  /\ UNCHANGED <<instVars, workerVars, gate, cancelled, startVars, guard, stopVars, watchVars>>

\* After the unlock, scheduleStop cancels the start that it has seen active.
CancelActive(c) ==
  /\ closer[c] = "cancelling" /\ GotoClose(c, "waiting")
  /\ cancelled' = cancelled \cup {"starter"}
  /\ UNCHANGED <<instVars, workerVars, gate, startVars, already, guard, stopVars, watchVars>>

\* cancelOperation of the stop or delete.
CancelClose(c) ==
  /\ closer[c] \notin {"idle", "claimed", "cancelling"} /\ c \notin cancelled
  /\ cancelled' = cancelled \cup {c}
  /\ UNCHANGED <<instVars, workerVars, gate, startVars, closeVars, guard, stopVars, watchVars>>

\* acquireLifecycle with the operation's context.
TakeGateToClose(c) ==
  /\ closer[c] = "waiting"
  /\ \/ /\ c \in cancelled
        /\ GotoClose(c, "idle")
        /\ cancelled' = cancelled \ {c} /\ already' = (already /\ c # "stop")
        /\ UNCHANGED gate
     \/ /\ gate = "free" /\ gate' = c
        /\ GotoClose(c, "entered")
        /\ UNCHANGED <<cancelled, already>>
  /\ UNCHANGED <<instVars, workerVars, startVars, guard, stopVars,
                 watchVars>>

\* An instance that was stopped when the stop was requested is only marked; any
\* other is drained.
BeginClose(c) ==
  /\ closer[c] = "entered"
  /\ IF c = "stop" /\ already
     THEN SetState("stopped", "stopped") /\ GotoClose(c, "releasing")
     ELSE SetState("draining", "draining") /\ GotoClose(c, "draining")
  /\ UNCHANGED <<exists, workerVars, gate, cancelled, startVars, already, guard, stopVars,
                 watchVars>>

CaptureToClose(c) ==
  /\ closer[c] = "draining" /\ GotoClose(c, "stopping")
  /\ Capture(c)
  /\ UNCHANGED <<instVars, workerVars, gate, cancelled, startVars, already, guard, watchVars>>

\* Mutant of StopToClose: an unconfirmed stop is not told from a confirmed one.
StopToCloseUnchecked(c) ==
  /\ closer[c] = "stopping" /\ GotoClose(c, "stopped")
  /\ alive' \in {alive, alive \ {captured[c].handle}}
  /\ UNCHANGED <<instVars, current, gate, cancelled, startVars, already, guard, stopVars,
                 watchVars>>

StopToClose(c) ==
  /\ closer[c] = "stopping"
  /\ \/ /\ Confirmed(c) /\ GotoClose(c, "stopped")
        /\ UNCHANGED inst
     \/ /\ Unconfirmed(c, IF c = "stop" THEN "stop_unconfirmed" ELSE "delete_stop_unconfirmed")
        /\ GotoClose(c, "releasing")
  /\ UNCHANGED <<exists, gate, cancelled, startVars, already, guard, watchVars>>

\* The stop is recorded even if it was cancelled meanwhile; the deletion is not made.
CompleteClose(c) ==
  /\ closer[c] = "stopped" /\ GotoClose(c, "releasing")
  /\ \/ /\ c = "stop"
        /\ inst' = IF exists THEN Cleared("stopped", "stopped") ELSE inst
        /\ UNCHANGED exists
     \/ /\ c = "delete" /\ c \notin cancelled
        /\ exists' = FALSE
        /\ UNCHANGED inst
     \/ /\ c = "delete" /\ c \in cancelled
        /\ UNCHANGED instVars
  /\ UNCHANGED <<workerVars, gate, cancelled, startVars, already, guard, stopVars, watchVars>>

\* Mutant of FinishClose: the gate is not given back.
FinishCloseKeepingGate(c) ==
  /\ closer[c] = "releasing" /\ GotoClose(c, "idle")
  /\ cancelled' = cancelled \ {c} /\ already' = (already /\ c # "stop")
  /\ UNCHANGED <<instVars, workerVars, gate, startVars, guard, stopVars,
                 watchVars>>

FinishClose(c) ==
  /\ closer[c] = "releasing" /\ GotoClose(c, "idle")
  /\ gate' = "free"
  /\ cancelled' = cancelled \ {c} /\ already' = (already /\ c # "stop")
  /\ UNCHANGED <<instVars, workerVars, startVars, guard, stopVars,
                 watchVars>>

-----------------------------------------------------------------------------
(* The emergency stop of the resource guard, which takes no gate.          *)

\* emergencyStartingCandidate, pressureEvictionCandidate.
PickVictim ==
  /\ Guards # {} /\ guard = "idle" /\ exists
  /\ inst.state = "ready" \/ (inst.state \in {"installing", "starting"} /\ current \in alive)
  /\ guard' = "picked"
  /\ UNCHANGED <<instVars, workerVars, gate, cancelled, startVars, closeVars, stopVars,
                 watchVars>>

\* emergencyTerminate closes the instance for requests ...
MarkVictim ==
  /\ guard = "picked"
  /\ IF exists /\ inst.state \notin {"stopped", "failed"}
     THEN inst' = Cleared("draining", "guard_emergency_stopping") /\ guard' = "marked"
     ELSE guard' = "idle" /\ UNCHANGED inst
  /\ UNCHANGED <<exists, workerVars, gate, cancelled, startVars, closeVars, stopVars,
                 watchVars>>

\* ... and ends its worker at once.
CaptureVictim ==
  /\ guard = "marked" /\ guard' = "stopping"
  /\ Capture("guard")
  /\ UNCHANGED <<instVars, workerVars, gate, cancelled, startVars, closeVars, watchVars>>

StopVictim ==
  /\ guard = "stopping"
  /\ \/ /\ Confirmed("guard") /\ guard' = "stopped"
        /\ UNCHANGED inst
     \/ /\ Unconfirmed("guard", "guard_emergency_unconfirmed") /\ guard' = "idle"
  /\ UNCHANGED <<exists, gate, cancelled, startVars, closeVars, watchVars>>

\* finalizeConfirmedStop takes whatever receipt there is by now ...
TakeReceipt ==
  /\ guard = "stopped"
  /\ captured' = [captured EXCEPT !["guard"] = receipt] /\ receipt' = NoTarget
  /\ guard' = IF receipt # NoTarget /\ TargetIsGone(receipt.handle) THEN "checked" ELSE "idle"
  /\ UNCHANGED <<instVars, workerVars, gate, cancelled, startVars, closeVars, reapers,
                 watchVars>>

\* ... and the instance is stopped if it is still the one of the receipt.
FinalizeVictim ==
  /\ guard = "checked" /\ guard' = "idle"
  /\ LET t == captured["guard"]
     IN  inst' = IF Matches(t.state, t.phase, t.generation)
                 THEN Cleared("stopped", "stopped") ELSE inst
  /\ captured' = [captured EXCEPT !["guard"] = NoTarget]
  /\ UNCHANGED <<exists, workerVars, gate, cancelled, startVars, closeVars, receipt, reapers,
                 watchVars>>

-----------------------------------------------------------------------------
(* Observers of the worker's end.                                          *)

\* A worker ends by itself, or at last after an unconfirmed stop.
Exit ==
  /\ \E h \in alive : alive' = alive \ {h}
  /\ UNCHANGED <<instVars, current, gate, cancelled, startVars, closeVars, guard, stopVars,
                 watchVars>>

\* A reaper sees its handle terminal and still the current one.  (Bound: one reaper
\* at a time is between this and its look at the instance.)
ReaperCheck(r) ==
  /\ ~r.checked /\ r.handle \notin alive
  /\ \A q \in reapers : ~q.checked
  /\ reapers' = (reapers \ {r}) \cup {[r EXCEPT !.checked = TRUE]}
  /\ UNCHANGED <<instVars, workerVars, gate, cancelled, startVars, closeVars, guard,
                 captured, receipt, watchVars>>

\* Mutant of Reap: the generation is not compared.
ReapAnyGeneration(r) ==
  /\ r.checked
  /\ inst' = IF Matches("draining", r.phase, inst.generation)
             THEN Cleared("stopped", "stopped") ELSE inst
  /\ reapers' = reapers \ {r}
  /\ UNCHANGED <<exists, workerVars, gate, cancelled, startVars, closeVars, guard, captured,
                 receipt, watchVars>>

Reap(r) ==
  /\ r.checked
  /\ inst' = IF Matches("draining", r.phase, r.generation)
             THEN Cleared("stopped", "stopped") ELSE inst
  /\ reapers' = reapers \ {r}
  /\ UNCHANGED <<exists, workerVars, gate, cancelled, startVars, closeVars, guard, captured,
                 receipt, watchVars>>

\* monitorWorker: only a ready instance that still routes to the worker fails.
Monitor(h) ==
  /\ h \in monitors /\ h \notin alive
  /\ monitors' = monitors \ {h}
  /\ inst' = IF exists /\ inst.state = "ready" /\ inst.secret = h
             THEN Cleared("failed", "failed") ELSE inst
  /\ UNCHANGED <<exists, workerVars, gate, cancelled, startVars, closeVars, guard, stopVars,
                 snapped>>

\* reconcileWorkers asks the supervisor for its terminal handles ...
Snapshot ==
  /\ ~snapped /\ current # 0 /\ current \notin alive
  /\ snapped' = TRUE
  /\ UNCHANGED <<instVars, workerVars, gate, cancelled, startVars, closeVars, guard, stopVars,
                 monitors>>

\* Mutant of Reconcile: an instance with a monitor is left to it.
ReconcileUnmonitored ==
  /\ snapped /\ snapped' = FALSE
  /\ inst' = IF exists /\ inst.state = "ready" /\ pc = "idle" /\ monitors = {}
             THEN Cleared("failed", "failed") ELSE inst
  /\ UNCHANGED <<exists, workerVars, gate, cancelled, startVars, closeVars, guard, stopVars,
                 monitors>>

\* ... and fails a ready instance without a start under way.
Reconcile ==
  /\ snapped /\ snapped' = FALSE
  /\ inst' = IF exists /\ inst.state = "ready" /\ pc = "idle"
             THEN Cleared("failed", "failed") ELSE inst
  /\ UNCHANGED <<exists, workerVars, gate, cancelled, startVars, closeVars, guard, stopVars,
                 monitors>>

-----------------------------------------------------------------------------
StarterStep ==
  \/ Dequeue \/ LeaveQueue \/ LeftQueue \/ TakeGate
  \/ FailBeforeDrain \/ CancelBeforeDrain \/ BeginDrain \/ CancelDrain
  \/ CaptureOld \/ StopOld
  \/ Launch \/ LaunchFails \/ StartWorker \/ StartReturns \/ Verify \/ CleanUp
  \/ Commit \/ Fail \/ SetOutcome \/ Finish

\* The claim of an idle instance is followed by its stop.
CloserStep(c) ==
  \/ (closer[c] = "claimed" /\ ScheduleClose(c))
  \/ CancelActive(c) \/ TakeGateToClose(c) \/ BeginClose(c) \/ CaptureToClose(c)
  \/ StopToClose(c) \/ CompleteClose(c) \/ FinishClose(c)

GuardStep ==
  \/ MarkVictim \/ CaptureVictim \/ StopVictim \/ TakeReceipt \/ FinalizeVictim

Next ==
  \/ ScheduleStart \/ CancelStart \/ StarterStep \/ Install \/ Progress
  \/ Claim
  \/ \E c \in Closers : ScheduleClose(c) \/ CancelClose(c) \/ CloserStep(c)
  \/ PickVictim \/ GuardStep
  \/ Exit
  \/ \E r \in reapers : ReaperCheck(r) \/ Reap(r)
  \/ \E h \in Handles : Monitor(h)
  \/ Snapshot \/ Reconcile

Spec == Init /\ [][Next]_vars

\* A goroutine goes on; the lifecycle gate is a channel, which serves its waiters in
\* order; the maintenance loop reconciles again and again.  Nobody has to start,
\* stop, cancel or crash, and nothing is asked of the guard, of the reapers and of
\* the monitors.
Fairness ==
  /\ WF_vars(StarterStep) /\ SF_vars(TakeGate)
  /\ \A c \in Closers : WF_vars(CloserStep(c)) /\ SF_vars(TakeGateToClose(c))
  /\ WF_vars(Snapshot \/ Reconcile)

FairSpec == Spec /\ Fairness

-----------------------------------------------------------------------------
(* Properties.                                                             *)

Phases == {"queued", "installing", "draining", "claimed", "guard_emergency_stopping",
           "stop_unconfirmed", "delete_stop_unconfirmed", "restart_stop_unconfirmed",
           "verify_stop_unconfirmed", "guard_emergency_unconfirmed", "launching_worker",
           "loading", "verifying_worker", "ready", "stopped", "failed"}
States == {"queued", "installing", "starting", "ready", "draining", "stopped", "failed"}
StarterHolds == {"preparing", "draining", "stopping", "launching", "starting", "loading",
                 "verifying", "verified", "cleaning", "failing", "set_failed",
                 "set_stopped", "releasing"}
CloserHolds == {"entered", "draining", "stopping", "stopped", "releasing"}
Instances == [state: States, phase: Phases, secret: 0..MaxHandles,
              generation: 0..MaxHandles]
Targets == [handle: 0..MaxHandles, state: States \cup {"none"},
            phase: Phases \cup {"none"}, generation: 0..MaxHandles]

\* Every variable has its type, the gate is held by the operation that is between
\* its acquisition and its release, and only the current handle can be alive.
TypeOK ==
  /\ exists \in BOOLEAN
  /\ inst \in Instances
  /\ backup \in Instances \cup {NoBackup, [NoBackup EXCEPT !.state = "ready"]}
  /\ current \in 0..MaxHandles /\ alive \subseteq {current}
  /\ pc \in {"idle", "queued", "left", "timed_out", "gating", "finishing"} \cup StarterHolds
  /\ closer \in [Closers -> {"idle", "claimed", "cancelling", "waiting"} \cup CloserHolds]
  /\ gate \in {"free", "starter"} \cup Closers
  /\ pc \in StarterHolds <=> gate = "starter"
  /\ \A c \in Closers : closer[c] \in CloserHolds <=> gate = c
  /\ rolling \in BOOLEAN /\ already \in BOOLEAN /\ snapped \in BOOLEAN
  /\ cancelled \subseteq {"starter"} \cup Closers
  /\ guard \in {"idle", "picked", "marked", "stopping", "stopped", "checked"}
  /\ captured \in [Actors -> Targets] /\ receipt \in Targets
  /\ \A r \in reapers : r \in [handle: Handles, phase: Phases, generation: 0..MaxHandles,
                               checked: BOOLEAN]
  /\ monitors \subseteq Handles

\* A ready instance routes to the current worker: no rollback, however late, brings
\* back a routing that an emergency, a claim or a crash has cleared, or an old one.
ReadyIsRouted == exists /\ inst.state = "ready" => inst.secret = current /\ current # 0

\* When an instance is gone, so is its worker, whatever was started or failed to be
\* stopped before.
DeletedHasNoWorker == ~exists => alive = {}

\* An instance is never left queued or starting without a start that is at it.
TransientHasOwner ==
  exists /\ inst.state \in {"queued", "starting"} => pc \notin {"idle", "finishing"}

\* A reaper of an old stop never marks the instance stopped while a worker that has
\* replaced the old one and become ready runs, though it looks at the supervisor and
\* at the instance one after the other.  (A newer worker that has not become ready
\* has the same generation, and can be hit.)
ReplacementSurvivesReaper ==
  [][(\E r \in reapers : Reap(r)) /\ inst' # inst => alive \cap monitors = {}]_vars

\* An operation that was accepted ends: the gate is given back on every path.
OperationsEnd ==
  /\ pc # "idle" ~> pc = "idle"
  /\ \A c \in Closers : closer[c] # "idle" ~> closer[c] = "idle"

\* A ready instance whose worker has ended does not stay ready, whatever its monitor
\* does (it gives up for good when the instance happens to be draining, and a
\* cancelled restart may make it ready again).
DeadWorkerLeavesReady ==
  exists /\ inst.state = "ready" /\ current \notin alive /\ pc = "idle"
    ~> ~(exists /\ inst.state = "ready" /\ current \notin alive /\ pc = "idle")

\* process_stop_test.go:14, TestUnconfirmedStopRemainsDrainingAndResourceHolding: an
\* instance whose stop is not confirmed is not taken for stopped or failed while
\* the worker runs, also when a start of it is cancelled or fails.
UnconfirmedStopHoldsResources ==
  [][inst.phase \in {"stop_unconfirmed", "delete_stop_unconfirmed"}
       /\ alive # {} /\ alive' = alive
       => inst'.state \notin {"stopped", "failed"}]_vars
-----------------------------------------------------------------------------
(* What the requests of InferenceGate.tla see of all this.                 *)

\* A start that took the instance ready may still put it back: its backup has the
\* routing that the instance has.
Reopenable ==
  /\ pc \in {"queued", "gating", "preparing", "draining"}
  /\ backup.state = "ready"
  /\ backup.secret = inst.secret /\ inst.secret # 0
  /\ backup.generation = inst.generation

\* A start that takes the instance as it is, not ready, puts all of it back.
Returnable ==
  /\ pc \in {"queued", "gating", "preparing"}
  /\ backup.state \notin {"ready", "none"} /\ backup.secret # 0

routingState ==
  IF ~exists THEN "closed"
  ELSE IF inst.state = "ready" THEN "ready"
  ELSE IF Reopenable THEN "paused" ELSE "closed"

routingSecret == IF exists /\ inst.secret # 0 THEN inst.generation ELSE 0

routingSaved == IF exists /\ Returnable THEN backup.generation ELSE 0

Routing == INSTANCE InstanceRouting WITH
  state <- routingState, generation <- inst.generation,
  secret <- routingSecret, saved <- routingSaved

\* A routing that a stop, an emergency, a crash or a deletion has closed does not
\* open again: every start opens the routing of its own worker, and a rollback only
\* the one it has paused itself.
ImplementsRouting == Routing!Spec
=============================================================================

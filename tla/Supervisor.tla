----------------------------- MODULE Supervisor -----------------------------
(***************************************************************************)
(* The worker processes of one engine instance:                            *)
(* internal/engineruntime/supervisor.go with the spawn gate of             *)
(* modules/engine/spawn_gate.go that the engine passes to it.              *)
(*                                                                         *)
(* Every Start installs a new handle; handles are numbered in that order.  *)
(* The actors are the goroutine that starts the instance (it holds the     *)
(* engine's lifecycle gate, so there is one), the watch goroutine of each  *)
(* handle, the worker processes, and the callers of the stop operations:   *)
(* the holder of the lifecycle gate ("owner"), the emergency stop of the   *)
(* resource guard ("guard"), Shutdown ("shutdown"), neither of which waits *)
(* for a start to end, and stopWithTerminal within Start ("starter").      *)
(* One lock section of a handle or of the supervisor is one action.        *)
(***************************************************************************)
EXTENDS Naturals

CONSTANTS MaxHandles,      \* bound on the number of Start calls
          MaxRelaxations   \* bound on how often the guard leaves the emergency

ASSUME SupervisorAssumption == MaxHandles \in Nat /\ MaxRelaxations \in Nat

Handles == 1..MaxHandles
Stoppers == {"owner", "guard", "shutdown", "starter"}
Terminal == {"stopped", "failed"}

VARIABLES
  current,       \* s.instances[id], 0 before the first Start
  state,         \* handle.snapshot.State
  process,       \* cmd.Process: none, alive or dead
  done,          \* handles whose done channel is closed
  override,      \* handle.terminalOverride; stopRequested is set with it
  watch,         \* where the watch goroutine of a handle is
  pc,            \* where the starting goroutine is in Start
  ctxDone,       \* the context of the running Start is done
  stopping,      \* where a caller of a stop operation is
  target,        \* the handle it stops
  killed,        \* handles whose process group got SIGKILL
  guard,         \* m.guardState, as far as the spawn gate looks at it
  shuttingDown,  \* m.shuttingDown
  relaxations    \* how often the guard has left the emergency

handleVars == <<current, state, process, done, override, watch, killed>>
guardVars == <<guard, shuttingDown, relaxations>>
startVars == <<pc, ctxDone>>
stopVars == <<stopping, target>>
vars == <<handleVars, guardVars, startVars, stopVars>>

Init ==
  /\ current = 0
  /\ state = [h \in Handles |-> "none"]
  /\ process = [h \in Handles |-> "none"]
  /\ done = {} /\ killed = {}
  /\ override = [h \in Handles |-> "none"]
  /\ watch = [h \in Handles |-> "none"]
  /\ pc = "idle" /\ ctxDone = FALSE
  /\ stopping = [s \in Stoppers |-> "idle"]
  /\ target = [s \in Stoppers |-> 0]
  /\ guard = "normal" /\ shuttingDown = FALSE /\ relaxations = 0

\* spawnGateMu, from a successful admission until releaseSpawn.
SpawnGateHeld == pc \in {"spawning", "binding"}

\* failBeforeStart: the state is written under the handle's mutex, the channel
\* closed after it.
WriteFailed(h) ==
  /\ state' = [state EXCEPT ![h] = "failed"]
  /\ UNCHANGED <<current, process, done, override, watch, killed>>

CloseDone(h) ==
  /\ done' = done \cup {h}
  /\ UNCHANGED <<current, state, process, override, watch, killed>>

-----------------------------------------------------------------------------
(* Start.                                                                  *)

\* Mutant of Start: the handle is replaced whatever its state.
StartOverLiveHandle ==
  /\ pc = "idle" /\ stopping["owner"] = "idle"
  /\ current + 1 \in Handles
  /\ current' = current + 1
  /\ state' = [state EXCEPT ![current + 1] = "queued"]
  /\ pc' = "preparing" /\ ctxDone' = FALSE
  /\ UNCHANGED <<process, done, override, watch, killed, guardVars, stopVars>>

\* A handle that is not terminal rejects the call; otherwise a new one replaces it.
Start ==
  /\ pc = "idle" /\ stopping["owner"] = "idle"
  /\ current > 0 => state[current] \in Terminal
  /\ current + 1 \in Handles
  /\ current' = current + 1
  /\ state' = [state EXCEPT ![current + 1] = "queued"]
  /\ pc' = "preparing" /\ ctxDone' = FALSE
  /\ UNCHANGED <<process, done, override, watch, killed, guardVars, stopVars>>

\* The operation is cancelled, or its deadline passes, while Start runs.
CancelStart ==
  /\ pc # "idle" /\ ~ctxDone
  /\ ctxDone' = TRUE
  /\ UNCHANGED <<handleVars, guardVars, pc, stopVars>>

\* No free port, or the resource limits cannot be prepared; else the command is
\* stored in the handle, whatever became of its state in the meantime.
Prepare ==
  /\ pc = "preparing"
  /\ \/ /\ pc' = "aborting"
        /\ UNCHANGED state
     \/ /\ state' = [state EXCEPT ![current] = "starting"]
        /\ pc' = "admitting"
  /\ UNCHANGED <<current, process, done, override, watch, killed, ctxDone,
                 guardVars, stopVars>>

\* Mutant of Admit: a shutdown does not close the gate.
AdmitDuringShutdown ==
  /\ pc = "admitting"
  /\ pc' = IF ~ctxDone /\ guard = "normal" THEN "spawning" ELSE "aborting"
  /\ UNCHANGED <<handleVars, ctxDone, guardVars, stopVars>>

\* SpawnAdmission, which is acquireWorkerSpawn: the gate is kept when it admits.
Admit ==
  /\ pc = "admitting"
  /\ \/ /\ ~ctxDone /\ ~shuttingDown /\ guard = "normal"
        /\ pc' = "spawning"
     \/ /\ ctxDone \/ shuttingDown \/ guard # "normal"
        /\ pc' = "aborting"
  /\ UNCHANGED <<handleVars, ctxDone, guardVars, stopVars>>

\* The context is looked at once more, then cmd.Start, which may fail.
Spawn ==
  /\ pc = "spawning"
  /\ \/ /\ pc' = "aborting"
        /\ UNCHANGED process
     \/ /\ ~ctxDone
        /\ process' = [process EXCEPT ![current] = "alive"]
        /\ pc' = "binding"
  /\ UNCHANGED <<current, state, done, override, watch, killed, ctxDone,
                 guardVars, stopVars>>

\* The process is bound to its limits and, after releaseSpawn, to the lifetime of
\* the engine; a failure of either kills it and waits for it.
Bind ==
  /\ pc \in {"binding", "bound"}
  /\ \/ /\ process' = [process EXCEPT ![current] = "dead"]
        /\ pc' = "aborting"
        /\ UNCHANGED watch
     \/ /\ pc = "binding"
        /\ pc' = "bound"
        /\ UNCHANGED <<process, watch>>
     \/ /\ pc = "bound"
        /\ watch' = [watch EXCEPT ![current] = "waiting"]
        /\ pc' = "health"
        /\ UNCHANGED process
  /\ UNCHANGED <<current, state, done, override, killed, ctxDone, guardVars, stopVars>>

\* Every error up to here ends in failBeforeStart.
Abort ==
  /\ \/ /\ pc = "aborting" /\ WriteFailed(current)
        /\ pc' = "closing"
     \/ /\ pc = "closing" /\ CloseDone(current)
        /\ pc' = "idle"
  /\ UNCHANGED <<ctxDone, guardVars, stopVars>>

\* waitHealthy: an answer of the worker, or else its timeout, the context, or the
\* handle's channel.
WaitHealthy ==
  /\ pc = "health"
  /\ \/ /\ process[current] = "alive"
        /\ pc' = "healthy"
     \/ pc' = "unhealthy"
  /\ UNCHANGED <<handleVars, ctxDone, guardVars, stopVars>>

\* markReady refuses a handle whose channel is closed, and looks at nothing else.
MarkReady ==
  /\ pc = "healthy"
  /\ \/ /\ current \in done
        /\ UNCHANGED state
     \/ /\ current \notin done
        /\ state' = [state EXCEPT ![current] = "ready"]
  /\ pc' = "idle"
  /\ UNCHANGED <<current, process, done, override, watch, killed, ctxDone,
                 guardVars, stopVars>>

\* An unhealthy worker is stopped with the terminal state Failed; Start returns
\* its error whether or not the stop was confirmed.
ReturnUnhealthy ==
  /\ pc = "unhealthy" /\ stopping["starter"] \in {"confirmed", "unconfirmed"}
  /\ stopping' = [stopping EXCEPT !["starter"] = "idle"]
  /\ pc' = "idle"
  /\ UNCHANGED <<handleVars, ctxDone, guardVars, target>>

-----------------------------------------------------------------------------
(* The worker and its watch goroutine.                                     *)

\* A worker may end at any time, by itself or on a signal.
Exit(h) ==
  /\ process[h] = "alive"
  /\ process' = [process EXCEPT ![h] = "dead"]
  /\ UNCHANGED <<current, state, done, override, watch, killed, guardVars,
                 startVars, stopVars>>

\* Mutant of WatchWrite: only a requested stop gets its terminal state.
WatchWriteOverride(h) ==
  /\ watch[h] = "waiting" /\ process[h] = "dead"
  /\ state' = [state EXCEPT ![h] = override[h]]
  /\ watch' = [watch EXCEPT ![h] = "written"]
  /\ UNCHANGED <<current, process, done, override, killed, guardVars,
                 startVars, stopVars>>

\* watch after cmd.Wait: the terminal state ...
WatchWrite(h) ==
  /\ watch[h] = "waiting" /\ process[h] = "dead"
  /\ state' = [state EXCEPT ![h] = IF override[h] # "none" THEN override[h] ELSE "failed"]
  /\ watch' = [watch EXCEPT ![h] = "written"]
  /\ UNCHANGED <<current, process, done, override, killed, guardVars,
                 startVars, stopVars>>

\* ... and, after the mutex is released, the channel.
WatchClose(h) ==
  /\ watch[h] = "written"
  /\ done' = done \cup {h}
  /\ watch' = [watch EXCEPT ![h] = "finished"]
  /\ UNCHANGED <<current, state, process, override, killed, guardVars,
                 startVars, stopVars>>

-----------------------------------------------------------------------------
(* StopHandle, ForceStopHandle, stopWithTerminal and Shutdown.             *)

GotoStop(s, step) == stopping' = [stopping EXCEPT ![s] = step]

\* When a caller may begin: the owner holds the lifecycle gate, the guard has
\* committed the emergency, the engine is shutting down, the worker is unhealthy.
MayStop(s) ==
  CASE s = "owner" -> pc = "idle"
    [] s = "guard" -> guard = "emergency"
    [] s = "shutdown" -> shuttingDown
    [] s = "starter" -> pc = "unhealthy"

\* The caller looks the handle up; without one there is nothing to stop.
Capture(s) ==
  /\ stopping[s] = "idle" /\ MayStop(s)
  /\ target' = [target EXCEPT ![s] = current]
  /\ GotoStop(s, IF current = 0 THEN "confirmed" ELSE "captured")
  /\ UNCHANGED <<handleVars, guardVars, startVars>>

\* Mutant of Mark: a worker that is being drained already counts as stopped.
MarkUnlessDraining(s) ==
  LET h == target[s]
  IN  /\ stopping[s] = "captured"
      /\ \/ /\ state[h] \in Terminal \cup {"draining"}
            /\ GotoStop(s, "confirmed")
            /\ UNCHANGED <<state, override>>
         \/ /\ state[h] \notin Terminal \cup {"draining"}
            /\ override' = [override EXCEPT ![h] = "stopped"]
            /\ state' = [state EXCEPT ![h] = "draining"]
            /\ GotoStop(s, IF state[h] = "queued" THEN "failing" ELSE "marked")
      /\ UNCHANGED <<current, process, done, watch, killed, target, guardVars, startVars>>

\* The state is read and changed under the handle's mutex, and the command with
\* it: a queued handle has none.  (validateStopHandle rejects only a handle that
\* was replaced before it was terminal, and Start replaces none.)
Mark(s) ==
  LET h == target[s]
  IN  /\ stopping[s] = "captured"
      /\ \/ /\ state[h] \in Terminal
            /\ GotoStop(s, "confirmed")
            /\ UNCHANGED <<state, override>>
         \/ /\ state[h] \notin Terminal
            /\ override' = [override EXCEPT
                 ![h] = IF s = "starter" THEN "failed" ELSE "stopped"]
            /\ state' = [state EXCEPT ![h] = IF s = "starter" THEN @ ELSE "draining"]
            /\ GotoStop(s, IF state[h] = "queued" THEN "failing" ELSE "marked")
      /\ UNCHANGED <<current, process, done, watch, killed, target, guardVars, startVars>>

\* cmd.Process: without a process the handle fails at once, otherwise the process
\* group is signalled, by the emergency stop with SIGKILL.
Signal(s) ==
  LET h == target[s]
  IN  /\ stopping[s] = "marked"
      /\ \/ /\ process[h] = "none"
            /\ GotoStop(s, "failing")
            /\ UNCHANGED killed
         \/ /\ process[h] # "none" /\ s # "guard"
            /\ GotoStop(s, "signalled")
            /\ UNCHANGED killed
         \/ /\ process[h] # "none" /\ s = "guard"
            /\ killed' = killed \cup {h}
            /\ GotoStop(s, "killed")
      /\ UNCHANGED <<current, state, process, done, override, watch, target,
                     guardVars, startVars>>

\* failBeforeStart.
FailTarget(s) ==
  /\ \/ /\ stopping[s] = "failing" /\ WriteFailed(target[s])
        /\ GotoStop(s, "closing")
     \/ /\ stopping[s] = "closing" /\ CloseDone(target[s])
        /\ GotoStop(s, "confirmed")
  /\ UNCHANGED <<target, guardVars, startVars>>

\* Mutant of Escalate: the process group gets no SIGKILL after the grace period.
EscalateWithoutKill(s) ==
  /\ stopping[s] = "signalled"
  /\ GotoStop(s, "killed")
  /\ UNCHANGED <<handleVars, target, guardVars, startVars>>

\* The grace period or the caller's context is over: SIGKILL.
Escalate(s) ==
  /\ stopping[s] = "signalled"
  /\ killed' = killed \cup {target[s]}
  /\ GotoStop(s, "killed")
  /\ UNCHANGED <<current, state, process, done, override, watch, target,
                 guardVars, startVars>>

\* The handle's channel closes, or the wait after SIGKILL is over.
Confirm(s) ==
  /\ \/ /\ stopping[s] \in {"signalled", "killed"} /\ target[s] \in done
        /\ GotoStop(s, "confirmed")
     \/ /\ stopping[s] = "killed"
        /\ GotoStop(s, "unconfirmed")
  /\ UNCHANGED <<handleVars, target, guardVars, startVars>>

\* The owner and the guard may stop the instance again later.
Return(s) ==
  /\ s \in {"owner", "guard"} /\ stopping[s] \in {"confirmed", "unconfirmed"}
  /\ GotoStop(s, "idle")
  /\ target' = [target EXCEPT ![s] = 0]
  /\ UNCHANGED <<handleVars, guardVars, startVars>>

-----------------------------------------------------------------------------
(* The engine around it: both changes are made under spawnGateMu.          *)

\* setGuardState, by the maintenance loop or, to a lower state, by the prewarm loop.
SetGuard ==
  /\ ~SpawnGateHeld
  /\ \/ /\ guard = "normal" /\ guard' = "emergency"
        /\ UNCHANGED relaxations
     \/ /\ guard = "emergency" /\ relaxations < MaxRelaxations
        /\ guard' = "normal"
        /\ relaxations' = relaxations + 1
  /\ UNCHANGED <<handleVars, shuttingDown, startVars, stopVars>>

\* Mutant of BeginShutdown: the flag is set without the spawn gate.
BeginShutdownUngated ==
  /\ ~shuttingDown
  /\ shuttingDown' = TRUE
  /\ UNCHANGED <<handleVars, guard, relaxations, startVars, stopVars>>

\* Shutdown of the engine; it waits for the lifecycle gate for five seconds only.
BeginShutdown ==
  /\ ~SpawnGateHeld /\ ~shuttingDown
  /\ shuttingDown' = TRUE
  /\ UNCHANGED <<handleVars, guard, relaxations, startVars, stopVars>>

-----------------------------------------------------------------------------
StarterStep ==
  \/ Prepare \/ Admit \/ Spawn \/ Bind \/ Abort
  \/ WaitHealthy \/ MarkReady \/ ReturnUnhealthy

StopStep(s) ==
  Mark(s) \/ Signal(s) \/ FailTarget(s) \/ Escalate(s) \/ Confirm(s)

Next ==
  \/ Start \/ CancelStart \/ StarterStep
  \/ \E h \in Handles : Exit(h) \/ WatchWrite(h) \/ WatchClose(h)
  \/ \E s \in Stoppers : Capture(s) \/ StopStep(s) \/ Return(s)
  \/ SetGuard \/ BeginShutdown

Spec == Init /\ [][Next]_vars

\* Goroutines go on (every wait has a timeout), Start's own stop begins, and a
\* worker ends once it got SIGKILL.  Workers need not end otherwise.
Fairness ==
  /\ WF_vars(StarterStep \/ Capture("starter"))
  /\ \A h \in Handles :
       /\ WF_vars(WatchWrite(h) \/ WatchClose(h))
       /\ WF_vars(h \in killed /\ Exit(h))
  /\ \A s \in Stoppers : WF_vars(StopStep(s))

FairSpec == Spec /\ Fairness

-----------------------------------------------------------------------------
(* Properties.                                                             *)

\* Every variable has its type, and a handle has a state exactly when a Start has
\* installed it.
TypeOK ==
  /\ current \in 0..MaxHandles
  /\ state \in [Handles -> {"none", "queued", "starting", "ready", "draining"}
                             \cup Terminal]
  /\ \A h \in Handles : state[h] = "none" <=> h > current
  /\ process \in [Handles -> {"none", "alive", "dead"}]
  /\ done \subseteq Handles /\ killed \subseteq Handles
  /\ override \in [Handles -> Terminal \cup {"none"}]
  /\ watch \in [Handles -> {"none", "waiting", "written", "finished"}]
  /\ pc \in {"idle", "preparing", "admitting", "spawning", "binding", "bound",
             "aborting", "closing", "health", "healthy", "unhealthy"}
  /\ ctxDone \in BOOLEAN
  /\ stopping \in [Stoppers -> {"idle", "captured", "marked", "failing", "closing",
                     "signalled", "killed", "confirmed", "unconfirmed"}]
  /\ target \in [Stoppers -> 0..MaxHandles]
  /\ guard \in {"normal", "emergency"}
  /\ shuttingDown \in BOOLEAN
  /\ relaxations \in 0..MaxRelaxations

\* No worker is spawned after the emergency was committed or the shutdown begun,
\* although Start checks for them before it spawns.
NoSpawnUnderGuard ==
  [][\A h \in Handles :
       process[h] = "none" /\ process'[h] = "alive"
         => guard = "normal" /\ ~shuttingDown]_vars

\* The guard has not left an emergency yet; EmergencyStopIsConfirmed is about what can
\* happen once it does.
NeverRelaxed == relaxations = 0

\* Until then, a terminal handle has no live worker: what stopSupervisorConfirmed takes
\* for a confirmed stop is one.
StoppedMeansGone ==
  NeverRelaxed => \A h \in Handles : state[h] \in Terminal => process[h] # "alive"

\* Until the guard leaves an emergency, an instance never has two live workers,
\* however starts, retries and unconfirmed stops follow each other.
OneWorker ==
  NeverRelaxed => \A g, h \in Handles : process[g] = "alive" /\ process[h] = "alive" => g = h

\* Until the guard leaves an emergency: once Shutdown has confirmed its stops, no worker
\* of the instance is left, not even one whose Start was under way when the shutdown
\* began.
ShutdownIsFinal ==
  NeverRelaxed /\ stopping["shutdown"] = "confirmed" => \A h \in Handles : process[h] # "alive"

\* A worker that a stop has signalled is reported as gone in the end, even if it
\* ignores SIGTERM, and even if its Start has not returned yet.
StopEndsWorker ==
  \A h \in Handles :
    (\E s \in Stoppers : stopping[s] \in {"signalled", "killed"} /\ target[s] = h)
      ~> h \in done

\* What the emergency stop says (resource_guard.go:812): the process is terminated
\* and that is confirmed, also when the emergency is over while a start is still
\* on its way to the spawn gate.
EmergencyStopIsConfirmed ==
  \A h \in Handles : stopping["guard"] = "confirmed" /\ target["guard"] = h
                       => process[h] # "alive"
-----------------------------------------------------------------------------
(* What the engine sees of all this: the workers of InstanceLifecycle.tla. *)

\* Nothing more is to be expected of a handle: its process has ended, or it has none
\* and its start was given up.  The state is no measure of it, since a start may
\* still write its own over that of a stop.
Over(h) ==
  \/ process[h] = "dead"
  \/ /\ process[h] = "none"
     /\ \/ h \in done \/ override[h] # "none"
        \/ h = current /\ pc \in {"aborting", "closing"}

liveHandles == {h \in 1..current : ~Over(h)}
confirmedHandles == {target[s] : s \in {x \in Stoppers : stopping[x] = "confirmed"}} \ {0}

Workers == INSTANCE WorkerHandles WITH alive <- liveHandles, confirmed <- confirmedHandles

\* Until the guard leaves an emergency, the workers behave as the engine takes them to:
\* what is over is never spawned after all, a start replaces nothing that runs, and a
\* stop that any of its callers takes for confirmed is of a worker that is over.
ImplementsWorkers ==
  Workers!Init /\ [][NeverRelaxed' => [Workers!Next]_(Workers!vars)]_vars
=============================================================================

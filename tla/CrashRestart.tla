---------------------------- MODULE CrashRestart ----------------------------
(***************************************************************************)
(* The automatic restart of an instance whose worker died on its own       *)
(* (modules/engine/health_watch.go): considerCrashRestart, the goroutine   *)
(* that waits for the delay, the crash history behind crashMu, and the     *)
(* starts, stops, deletions, configuration changes and the shutdown that   *)
(* happen meanwhile.                                                       *)
(*                                                                         *)
(* Starts, stops and deletions are taken for what InstanceLifecycle.tla    *)
(* shows of them: one start and one stop or deletion at a time with the    *)
(* lifecycle gate between them, and the states, the configuration and the  *)
(* routing they leave behind.  The crash of a worker generation has one    *)
(* observer, monitorWorker or reconcileWorkers: either takes the instance  *)
(* from Ready to Failed in one section.                                    *)
(***************************************************************************)
EXTENDS Naturals

CONSTANTS MaxGenerations,  \* bound on the workers that become ready
          MaxUpdates       \* bound on the changes of the requested configuration

ASSUME CrashAssumption == MaxGenerations \in Nat /\ MaxUpdates \in Nat

Generations == 1..MaxGenerations
Configs == 0..MaxUpdates

\* RestartOnCrash of a configuration; an update turns it off, the next one on.
RestartOnCrash(config) == config % 2 = 0

\* The Failed states by their phases: worker_exited, crash_restart_pending, others.
Failed == {"lost", "pending", "failed"}

\* resourceHoldingState; "starting" is Installing, Starting and Restarting, and
\* "unconfirmed" is Draining with the phase of an unconfirmed stop.
Holding == {"queued", "starting", "ready", "draining", "unconfirmed"}
States == Failed \cup Holding \cup {"stopped"}

VARIABLES
  exists,      \* the instance is in m.instances
  state,       \* its State
  generation,  \* its workerGeneration
  requested,   \* its RequestedConfig: the number of changes made to it
  effective,   \* its EffectiveConfig
  routed,      \* it has the BaseURL and WorkerSecret of its last worker
  start,       \* where the start transaction is; "idle" when there is none
  plan,        \* its configuration, its backup of the instance ("none", "ready", of
               \* another state that "holds" resources, or "idle") and the backup's
               \* RequestedConfig
  closer,      \* where a stop or delete operation is
  already,     \* scheduleStop found the instance stopped
  maintenance, \* maintenanceStop is open
  shuttingDown,
  history,     \* m.crashHistory[id]: none, idle or (its flag is set) restarting
  watch,       \* where the observer of a generation's crash is
  seen,        \* the generation and configuration it has read, until it is done
  overtaken,   \* history: a worker became ready while an observer was between two
               \* sections of considerCrashRestart or runCrashRestart
  parked       \* history: the waiting restarts over which a stop has completed,
               \* with no start under way or requested since

instVars == <<exists, state, generation, requested, effective, routed>>
startVars == <<start, plan>>
closeVars == <<closer, already>>
downVars == <<maintenance, shuttingDown>>
watchVars == <<history, watch, seen>>
ghosts == <<overtaken, parked>>
vars == <<instVars, startVars, closeVars, downVars, watchVars, ghosts>>

\* Where an observer neither waits for its delay nor is done.
Midway == {"lost", "read", "counted", "checked"}

NotSeen == [generation |-> 0, config |-> 0]
NoPlan == [config |-> 0, backup |-> "none", before |-> 0]

\* createInstance: the first start is queued, and has no backup of the instance yet.
Init ==
  /\ exists = TRUE /\ state = "queued" /\ generation = 0
  /\ requested = 0 /\ effective = 0 /\ routed = FALSE
  /\ start = "queued" /\ plan = NoPlan
  /\ closer = "idle" /\ already = FALSE
  /\ maintenance = TRUE /\ shuttingDown = FALSE
  /\ history = "none"
  /\ watch = [g \in Generations |-> "none"] /\ seen = [g \in Generations |-> NotSeen]
  /\ overtaken = FALSE /\ parked = {}

\* setInstanceState: an instance that is gone is left alone.
SetState(s) == state' = IF exists THEN s ELSE state

-----------------------------------------------------------------------------
(* Starts.                                                                 *)

Backup == IF state = "ready" THEN "ready" ELSE IF state \in Holding THEN "holds" ELSE "idle"

\* scheduleStartForModel: a start that is under way is returned; otherwise the instance
\* is backed up, and the configuration becomes the requested one.
Schedule(config) ==
  IF ~exists \/ start # "idle" THEN UNCHANGED <<state, requested, start, plan, parked>>
  ELSE /\ state' = IF state = "ready" THEN state ELSE "queued"
       /\ requested' = config
       /\ start' = "queued"
       /\ plan' = [config |-> config, backup |-> Backup, before |-> requested]
       /\ parked' = {}

\* A client starts or restarts the instance, also through the gateway.
ClientStart ==
  /\ exists /\ start = "idle"
  /\ Schedule(requested)
  /\ UNCHANGED <<exists, generation, effective, routed, closeVars, downVars, watchVars,
                 overtaken>>

\* The start gets its slot and the lifecycle gate; an instance that does not serve is
\* Installing while a runtime is prepared.
Prepare ==
  /\ start = "queued" /\ exists /\ closer \notin {"stopping", "deleting"} /\ ~shuttingDown
  /\ start' = "preparing"
  /\ \/ UNCHANGED state
     \/ state # "ready" /\ state' = "starting"
  /\ plan' = IF plan.backup # "none" THEN plan
             ELSE [plan EXCEPT !.backup = Backup, !.before = requested]
  /\ UNCHANGED <<exists, generation, requested, effective, routed, closeVars, downVars,
                 watchVars, ghosts>>

\* What may still run is drained first, whatever the instance's state is by now.
BeginDrain ==
  /\ start = "preparing"
  /\ IF plan.backup \in {"ready", "holds"} THEN start' = "draining" /\ SetState("draining")
     ELSE start' = "loading" /\ SetState("starting")
  /\ UNCHANGED <<exists, generation, requested, effective, routed, plan, closeVars,
                 downVars, watchVars, ghosts>>

\* The old worker is gone, and the model is loaded; the state is set again with the
\* progress of that.
Loading ==
  /\ start \in {"draining", "loading", "restoring"}
  /\ start' = IF start = "draining" THEN "loading" ELSE start
  /\ SetState("starting")
  /\ UNCHANGED <<exists, generation, requested, effective, routed, plan, closeVars,
                 downVars, watchVars, ghosts>>

\* failTransaction: what was ready before is loaded again as it last worked, with the
\* requested configuration of the backup.
RollBack ==
  /\ start = "loading" /\ plan.backup = "ready" /\ ~shuttingDown
  /\ start' = "restoring" /\ requested' = plan.before
  /\ plan' = [plan EXCEPT !.config = effective]
  /\ UNCHANGED <<exists, state, generation, effective, routed, closeVars, downVars,
                 watchVars, ghosts>>

\* startOne: the instance is ready with a new worker generation ...
Commit ==
  /\ start \in {"loading", "restoring"} /\ exists /\ generation < MaxGenerations
  /\ start' = "committed" /\ state' = "ready" /\ routed' = TRUE
  /\ generation' = generation + 1 /\ effective' = plan.config
  /\ overtaken' = (overtaken \/ \E g \in Generations : watch[g] \in Midway)
  /\ plan' = NoPlan
  /\ UNCHANGED <<exists, requested, closeVars, downVars, watchVars, parked>>

\* ... then noteInstanceRecovered drops the crash history, and only then is the worker
\* watched.  (The transaction is over before a delay is.)
NoteRecovered ==
  /\ start = "committed"
  /\ start' = "idle" /\ history' = "none"
  /\ UNCHANGED <<instVars, plan, closeVars, downVars, watch, seen, ghosts>>

\* mergeLiveWorkerRollback into an instance that was ready: it serves again if only the
\* drain of a transaction or a stop keeps it from that.
Reopened == IF exists /\ routed /\ state = "draining" THEN "ready" ELSE state

\* Both rollbacks put the RequestedConfig of the backup back.
Restored == IF exists /\ plan.backup # "none" THEN plan.before ELSE requested

\* markStopUnconfirmed
MarkUnconfirmed ==
  IF exists /\ state # "stopped" THEN state' = "unconfirmed" /\ routed' = FALSE
  ELSE UNCHANGED <<state, routed>>

Ended == SetState("failed") \/ SetState("stopped")

\* The start times out, is cancelled, finds the engine shutting down or the instance
\* gone, or cannot be prepared (failBeforeDrain leaves the configuration of an instance
\* that was not ready).
FailBeforeDrain ==
  /\ start \in {"queued", "preparing"}
  /\ IF plan.backup = "ready" THEN state' = Reopened ELSE Ended
  /\ \/ requested' = Restored
     \/ start = "preparing" /\ plan.backup # "ready" /\ UNCHANGED requested
  /\ UNCHANGED routed

\* The drain is cancelled, or the end of the old worker not confirmed.
FailDraining ==
  /\ start = "draining"
  /\ \/ plan.backup = "ready" /\ state' = Reopened /\ requested' = Restored /\ UNCHANGED routed
     \/ plan.backup # "ready" /\ Ended /\ UNCHANGED <<requested, routed>>
     \/ MarkUnconfirmed /\ UNCHANGED requested

\* The model does not load.  An instance that was ready is left to RollBack unless the
\* engine shuts down; what fails there is FailedRollback.
FailLoading ==
  /\ start \in {"loading", "restoring"}
  /\ \/ start = "restoring" /\ SetState("failed") /\ UNCHANGED routed
     \/ start = "loading" /\ plan.backup # "ready" /\ Ended /\ UNCHANGED routed
     \/ start = "loading" /\ MarkUnconfirmed
     \/ /\ start = "loading" /\ plan.backup = "ready" /\ shuttingDown
        /\ \/ exists /\ state' = "stopped" /\ routed' = FALSE
           \/ UNCHANGED <<state, routed>>
  /\ UNCHANGED requested

StartFails ==
  /\ FailBeforeDrain \/ FailDraining \/ FailLoading
  /\ start' = "idle" /\ plan' = NoPlan
  /\ UNCHANGED <<exists, generation, effective, closeVars, downVars, watchVars, ghosts>>

\* UpdateInstance with a requested configuration.
UpdateConfig ==
  /\ exists /\ requested < MaxUpdates
  /\ requested' = requested + 1
  /\ UNCHANGED <<exists, state, generation, effective, routed, startVars, closeVars,
                 downVars, watchVars, ghosts>>

-----------------------------------------------------------------------------
(* Stops, deletions and the shutdown.                                      *)

\* scheduleStop or scheduleDelete; whether a stop has anything to do is read now.
RequestClose ==
  /\ exists /\ closer = "idle"
  /\ closer' \in {"stop", "delete"}
  /\ already' = (closer' = "stop" /\ state \in Failed \cup {"stopped"})
  /\ UNCHANGED <<instVars, startVars, downVars, watchVars, ghosts>>

Sleeping == {g \in Generations : watch[g] = "sleeping"}
Parked == IF start = "idle" THEN parked \cup Sleeping ELSE parked

\* With the gate, a stop that has nothing to do ends, or the instance is drained.
Close ==
  /\ closer \in {"stop", "delete"} /\ start \in {"idle", "queued"} /\ ~shuttingDown
  /\ IF already
     THEN /\ SetState("stopped") /\ parked' = Parked
          /\ closer' = "idle" /\ already' = FALSE
     ELSE /\ SetState("draining")
          /\ closer' = IF closer = "stop" THEN "stopping" ELSE "deleting"
          /\ UNCHANGED <<already, parked>>
  /\ UNCHANGED <<exists, generation, requested, effective, routed, startVars, downVars,
                 watchVars, overtaken>>

\* Without it: the operation is cancelled, or the engine shuts down.
GiveUp ==
  /\ closer \in {"stop", "delete"} /\ closer' = "idle" /\ already' = FALSE
  /\ UNCHANGED <<instVars, startVars, downVars, watchVars, ghosts>>

\* The worker is gone, or that is not confirmed; a deletion that was cancelled
\* meanwhile leaves the instance as it is.
Closed ==
  /\ closer \in {"stopping", "deleting"} /\ closer' = "idle"
  /\ \/ /\ closer = "stopping" /\ SetState("stopped") /\ parked' = Parked
        /\ routed' = (routed /\ ~exists)
        /\ UNCHANGED exists
     \/ /\ closer = "deleting" /\ exists' = FALSE
        /\ UNCHANGED <<state, routed, parked>>
     \/ MarkUnconfirmed /\ UNCHANGED <<exists, parked>>
     \/ closer = "deleting" /\ UNCHANGED <<exists, state, routed, parked>>
  /\ UNCHANGED <<generation, requested, effective, startVars, already, downVars, watchVars,
                 overtaken>>

\* reapUnconfirmedStop: the worker is found gone after all.
Reap ==
  /\ exists /\ state = "unconfirmed" /\ maintenance
  /\ state' = "stopped" /\ routed' = FALSE /\ parked' = Parked
  /\ UNCHANGED <<exists, generation, requested, effective, startVars, closeVars, downVars,
                 watchVars, overtaken>>

\* Shutdown closes maintenanceStop first, and sets the flag in a later section.
Shutdown ==
  /\ \/ maintenance /\ maintenance' = FALSE /\ UNCHANGED shuttingDown
     \/ ~maintenance /\ ~shuttingDown /\ shuttingDown' = TRUE /\ UNCHANGED maintenance
  /\ UNCHANGED <<instVars, startVars, closeVars, watchVars, ghosts>>

-----------------------------------------------------------------------------
(* The crash and the restart.                                              *)

Goto(g, step) == watch' = [watch EXCEPT ![g] = step]

\* Mutant of Lose: the worker is watched before the crash history is dropped.
LoseAtOnce(g) ==
  /\ exists /\ state = "ready" /\ generation = g
  /\ state' = "lost" /\ routed' = FALSE /\ Goto(g, "lost")
  /\ UNCHANGED <<exists, generation, requested, effective, startVars, closeVars, downVars,
                 history, seen, ghosts>>

\* monitorWorker, or reconcileWorkers, finds the worker gone.
Lose(g) ==
  /\ exists /\ state = "ready" /\ generation = g
  /\ start # "committed"
  /\ state' = "lost" /\ routed' = FALSE /\ Goto(g, "lost")
  /\ UNCHANGED <<exists, generation, requested, effective, startVars, closeVars, downVars,
                 history, seen, ghosts>>

Wanted == RestartOnCrash(requested) \/ RestartOnCrash(effective)

\* Mutant of Consider: the generation is not captured.
ConsiderConfig(g) ==
  /\ watch[g] = "lost"
  /\ IF exists /\ ~shuttingDown /\ Wanted
     THEN /\ seen' = [seen EXCEPT ![g].config = requested]
          /\ Goto(g, "read")
     ELSE Goto(g, "done") /\ UNCHANGED seen
  /\ UNCHANGED <<instVars, startVars, closeVars, downVars, history, ghosts>>

\* considerCrashRestart: the instance is read, ...
Consider(g) ==
  /\ watch[g] = "lost"
  /\ IF exists /\ ~shuttingDown /\ Wanted
     THEN /\ seen' = [seen EXCEPT ![g] = [generation |-> generation, config |-> requested]]
          /\ Goto(g, "read")
     ELSE Goto(g, "done") /\ UNCHANGED seen
  /\ UNCHANGED <<instVars, startVars, closeVars, downVars, history, ghosts>>

\* ... a restart that is pending already is left to its goroutine, ...
Count(g) ==
  /\ watch[g] = "read"
  /\ history' = "restarting"
  /\ IF history = "restarting" THEN Goto(g, "done") /\ seen' = [seen EXCEPT ![g] = NotSeen]
     ELSE Goto(g, "counted") /\ UNCHANGED seen
  /\ UNCHANGED <<instVars, startVars, closeVars, downVars, ghosts>>

\* ... the restart is announced, whatever the instance's state is by now, and the
\* goroutine started.
Announce(g) ==
  /\ watch[g] = "counted" /\ Goto(g, "sleeping")
  /\ SetState("pending")
  /\ UNCHANGED <<exists, generation, requested, effective, routed, startVars, closeVars,
                 downVars, history, seen, ghosts>>

Stale(g) ==
  \/ ~exists \/ shuttingDown
  \/ state \notin Failed
  \/ generation # seen[g].generation

\* Mutant of Wake: what else has happened to the instance does not matter.
WakeUnlessReplaced(g) ==
  /\ watch[g] = "sleeping"
  /\ \/ ~maintenance /\ Goto(g, "clearing")
     \/ Goto(g, IF generation # seen[g].generation THEN "clearing" ELSE "checked")
  /\ UNCHANGED <<instVars, startVars, closeVars, downVars, history, seen, ghosts>>

\* runCrashRestart: the shutdown, or the timer and a look at the instance.
Wake(g) ==
  /\ watch[g] = "sleeping"
  /\ \/ ~maintenance /\ Goto(g, "clearing")
     \/ Goto(g, IF Stale(g) THEN "clearing" ELSE "checked")
  /\ UNCHANGED <<instVars, startVars, closeVars, downVars, history, seen, ghosts>>

\* The start is scheduled, in sections of its own and with the configuration of the
\* crash; that it cannot be is announced as well.
Restart(g) ==
  /\ watch[g] = "checked" /\ Goto(g, "clearing")
  /\ \/ Schedule(seen[g].config)
     \/ SetState("failed") /\ UNCHANGED <<requested, startVars, parked>>
  /\ UNCHANGED <<exists, generation, effective, routed, closeVars, downVars, history, seen,
                 overtaken>>

\* Mutant of Clear: the flag of the history stays.
ClearNothing(g) ==
  /\ watch[g] = "clearing" /\ Goto(g, "done") /\ seen' = [seen EXCEPT ![g] = NotSeen]
  /\ UNCHANGED <<instVars, startVars, closeVars, downVars, history, ghosts>>

\* clearCrashRestarting, deferred: of whichever history there is by now.
Clear(g) ==
  /\ watch[g] = "clearing" /\ Goto(g, "done") /\ seen' = [seen EXCEPT ![g] = NotSeen]
  /\ history' = IF history = "none" THEN "none" ELSE "idle"
  /\ UNCHANGED <<instVars, startVars, closeVars, downVars, ghosts>>

-----------------------------------------------------------------------------
StartStep ==
  Prepare \/ BeginDrain \/ Loading \/ RollBack \/ Commit \/ NoteRecovered \/ StartFails
CloseStep == Close \/ GiveUp \/ Closed
WatchStep(g) == Consider(g) \/ Count(g) \/ Announce(g) \/ Wake(g) \/ Restart(g) \/ Clear(g)

Next ==
  \/ ClientStart \/ UpdateConfig \/ RequestClose \/ Shutdown
  \/ StartStep \/ CloseStep \/ Reap
  \/ \E g \in Generations : Lose(g) \/ WatchStep(g)

Spec == Init /\ [][Next]_vars

\* The observers go on and their timers fire, and a start that has committed ends.
\* Nothing else need happen: workers need not die, clients need not ask, and no start
\* or stop need get on.
FairSpec ==
  /\ Spec
  /\ WF_vars(NoteRecovered)
  /\ \A g \in Generations : WF_vars(WatchStep(g))

-----------------------------------------------------------------------------
(* Properties.                                                             *)

Starts == {"idle", "queued", "preparing", "draining", "loading", "restoring", "committed"}
Backups == {"none", "ready", "holds", "idle"}
Closers == {"idle", "stop", "delete", "stopping", "deleting"}
Pending(g) == watch[g] \in {"counted", "sleeping", "checked", "clearing"}

\* Every variable has its type, and an observer has read the instance in or after the
\* life of the worker it is about.
TypeOK ==
  /\ exists \in BOOLEAN /\ state \in States /\ generation \in 0..MaxGenerations
  /\ requested \in Configs /\ effective \in Configs /\ routed \in BOOLEAN
  /\ start \in Starts
  /\ plan \in [config : Configs, backup : Backups, before : Configs]
  /\ closer \in Closers /\ already \in BOOLEAN
  /\ maintenance \in BOOLEAN /\ shuttingDown \in BOOLEAN
  /\ history \in {"none", "idle", "restarting"}
  /\ watch \in [Generations -> {"none", "lost", "read", "counted", "sleeping", "checked",
                                "clearing", "done"}]
  /\ seen \in [Generations -> [generation : 0..MaxGenerations, config : Configs]]
  /\ \A g \in Generations : watch[g] # "none" => g <= generation
  /\ \A g \in Generations : seen[g] # NotSeen => g <= seen[g].generation
  /\ overtaken \in BOOLEAN /\ parked \subseteq Generations

\* The flag that makes later crashes be ignored is set only while a goroutine is on its
\* way to clear it, whoever else drops, renews or clears the history in between.
RestartingHasOwner == history = "restarting" => \E g \in Generations : Pending(g)

\* A stop that completes while a restart waits for its delay is not undone by it: the
\* restart is given up unless a start was requested since (or a model was loaded
\* while another observer was between two sections).
StopOutlastsDelay ==
  [][\A g \in parked :
       watch[g] = "sleeping" /\ watch'[g] = "checked" => overtaken]_vars

\* A crash of a worker whose owner wants it restarted is answered by a start, also when
\* the restart of an earlier crash is still pending; unless the instance is touched,
\* the engine shuts down, or a model was loaded while an observer was between two
\* sections.
CrashIsAnswered ==
  state = "lost" /\ Wanted ~>
    \/ start \notin {"idle", "committed"}
    \/ state \notin {"lost", "pending"}
    \/ ~exists \/ ~Wanted \/ ~maintenance \/ overtaken

\* health_watch.go:107: "Anything that touched the instance in the meantime - a manual
\* start, a delete, a stop - takes precedence over the automatic restart."  So the
\* restart does not replace a configuration by an older one.
UpdateTakesPrecedence ==
  [][(\E g \in Generations : Restart(g)) => requested' >= requested]_vars
=============================================================================

# Culpeostudio: TLA+ verification project

This directory specifies the backend of Culpeostudio (`src/backend`, Go) in
TLA+, checks the specifications with TLC and proves theorems about them with
TLAPS. `PROJECT.json` lists the components, runs, properties, the mutants that
each property must detect, the source lines behind every definition, the
hazards of the code and the theorems.

## 1. What the system is

The backend runs language models on the local machine and offers them to a
Flutter client and to other modules over gRPC and a local HTTP gateway.

| component | state it keeps | operations | talks to |
|---|---|---|---|
| **engine: start queue** (`admission.go`) | ordered waiting list, one active entry, map of entries, pause flag | enqueue, wait, cancel, done, setPaused | every start operation, resource guard |
| **engine: inference gate** (`admission.go`, `usage.go`) | slots in use, FIFO of waiters, `ActiveRequests` of the instance | acquireInference and its release closure | chat and gateway requests, every change of an instance |
| **engineruntime: supervisor** (`supervisor.go`, `spawn_gate.go`) | a handle per instance: state, process, done channel; the spawn gate | Start, StopHandle, ForceStopHandle, Shutdown, watch | engine lifecycle, guard, OS processes |
| **engine: instance lifecycle** (`transaction.go`, `start.go`, `rollback.go`, `stop_delete.go`, `process_stop.go`) | instances with state, phase, routing secret and generation; operations; the lifecycle gate; receipts and reapers of stops | start/restart transaction with rollback, stop, delete, cancel | queue, supervisor, planner, guard |
| **engine: crash restart** (`health_watch.go`, `retry.go`) | crash history with backoff | monitorWorker, considerCrashRestart, runCrashRestart, reconcileWorkers | lifecycle, supervisor |
| **engine: resource guard** (`resource_guard.go`, `runtime_prewarm.go`) | guard state, measured pressure, idle deadlines | setGuardState, relievePressure, idle and emergency stops | queue, spawn gate, lifecycle |
| **engine: planning** (`planning.go`, `internal/engineplanner`) | none (pure), LRU reservations | recommendation, replanning, context search | lifecycle |
| **engine: persistence, presets, events** | one state file, event subscribers | load, persist, publish | everything in the engine |
| **engineruntime: installer** (`installer.go`, `build.go`) | install and build jobs | install, cancel, prewarm | lifecycle |
| **autoupdate** (`internal/autoupdate`, `cmd/culpeo-updater`) | version directories, lock, quarantine | download, verify, swap, roll back, prune | the launcher |
| **marketplace and model deletion** (`download_jobs.go`, `handler.go`, `bundle.go`, `engine/model_delete.go`) | download jobs with their file, the model directory, its process-wide lock | start, cancel and delete a download, publish a bundle, delete a model | model catalogue, engine |
| **nodes** (`modules/node`, `internal/node*`) | paired machines, connections, routes | pair, connect, route | engine, gateway |
| **scout, spark** | chats, agent runs, permission requests | turns, tool calls, streaming | engine, providers, memory |
| **memory** | observations, sessions, vectors (SQLite) | capture, search, summarise | scout, spark |
| **login, security, settings, news, benchmark, skills, providers, search** | small stores | request/response | client |

The behaviours that are hard in this code, and that the properties are for:

* *Hand-over against giving up.* A queued start or a waiting request is granted
  its slot under a lock at the moment its own context or timer ends.
* *State used after the lock is released.* `setGuardState` publishes the pause
  flag after its mutexes; `acquireInference` reads the instance, waits, and
  reads it again; `scheduleStop` decides before it waits for the lifecycle gate.
* *Three ways to stop one worker.* The owner of the lifecycle gate, the
  emergency stop and the shutdown act on the same handle while its `Start` is
  still on its way to `cmd.Start`, and while the watch goroutine reports its end.
* *Stops that cannot be confirmed*, which leave the instance draining until a
  reaper sees the process end, while users go on starting, stopping, cancelling.
* *Failure in the middle of a transaction*, with the rollback competing with
  crashes, the guard and cancellation.
* *Directories and files changed in several steps*: an update is staged, renamed,
  activated, started and perhaps taken back; a bundle is published by three
  renames; a model is deleted file by file. Each of these may be interrupted,
  killed or refused by the file system in between.
* *What waits with old knowledge*: an automatic restart acts on what it read at
  the crash, a reaper on the worker it was created for.

What makes each component correct is stated in the table of section 3 for the
modelled ones; for the others see section 7.

## 2. Modules

| module | models | abstracts |
|---|---|---|
| `StartQueue` | `startAdmissionQueue` of `admission.go` and its callers: the goroutine of each start operation and the two goroutines that call `setGuardState` | time-outs and cancellation are "the wait context may end"; positions shown to clients are left out |
| `StartSlot` | what the queue promises: one slot, given to the first of the requests that stand, by rank and then by arrival, as soon as it is free and open | lists, channels, goroutines |
| `InferenceGate` | `inferenceGate` and `acquireInference` with its release closure, one goroutine per request, against every kind of change an instance can undergo | priorities of the HTTP layer, timings, tokens |
| `InstanceRouting` | what a request may rely on about an instance: the routing is open to requests only while the instance is ready, what was closed for good opens again for a new worker only, and a start that is given up may put back the copy it took | starts, stops, crashes, goroutines |
| `Supervisor` | the handles of one instance in `supervisor.go`, with the spawn gate of `spawn_gate.go` | ports, limits, logs and health probing are their outcome |
| `WorkerHandles` | what the engine may rely on about the workers: a start only when the worker before is over, what is over stays over, a stop confirmed only for what is over | processes, states, goroutines |
| `InstanceLifecycle` | one instance through the start and restart transaction with its retries and rollback (`transaction.go`, `start.go`, `rollback.go`), stop and delete (`stop_delete.go`), confirmed and unconfirmed stops with receipts and reapers (`process_stop.go`), claims and emergency stops of the guard (`resource_guard.go`), and the observers of a dead worker (`retry.go`, `health_watch.go`) | the supervisor is a set of live handles and an outcome per stop, as `Supervisor` allows; plans restart this instance only; configuration, progress and errors are left out; `failed_rollback` is `failed`, `restarting` is part of the drain |
| `CrashRestart` | the automatic restart of a crashed worker (`health_watch.go`): crash history, delay, staleness check, against starts, stops, deletions, configuration changes and the shutdown | a start transaction is what `InstanceLifecycle` shows of it: queued, preparing, draining, loading, perhaps restoring what ran before, then ready, stopped, failed or unconfirmed; a stop or deletion ends confirmed, unconfirmed or cancelled; the delays and the age of the history are left out |
| `Updates` | the launcher (`cmd/culpeo-updater`, `internal/autoupdate`): manifest, staging, activation, pruning, start, quarantine, rollback, over successive launches | download, signature and archive checks are "the build is staged, or that fails"; an update source and the hand-over to a versioned launcher are left out |
| `ModelStorage` | download jobs and the publication of a bundle (`modules/marketplace`) against the deletion of the model (`engine/model_delete.go`) | one bundle, whose contents are a set of pieces; progress, retries of a transfer, API descriptors and the engine's catalog are left out |
| `ListProofs` | lemmas about inserting into, removing from and appending to a list | |
| `StartQueueProofs`, `InferenceGateProofs`, `SupervisorProofs`, `InstanceLifecycleProofs`, `CrashRestartProofs`, `UpdatesProofs`, `ModelStorageProofs` | theorems about these modules for all values of their constants | |
| `MCStartQueue`, `MCInferenceGate`, `MCSupervisor`, `MCInstanceLifecycle`, `MCCrashRestart`, `MCUpdates`, `MCModelStorage` | instances for TLC | |

How code maps to actions. A critical section (`mu.Lock` to `mu.Unlock`), or a
step that reads or writes one channel, is one action; between two critical
sections of a goroutine any other goroutine may act. A goroutine's place in its
function is a program counter named for what it does next. A `select` with
several ready cases is a disjunction. Time never appears: a timer is an action
that may happen. A definition called `...Mutant of X` in a comment is not part
of the specification: it is `X` with a plausible bug, and the property it is
paired with in `PROJECT.json` must detect it.

`StartQueue`: `waiting` is `q.waiting`, `active` is `q.active`, `entries` is
`q.entries`, `paused` is `q.paused`; `ready` is the set of closed `ready`
channels, `gone` the set of ended wait contexts. `Enqueue`, `WaitReady`,
`WaitContextDone`, `WaitWithdraw`, `Cancel`, `Done` and `SetPaused` are the
methods; `wait` is three actions because the code takes the mutex again after
its `select`. `SetGuard` commits the guard state and leaves `SetPaused` to a
later action of the same caller, as the code does.

`InferenceGate`: the gate of a worker generation stays reachable for requests
that hold or wait at it after a restart has installed a new one, so gates are
indexed by generation. `Look`, `FindGate`, `Acquire`, `Recheck`, `GiveBack`
follow `acquireInference`; `Granted`, `GiveUp`, `RemoveWaiter` are the `select`
in `acquire`; `ReleaseSlot` and `ReleaseLease` the two halves of the release.
The steps of the instance are those of `InstanceRouting`, each with what it does to
`ActiveRequests`: a start that is given up in the queue puts back its copy of an
instance that was not ready with the count the copy was taken with
(`rollback.go:157`), which is `returned`.

`Supervisor`: `Start` to `ReturnUnhealthy` follow `Supervisor.Start` line by
line; `Capture`, `Mark`, `Signal`, `FailTarget`, `Escalate`, `Confirm` follow
`StopHandle`/`ForceStopHandle`/`stop` for each of the four kinds of caller;
`WatchWrite` and `WatchClose` are the two steps of `watch`.

`InstanceLifecycle`: `inst` holds what other code decides by: `State`, `Phase`,
the worker the routing (`BaseURL`, `WorkerSecret`) belongs to, 0 when it is
cleared, and `workerGeneration`. `pc` is the goroutine of
`executePlanTransaction` with `startOne` and the rollback inside it (`rolling`);
`closer` those of `scheduleStop` and `scheduleDelete`; `guard` the emergency
stop, which alone takes no gate. `backup` is `seedBackups[primaryID]`, and
`Merge` is `mergeLiveWorkerRollback`. A restored instance is a new object in the
code, and receipts and markers of stops are compared by identity: `Restore`
therefore voids them. A reaper is two actions, its look at the supervisor
(`ReaperCheck`) and its section under `m.mu` (`Reap`), because a start can come
in between; so is `reconcileWorkers` (`Snapshot`, `Reconcile`).

`CrashRestart`: an observer of a crash has one program counter per worker
generation, `watch`: `Lose` is the section of `monitorWorker` or
`reconcileWorkers` that fails the instance; `Consider`, `Count` and `Announce`
are the three sections of `considerCrashRestart`; `Wake`, `Restart` and `Clear`
those of `runCrashRestart`. What the goroutine captured at the crash is `seen`.
`history` is `m.crashHistory[id]` with its `restarting` flag, which other
goroutines drop (`NoteRecovered`) or renew (`Count`) while one is on its way to
clear it; `seen` is forgotten when an observer is done. `plan` is what a start
transaction has captured: its configuration, the kind of its backup and the
backup's `RequestedConfig`, which both rollbacks put back (`Restored`, `RollBack`).
`FailBeforeDrain`, `FailDraining` and `FailLoading` are the ends of
`failBeforeDrain`, of the draining outcome and of `failTransaction`
(`transaction.go:174`, `rollback.go:96`, `rollback.go:176`). `routed` says that the
instance still has a routing, which decides whether a rollback may reopen it. An
unconfirmed stop leaves `unconfirmed`, until `Reap` finds the worker gone.
`overtaken` and `parked` are history variables of two properties.

`Updates`: `step` is the place in `runCompiled`; every file operation that other
launches see (the rename of the staging directory, the replacement of
`current.json`, the removal of a part of an old bundle, the quarantine file) is
an action, and `Kill` may come between any two of them. `Kill` is the end of the
launcher's process only, after which what it wrote stays. A power failure is not
covered: the directories are synced after `current.json` has been replaced and the
errors of that are ignored (`install.go:219-223`). A bundle of which a part
is gone is in `broken`: nothing ever repairs it (`install.go:247`). `works` is
chosen once: which builds start. `faults` says what has happened to a launch:
`"io"` is a file that cannot be read or written, or a process not started in time;
`"unread"` a quarantine that could not be read, which `FetchManifest` ignores and
`Reject` replaces; `"ended"` a launch that was killed, closed early or not to run
anything (`CheckOnly`). `noted` is a history variable: the failed build noted last.

`ModelStorage`: `worker[j]` is the place of a job's goroutine, `deletion` that of
`deleteModel`. `final`, `retired` and `trash` are the pieces in the bundle's
directory, in its `.previous` and in the deletion's staging directory; the three
renames of a publication and each rename of a deletion are actions.
`directoryMutationMu` is `lock`. The old bundle is removed before and after a
publication (`RemoveBackup`); that may fail unnoticed (`bundle.go:105`,
`bundle.go:117`) and leave all or a part of it. `Restart` ends the backend at any point and
brings up whatever `save` may have left in the job file.

How the modules fit together. Three abstract specifications stand between the
detailed ones, each implemented on one side and relied on on the other:

* `StartSlot` is what the queue promises to the start operations; `StartQueue`
  implements it (`ImplementsSlot`).
* `InstanceRouting` is the environment of `InferenceGate`, whose properties hold
  for whatever an instance does within it; `InstanceLifecycle` implements it
  (`ImplementsRouting`), with `routingState`, `routingSecret` and `routingSaved` as
  the mapping. An instance that is not ready is `paused` as long as the start that
  took it ready could still reopen it: its backup has the routing the instance has
  (`Reopenable`). Everything else is closed for good, and the theorem says that
  indeed no rollback, reaper or emergency opens it again.
* `WorkerHandles` is what `InstanceLifecycle` assumes of the supervisor, and
  `Supervisor` implements it until the guard leaves an emergency (`ImplementsWorkers`;
  afterwards finding 2 applies). A handle is over when its process is gone, or
  when it has none and its start has been given up. The handle's *state* cannot say
  this: a start overwrites the `failed` of a stop that came before its `Prepare`,
  and `markReady` that of a worker that ended. On the other side `current`, `alive`
  and the receipts of stops in `InstanceLifecycle` take no step that
  `WorkerHandles` does not take.

`StartSlot` and `StartQueue`: the refinement maps the active entry to the holder,
the waiting list to the set of requests with their rank and number, and the pause flag to
`closed`. `Enqueue`, `WaitWithdraw`, `Done` and `SetPaused` must each do what `Ask`,
`GiveUp`, `Release` and `SetClosed` do, including the hand-over to the first
request (`Settle`), in one step; every other step of the queue is a stutter.

## 3. Runs

| run | bounds | what it shows |
|---|---|---|
| `start_queue` | 3 operations, all priorities, 2 guard callers | the slot is neither lost nor shared (`SlotOwned`), list, slot and map agree (`NoStrandedEntry`), starts take the slot in priority order (`PriorityOrder`), the queue implements `StartSlot`, whose slot is never free while somebody stands for it and it is open (`ImplementsSlot`), and every start is answered if the queue stays unpaused (`UnpausedQueueDrains`) |
| `start_queue_pause` | 1 operation, 2 guard callers | **violated** `PausedUnderGuard`: see section 6 |
| `inference_gate` | 3 requests, 2 workers, the second with fewer slots | slots are counted exactly (`SlotsAccounted`), a drain sees every lease of a worker whose routing stands, and nothing else unless an old copy was put back (`DrainSeesLeases`), waiters are in the list of their gate (`WaitersAreListed`), a gate gives out no more slots than the largest limit that one of the requests at this gate brought along (`GateIsBounded`), and a waiter is answered without its timeout (`WaitersAreServed`) |
| `supervisor` | 2 handles while the guard's emergency lasts, or 1 handle while it relaxes twice | no spawn under emergency or shutdown (`NoSpawnUnderGuard`), a signalled worker is reported as gone (`StopEndsWorker`); and, until the guard leaves an emergency (`NeverRelaxed`, see finding 2): terminal handles have no live worker (`StoppedMeansGone`), the handles implement `WorkerHandles`, so that there are never two live workers (`ImplementsWorkers`), and a confirmed shutdown leaves none (`ShutdownIsFinal`) |
| `supervisor_orphan` | 1 handle, guard relaxes once | **violated** `EmergencyStopIsConfirmed`: see section 6 |
| `instance` | stops and claims with 2 workers, emergency stops with the first of them, 2 reapers | a ready instance routes to the current worker whatever is rolled back (`ReadyIsRouted`), no instance is left queued or starting without a start (`TransientHasOwner`), a late reaper spares a ready replacement (`ReplacementSurvivesReaper`), the instance implements `InstanceRouting` (`ImplementsRouting`); no deadlock |
| `instance_delete` | 1 worker; starts and deletions, fairness | a deleted instance leaves no worker (`DeletedHasNoWorker`), accepted operations end and give back the gate (`OperationsEnd`), a ready instance with a dead worker is found (`DeadWorkerLeavesReady`) |
| `instance_unconfirmed` | 1 worker; starts and stops | **violated** `UnconfirmedStopHoldsResources`: see section 6 |
| `crash_restart` | 2 worker generations, 1 configuration change; starts and stops that fail at every place | the flag that makes later crashes be ignored always has a goroutine that will clear it (`RestartingHasOwner`), a stop that completes during the delay is not undone (`StopOutlastsDelay`), a crash is answered by a start unless somebody has touched the instance (`CrashIsAnswered`) |
| `crash_restart_update` | 1 generation, 1 configuration change | **violated** `UpdateTakesPrecedence`: see section 6 |
| `updates` | 3 builds (version 1 built twice, and version 2), a quarantine of 2 entries, all faults, any number of launches | `current.json` names a complete bundle wherever a launcher is killed (`CurrentIsInstalled`), the version to go back to survives the pruning (`RollbackTargetKept`), a version that was seen to start is kept and active (`GoodVersionKept`), a build that failed is not activated again over another version by a launch that can read the quarantine (`FailedBuildStaysOut`), and a launch that finds a working version runs one (`WorkingVersionRuns`) |
| `model_storage` | 2 jobs for one bundle of 2 pieces, 1 restart, all faults | a published bundle is whole, and a deleted one gone, whenever nobody moves files (`PublishedIsKept`), no staging directory is left behind (`StagingHasOwner`), jobs and deletions end and release the directory (`OperationsEnd`) |

`CHECK_DEADLOCK FALSE` stands where the system may really stop: every operation
answered, the engine shut down, the instance deleted, every job done, no launcher
under way.

Why the bounds are enough. Three operations are the least with an active entry,
one waiting and one inserted before it. Three requests fill a gate of one slot,
wait in its list and leave one that looked at the previous worker. Two handles are
the least in which a stop, a reaper or a rollback of an old worker can meet a new
one, and one is enough where only the guard or the outcome of an operation
matters. `MCSupervisor` therefore splits the state space with a variable `scenario`,
which restricts only what clients and the guard do, so that no fair action is cut
off. `MCInstanceLifecycle`, which checks safety only, has a state constraint: the
guard's emergency, and what is left of it, meets the first worker and no stop at
the same time, and two reapers wait at a time (the properties look at one).
In `InstanceLifecycle` the number of workers is bounded (`MaxHandles`), not the
number of operations: an instance without workers left goes on failing its starts.
At most one reaper at a time is between its two looks. Two crash generations are the least in which the clean-up of one restart
meets the history of the next crash. With three builds, one version built twice,
each build can fail over another one, and the three overflow a quarantine of two
entries (the code keeps 20, `quarantine.go:15`), so that one is forgotten. Two jobs are the least that publish
over each other, two pieces the least of which a deletion can move one only. For
safety, the proofs of section 5 remove the bounds of all seven systems.

## 4. Fairness

Only what the Go scheduler gives: a goroutine that can go on does (weak
fairness on the disjunction of its steps). Nothing a user or the guard may do
is fair: no cancellation, no context end, no guard change, no request, no exit
of a worker by itself, no fault. Two assumptions go further and come from the code:
a start that holds the slot ends (each of its waits has a timeout and `done` is
deferred), and a process that got SIGKILL ends.

In `InstanceLifecycle` the steps of a transaction and of a deletion are weakly
fair, and taking the lifecycle gate is strongly fair: the gate is a Go channel,
which serves its blocked receivers in order. The maintenance loop reconciles
again and again. Monitors, reapers and the guard need no fairness: what is
checked holds however late they are. In `ModelStorage` taking the directory lock is
strongly fair, because Go's mutex hands itself to a waiter that has starved. In
`CrashRestart` only the observers' steps are fair (their timers fire) and the end of a
start that has committed; no start or stop need get on. In `Updates` a launcher goes
on; that it is closed, killed or launched again is not fair.

## 5. Proofs

All theorems hold for every value of the constants under the assumptions the
modules state (`StartQueueAssumption` and the like): any set of operations,
requests, jobs or releases, any number of handles, generations or pieces. Each
module has one inductive invariant `IInv`; one lemma per action shows that it is
preserved, `Invariance` that it holds always, and the named theorems follow.

* **`StartQueueProofs`** (`TypeCorrect`, `SlotIsOwned`, `QueueWorks`,
  `NothingStranded`, `OrderKept`, `QueueImplementsSlot`). To the run's invariants `IInv` adds
  `WorkConserving`, `ReadyIsActive` (a closed `ready` channel belongs to the active entry or to one
  that has been forgotten), on which `WaitWithdraw` relies when it compares its
  entry with `active`, and `WaitingInOrder` (the list is sorted by priority and
  arrival), from which the action property `PriorityOrder` follows. `WorkConserving`
  (`QueueWorks`) is a lemma of the refinement, which says more.
  `QueueImplementsSlot` proves the refinement: every step of the queue is a step of
  `StartSlot` under the mapping, or a stutter; the head of the list is the first of
  the requests because the list is in order. The list lemmas are in `ListProofs`.
* **`InferenceGateProofs`** (`TypeCorrect`, `SlotsAreCounted`,
  `WaitersStayListed`, `DrainCountsLeases`, `GateStaysBounded`). The counters are
  cardinalities of sets of requests, so every action that moves a request is a
  lemma about one set losing and another gaining an element. `IInv` adds
  `WorkersMet` (a request knows only workers that have existed), `LimitKnown` (a gate
  that has given out a slot has a limit), and `Bounded`, which is `GateIsBounded`
  for a worker that has existed: slots in use become more only by a request that
  takes one within the limit it brings, which is the witness; a hand-over keeps
  their number.
  Last, `BackupCounts`: while
  a start holds a copy that it may put back, the copy's count covers the leases of its
  worker. It is preserved because a copy is taken of a closed instance only, where no
  lease is added, so that the leases can only become fewer than the copy says.
* **`SupervisorProofs`** (`TypeCorrect`, `StoppedIsGone`, `AtMostOneWorker`,
  `ShutdownLeavesNone`, `SpawnIsAdmitted`, `WorkersRefinement`). That a terminal handle has no worker
  depends on the order of the start, the watcher and four kinds of stops.
  `StoppedIsGone`, `AtMostOneWorker`, `ShutdownLeavesNone` and `WorkersRefinement` hold as long as no
  emergency has been left (`NeverRelaxed`); finding 2 shows that they need this. `IInv`
  adds `Installed`, `Progress` and `StopsInOrder` (what each goroutine has done at
  its place), `GateHolds` (guard and shutdown stay as they were admitted while the
  spawn gate is held), `FailedUnspawned`, `Untouched`, `DoneMeansGone` and
  `NothingAfterShutdown` (a handle failed before its spawn never gets a process).
  `WorkersRefinement` proves `ImplementsWorkers` with a second invariant, `EndsKnown`:
  a start on its way to its spawn has met no stop, a stop that has marked its handle
  has left its override there, and a terminal handle without a process is over. So a
  confirmed stop is of a handle that is over. Every action then ends at most one handle (`OneLess`) or changes none
  (`SameLive`). `AtMostOneWorker` is a lemma beside it.
* **`CrashRestartProofs`** (`TypeCorrect`, `RestartingIsOwned`,
  `StopIsNotUndone`). `IInv` adds `SeesItsOwn` (an observer has read the generation
  it is about, unless it was overtaken), `ParkedIsClosed` (over a parked restart no start
  is under way, and the instance stays stopped or on its way there) and
  `ReadyIsUnwatched` (an instance with a routing is one whose present worker no
  observer has seen crash, so a rollback that reopens it cannot follow a crash).
* **`UpdatesProofs`** (`TypeCorrect`, `CurrentStaysInstalled`,
  `RollbackStaysPossible`, `GoodVersionStays`, `FailedBuildIsNotActivated`). `IInv`
  adds what is active at each step of a launch: `BeforeActivation`, `Offered`,
  `Activated` and `GoodVersion`; and `NotedIsListed`: the entry noted last is still in
  the list, whether it was added to the old one or to a new one, so that the second
  half of `FailedBuildStaysOut` follows from the launch's look at the list.
* **`ModelStorageProofs`** (`TypeCorrect`, `PublishedStays`, `StagingIsOwned`).
  `IInv` adds `Kept`: while files are moved, the pieces that are not in place are
  in the backup or in the deletion's staging directory; and `StagingMoved`.

* **`InstanceLifecycleProofs`** (`TypeCorrect`, `ReadyStaysRouted`,
  `TransientIsOwned`, `DeletedIsStopped`, `ReaperSparesReplacement`,
  `RoutingRefinement`, `WorkersAsImplemented`), also with a
  stop, a deletion and the guard at work together, which no run has. `IInv` adds
  `BackupIsCurrent` (while a start can still restore its backup, a ready backup
  routes to the current worker), `StarterNeedsInstance`, `StopHitsCurrent` (under
  the gate the captured worker stays the current one), `GenerationsCount` and
  `ReapersAreOld` (a worker that became ready after a reaper's stop has a higher
  generation than the reaper). The actions that change the instance go through
  `ClosingStep`, `NoReadyStep` and `ReapersStep`, which say what any such step may do.
  `RoutingRefinement` adds `RoutingKnown`: a start that finds the instance
  ready has a ready backup, a backup is of the generation the instance still has, and
  no instance is ready while its next worker is launched. From it, every merge with a
  backup is a step of `InstanceRouting`. `WorkersAsImplemented` adds `TargetsInstalled`: stops and receipts
  name workers that were started. Together with `WorkersRefinement` it closes the gap
  between the two modules: what the lifecycle assumes is what the supervisor
  does.

Model-checked only: every liveness property, since fairness and `ENABLED` are
outside TLAPS.

## 6. What the checks found

1. **Pause flags out of order** (`resource_guard.go:557`, run
   `start_queue_pause`). `setGuardState` calls `startQueue.setPaused` after it
   has released its mutexes. The maintenance loop and the prewarm loop can both
   be there; their calls may arrive in the opposite order of their commits, and
   an unchanged guard state returns early, so the queue keeps the wrong flag.
2. **Orphan after an emergency stop** (`supervisor.go:356`, run
   `supervisor_orphan`). `ForceStopHandle` fails a handle that has no process
   yet and reports a confirmed stop. `Start` does not look at its handle again
   before `cmd.Start`; if the guard has left the emergency by then, the worker
   runs under a failed handle that nobody will stop.
3. **An unconfirmed stop is forgotten** (`transaction.go:29`, run
   `instance_unconfirmed`). A start that waits in the queue while a stop of its
   instance ends unconfirmed puts back the copy it took before, and then sets
   `failed` or `stopped`. The worker still runs; its memory counts as free, and
   the reaper, which compares the instance by identity, will not correct it.
4. **A restart reverts a configuration** (`health_watch.go:116`, run
   `crash_restart_update`). The restart after a crash uses the configuration it
   captured at the crash and makes it the requested one. A configuration requested
   during the delay is lost, also one that switches the automatic restart off,
   although the comment above (`health_watch.go:107`) says that "Anything that touched
   the instance in the meantime - a manual start, a delete, a stop - takes precedence
   over the automatic restart".

Other weaknesses met while modelling, which no text of the repository contradicts
and which therefore have no violation run, are in the hazards with a note, among
them: `markReady` may mark a worker ready whose end has already been written
(`supervisor.go:655`); a failed preparation may leave an instance `installing`
(`transaction.go:277`); a signal while an update gets ready counts as a failure of
the update, which is then quarantined (`run.go:227`); a launch that cannot read the
quarantine activates a quarantined build again, and the next failure overwrites the
whole list (`main.go:191`, `quarantine.go:70`; `quarantine_test.go:86` asserts that a
corrupt list blocks nothing); one that cannot read `current.json` prunes the version
that works (`main.go:301`); a restart that is announced late
overwrites the state of a start that came before it (`health_watch.go:88`); jobs that were running at a
restart block a new download of their model (`download_jobs.go:103`).

Exemptions in the properties. `GoodVersionKept` exempts a build that was left active
by a launch that was killed, closed in the first two seconds or unable to write
(`unproven`): the next launch takes it for good and prunes the old one; and a launch
that could not read which version is active. `FailedBuildStaysOut` exempts a launch
that could not read the quarantine (`unread`).
`PublishedIsKept` exempts a restart while files are moved, a rename that was to
undo another one and failed, and an old bundle that could not be removed and is put
back by a failed publication after the model was deleted (`spoiled`), until the next
publication.
`StopOutlastsDelay` and `CrashIsAnswered` exempt a model that was loaded while an
observer was between two sections (`overtaken`). The three supervisor invariants
that say `NeverRelaxed` hold for an emergency that lasts; finding 2 is what happens
otherwise.

## 7. Not modelled, and the plan

1. `InstanceLifecycle`: plans that restart further instances, LRU evictions
   before a start, shutdown and the restore from disk (`state_store.go`).
2. A publication and a deletion as atomic steps that `ModelStorage` implements, a
   launch as one choice of a version that `Updates` implements, the start of
   `CrashRestart` as an abstraction of `InstanceLifecycle`; waiters of a gate in
   order of arrival, as `StartSlot` has it for starts.
3. `Updates`: the choice of a versioned launcher before the lock is taken
   (`main.go:115`), the download with its retries. `ModelStorage`: downloads on
   other nodes, API descriptors, the engine's rescan, which is not serialised
   (`service.go:314`).
4. `CrashRestart`: the number of failures and the age of the history, that is, how
   far the delay climbs.
5. The resource guard's thresholds and its choice among candidates; the memory
   arithmetic of `internal/engineplanner` and the context search of
   `retry_context.go` as operators, checked against a reference definition.
6. Runtime installer jobs; pairing and connections of nodes; agent runs of spark.

The modelled part is the concurrent core of the engine and the two places where the
backend moves files that must survive a failure. The greater part of the repository
is not of that kind and is not planned: generated protocol code, the service surface
with its conversions, formatting, the Flutter client, scripts, and the modules that
are plain request/response over a small store (settings, news, benchmark, skills,
providers, search).

------------------------- MODULE CrashRestartProofs -------------------------
(***************************************************************************)
(* Proofs about the automatic restart, for any number of workers and of    *)
(* configurations.  The inductive invariant says which worker generation   *)
(* an observer has read, as long as no model was loaded while it was       *)
(* between two sections, and what a completed stop leaves behind.          *)
(***************************************************************************)
EXTENDS CrashRestart, TLAPS

\* An observer between two sections is about the present generation, and what it has
\* read is the generation it is about.
SeesItsOwn ==
  ~overtaken =>
    \A g \in Generations :
      /\ watch[g] \in Midway => generation = g
      /\ watch[g] \in {"read", "counted", "sleeping", "checked", "clearing"}
           => seen[g].generation = g

\* While restarts are parked, no start is under way and the instance stays closed.
ParkedIsClosed ==
  /\ parked # {} => start = "idle"
  /\ \A g \in parked : watch[g] \in {"sleeping", "checked", "clearing", "done"}
  /\ ~overtaken =>
       \A g \in parked :
         watch[g] = "sleeping" /\ generation = g /\ exists
           => state \in {"stopped", "draining", "unconfirmed"}

\* A ready instance has a routing, and the worker it leads to no observer of its crash
\* yet.
ReadyIsUnwatched ==
  /\ state = "ready" => routed
  /\ routed => \A g \in Generations : g = generation => watch[g] = "none"

IInv == TypeOK /\ RestartingHasOwner /\ SeesItsOwn /\ ParkedIsClosed /\ ReadyIsUnwatched

WatchSteps == {"none", "lost", "read", "counted", "sleeping", "checked", "clearing", "done"}

LEMMA NoPlanType == NoPlan \in [config : Configs, backup : Backups, before : Configs]
BY CrashAssumption DEF NoPlan, Configs, Backups

\* What scheduleStart sets keeps its types.
LEMMA ScheduleType ==
  ASSUME TypeOK, NEW c \in Configs, Schedule(c)
  PROVE  /\ state' \in States /\ requested' \in Configs
         /\ start' \in Starts
         /\ plan' \in [config : Configs, backup : Backups, before : Configs]
         /\ parked' \subseteq Generations
<1>1. CASE UNCHANGED <<state, requested, start, plan, parked>>
  BY <1>1 DEF TypeOK
<1>2. CASE /\ state' = IF state = "ready" THEN state ELSE "queued"
           /\ requested' = c
           /\ start' = "queued"
           /\ plan' = [config |-> c, backup |-> Backup, before |-> requested]
           /\ parked' = {}
  <2>1. Backup \in Backups /\ requested \in Configs
    BY DEF Backup, Backups, TypeOK
  <2>2. plan' \in [config : Configs, backup : Backups, before : Configs]
    BY <1>2, <2>1
  <2>3. state' \in States
    BY <1>2 DEF TypeOK, States, Holding
  <2> QED BY <1>2, <2>2, <2>3 DEF TypeOK, Starts
<1> QED BY <1>1, <1>2 DEF Schedule

\* The types, action by action, where they take an argument of their own.
LEMMA ClientStartType == ASSUME IInv, ClientStart PROVE TypeOK'
<1>1. /\ state' \in States /\ requested' \in Configs
      /\ start' \in Starts
      /\ plan' \in [config : Configs, backup : Backups, before : Configs]
      /\ parked' \subseteq Generations
  BY ScheduleType DEF IInv, TypeOK, ClientStart
<1>2. UNCHANGED <<exists, generation, effective, routed, closeVars, downVars, watchVars,
                  overtaken>>
  BY DEF ClientStart
<1> QED BY <1>1, <1>2 DEF IInv, TypeOK, closeVars, downVars, watchVars

LEMMA RestartType == ASSUME IInv, NEW g \in Generations, Restart(g) PROVE TypeOK'
<1>1. /\ state' \in States /\ requested' \in Configs
      /\ start' \in Starts
      /\ plan' \in [config : Configs, backup : Backups, before : Configs]
      /\ parked' \subseteq Generations
  <2>1. seen[g].config \in Configs
    BY DEF IInv, TypeOK
  <2>2. CASE Schedule(seen[g].config)
    BY <2>1, <2>2, ScheduleType DEF IInv
  <2>3. CASE SetState("failed") /\ UNCHANGED <<requested, startVars, parked>>
    BY <2>3 DEF IInv, TypeOK, SetState, startVars, States, Failed
  <2> QED BY <2>2, <2>3 DEF Restart
<1>2. watch[g] = "checked" /\ watch' = [watch EXCEPT ![g] = "clearing"]
  BY DEF Restart, Goto
<1>3. watch' \in [Generations -> WatchSteps] /\ \A h \in Generations : watch'[h] # "none" => h <= generation
  BY <1>2 DEF IInv, TypeOK, WatchSteps
<1>4. UNCHANGED <<exists, generation, effective, routed, closeVars, downVars, history, seen,
                  overtaken>>
  BY DEF Restart
<1> QED BY <1>1, <1>3, <1>4 DEF IInv, TypeOK, WatchSteps, closeVars, downVars

LEMMA WakeType == ASSUME IInv, NEW g \in Generations, Wake(g) PROVE TypeOK'
<1>1. watch[g] = "sleeping" /\ \E s \in {"checked", "clearing"} : watch' = [watch EXCEPT ![g] = s]
  BY DEF Wake, Goto
<1>2. watch' \in [Generations -> WatchSteps] /\ \A h \in Generations : watch'[h] # "none" => h <= generation
  BY <1>1 DEF IInv, TypeOK, WatchSteps
<1>3. UNCHANGED <<instVars, startVars, closeVars, downVars, history, seen, ghosts>>
  BY DEF Wake
<1> QED
  BY <1>2, <1>3 DEF IInv, TypeOK, WatchSteps, instVars, startVars, closeVars, downVars,
     ghosts

LEMMA ConsiderType == ASSUME IInv, NEW g \in Generations, Consider(g) PROVE TypeOK'
<1>1. watch[g] = "lost" /\ \E s \in {"read", "done"} : watch' = [watch EXCEPT ![g] = s]
  BY DEF Consider, Goto
<1>2. watch' \in [Generations -> WatchSteps] /\ \A h \in Generations : watch'[h] # "none" => h <= generation
  BY <1>1 DEF IInv, TypeOK, WatchSteps
<1>3. /\ seen' \in [Generations -> [generation : 0..MaxGenerations, config : Configs]]
      /\ \A h \in Generations : seen'[h] # NotSeen => h <= seen'[h].generation
  <2>1. CASE UNCHANGED seen
    BY <2>1 DEF IInv, TypeOK
  <2>2. CASE seen' = [seen EXCEPT ![g] = [generation |-> generation, config |-> requested]]
    <3>1. g <= generation /\ generation \in 0..MaxGenerations /\ requested \in Configs
      BY <1>1 DEF IInv, TypeOK
    <3>2. seen'[g].generation = generation /\ \A h \in Generations \ {g} : seen'[h] = seen[h]
      BY <2>2 DEF IInv, TypeOK
    <3>3. seen' \in [Generations -> [generation : 0..MaxGenerations, config : Configs]]
      BY <2>2, <3>1 DEF IInv, TypeOK
    <3> QED BY <3>1, <3>2, <3>3 DEF IInv, TypeOK
  <2> QED BY <2>1, <2>2 DEF Consider
<1>4. UNCHANGED <<instVars, startVars, closeVars, downVars, history, ghosts>>
  BY DEF Consider
<1> QED
  BY <1>2, <1>3, <1>4 DEF IInv, TypeOK, WatchSteps, instVars, startVars, closeVars,
     downVars, ghosts

\* An observer that is done forgets what it has read.
SeenType ==
  /\ seen \in [Generations -> [generation : 0..MaxGenerations, config : Configs]]
  /\ \A h \in Generations : seen[h] # NotSeen => h <= seen[h].generation

LEMMA SeenForgotten ==
  ASSUME TypeOK, NEW g \in Generations, seen' = [seen EXCEPT ![g] = NotSeen]
  PROVE  SeenType'
<1>1. NotSeen \in [generation : 0..MaxGenerations, config : Configs]
  BY CrashAssumption DEF NotSeen, Configs
<1>2. /\ seen' \in [Generations -> [generation : 0..MaxGenerations, config : Configs]]
      /\ seen'[g] = NotSeen /\ \A h \in Generations \ {g} : seen'[h] = seen[h]
  BY <1>1 DEF TypeOK
<1> QED BY <1>2 DEF TypeOK, SeenType

LEMMA ShutdownType == ASSUME IInv, Shutdown PROVE TypeOK'
<1>1. maintenance' \in BOOLEAN /\ shuttingDown' \in BOOLEAN
  BY DEF IInv, TypeOK, Shutdown
<1>2. UNCHANGED <<instVars, startVars, closeVars, watchVars, ghosts>>
  BY DEF Shutdown
<1> QED BY <1>1, <1>2 DEF IInv, TypeOK, instVars, startVars, closeVars, watchVars,
           ghosts

LEMMA CloseType == ASSUME IInv, Close PROVE TypeOK'
<1>1. closer' \in Closers /\ already' \in BOOLEAN /\ state' \in States
  BY DEF IInv, TypeOK, Close, SetState, States, Holding, Closers
<1>2. parked' \subseteq Generations
  BY DEF IInv, TypeOK, Close, Parked, Sleeping
<1>3. UNCHANGED <<exists, generation, requested, effective, routed, startVars, downVars,
                  watchVars, overtaken>>
  BY DEF Close
<1> QED BY <1>1, <1>2, <1>3 DEF IInv, TypeOK, startVars, downVars, watchVars

LEMMA ClosedType == ASSUME IInv, Closed PROVE TypeOK'
<1>1. closer' \in Closers /\ exists' \in BOOLEAN /\ state' \in States /\ routed' \in BOOLEAN
  BY DEF IInv, TypeOK, Closed, SetState, MarkUnconfirmed, States, Holding, Closers
<1>2. parked' \subseteq Generations
  BY DEF IInv, TypeOK, Closed, Parked, Sleeping
<1>3. UNCHANGED <<generation, requested, effective, startVars, already, downVars, watchVars,
                  overtaken>>
  BY DEF Closed
<1> QED BY <1>1, <1>2, <1>3 DEF IInv, TypeOK, startVars, downVars, watchVars

\* What a failed start leaves behind: an instance is only ready again with its routing.
LEMMA StartFailsOutcome ==
  ASSUME IInv, StartFails
  PROVE  /\ state' \in States /\ requested' \in Configs /\ routed' \in BOOLEAN
         /\ state' = "ready" => routed'
         /\ routed' => routed
<1>1. /\ exists \in BOOLEAN /\ state \in States /\ requested \in Configs /\ routed \in BOOLEAN
      /\ plan.before \in Configs /\ (state = "ready" => routed)
  BY DEF IInv, TypeOK, ReadyIsUnwatched
<1>2. CASE FailBeforeDrain
  BY <1>1, <1>2 DEF FailBeforeDrain, Reopened, Restored, Ended, SetState, States, Failed,
     Holding
<1>3. CASE FailDraining
  BY <1>1, <1>3 DEF FailDraining, Reopened, Restored, Ended, MarkUnconfirmed, SetState,
     States, Failed, Holding
<1>4. CASE FailLoading
  <2>1. UNCHANGED requested
    BY <1>4 DEF FailLoading
  <2>2. CASE (SetState("failed") \/ SetState("stopped")) /\ UNCHANGED routed
    BY <1>1, <2>1, <2>2 DEF SetState, States, Failed
  <2>3. CASE MarkUnconfirmed
    BY <1>1, <2>1, <2>3 DEF MarkUnconfirmed, States, Holding
  <2>4. CASE state' = "stopped" /\ routed' = FALSE
    BY <1>1, <2>1, <2>4 DEF States
  <2>5. CASE UNCHANGED <<state, routed>>
    BY <1>1, <2>1, <2>5
  <2> QED BY <1>4, <2>2, <2>3, <2>4, <2>5 DEF FailLoading, Ended
<1> QED BY <1>2, <1>3, <1>4 DEF StartFails

LEMMA StartFailsType == ASSUME IInv, StartFails PROVE TypeOK'
<1>1. state' \in States /\ requested' \in Configs /\ routed' \in BOOLEAN
  BY StartFailsOutcome
<1>2. start' = "idle" /\ plan' = NoPlan
  BY DEF StartFails
<1>3. UNCHANGED <<exists, generation, effective, closeVars, downVars, watchVars, ghosts>>
  BY DEF StartFails
<1> QED
  BY <1>1, <1>2, <1>3, NoPlanType DEF IInv, TypeOK, Starts, closeVars, downVars, watchVars,
     ghosts

\* The observer of a worker that is lost is not one of those that owe a restart.
LEMMA LoseOwner == ASSUME IInv, NEW g \in Generations, Lose(g) PROVE RestartingHasOwner'
<1>1. watch[g] = "none"
  BY DEF IInv, ReadyIsUnwatched, Lose
<1>2. \A h \in Generations : Pending(h) => h # g /\ watch'[h] = watch[h]
  BY <1>1 DEF IInv, TypeOK, Lose, Goto, Pending
<1>3. history' = history
  BY DEF Lose
<1> QED BY <1>2, <1>3 DEF IInv, RestartingHasOwner, Pending

\* The observer that announces a restart is not one whose restart a stop has parked.
LEMMA AnnounceParked == ASSUME IInv, NEW g \in Generations, Announce(g) PROVE ParkedIsClosed'
<1>1. /\ watch[g] = "counted" /\ watch' = [watch EXCEPT ![g] = "sleeping"]
      /\ UNCHANGED <<exists, generation, start, parked, overtaken>>
  BY DEF Announce, Goto, startVars, ghosts
<1>2. g \notin parked
  BY <1>1 DEF IInv, ParkedIsClosed
<1>3. ~overtaken => generation = g
  BY <1>1 DEF IInv, SeesItsOwn, Midway
<1> QED BY <1>1, <1>2, <1>3 DEF IInv, TypeOK, ParkedIsClosed

\* One lemma for each action: it preserves IInv, conjunct by conjunct.
LEMMA ClientStartIInv == ASSUME IInv, ClientStart PROVE IInv'
<1>1. RestartingHasOwner' /\ SeesItsOwn'
  BY DEF IInv, RestartingHasOwner, Pending, SeesItsOwn, ClientStart, watchVars
<1>2. TypeOK'
  BY ClientStartType
<1>3. ParkedIsClosed'
  BY CrashAssumption DEF IInv, ParkedIsClosed, ClientStart, watchVars, downVars,
     closeVars, Schedule
<1>4. ReadyIsUnwatched'
  BY CrashAssumption DEF IInv, ReadyIsUnwatched, ClientStart, watchVars, downVars,
     closeVars, Schedule
<1> QED BY <1>1, <1>2, <1>3, <1>4 DEF IInv

LEMMA UpdateConfigIInv == ASSUME IInv, UpdateConfig PROVE IInv'
<1>1. RestartingHasOwner' /\ SeesItsOwn' /\ ParkedIsClosed' /\ ReadyIsUnwatched'
  BY DEF IInv, RestartingHasOwner, Pending, SeesItsOwn, ParkedIsClosed,
     ReadyIsUnwatched, UpdateConfig, watchVars, startVars, ghosts
<1>2. TypeOK'
  BY CrashAssumption DEF IInv, TypeOK, UpdateConfig, watchVars, startVars, ghosts,
     downVars, closeVars, States, Failed, NotSeen, Configs
<1> QED BY <1>1, <1>2 DEF IInv

LEMMA RequestCloseIInv == ASSUME IInv, RequestClose PROVE IInv'
<1>1. RestartingHasOwner' /\ SeesItsOwn' /\ ParkedIsClosed' /\ ReadyIsUnwatched'
  BY DEF IInv, RestartingHasOwner, Pending, SeesItsOwn, ParkedIsClosed,
     ReadyIsUnwatched, RequestClose, watchVars, startVars, instVars, ghosts
<1>2. TypeOK'
  BY DEF IInv, TypeOK, RequestClose, Closers, watchVars, startVars, instVars, ghosts,
     downVars
<1> QED BY <1>1, <1>2 DEF IInv

LEMMA ShutdownIInv == ASSUME IInv, Shutdown PROVE IInv'
<1>1. RestartingHasOwner' /\ SeesItsOwn' /\ ParkedIsClosed' /\ ReadyIsUnwatched'
  BY DEF IInv, RestartingHasOwner, Pending, SeesItsOwn, ParkedIsClosed,
     ReadyIsUnwatched, Shutdown, watchVars, startVars, instVars, ghosts
<1>2. TypeOK'
  BY ShutdownType
<1> QED BY <1>1, <1>2 DEF IInv

LEMMA PrepareIInv == ASSUME IInv, Prepare PROVE IInv'
<1>1. RestartingHasOwner' /\ SeesItsOwn'
  BY DEF IInv, RestartingHasOwner, Pending, SeesItsOwn, Prepare, watchVars, ghosts
<1>2. TypeOK'
  <2>1. plan' \in [config : Configs, backup : Backups, before : Configs]
    BY DEF IInv, TypeOK, Prepare, Backup, Backups
  <2>2. state' \in States /\ start' \in Starts
    BY DEF IInv, TypeOK, Prepare, States, Holding, Starts
  <2>3. UNCHANGED <<exists, generation, requested, effective, routed, closeVars, downVars,
                    watchVars, ghosts>>
    BY DEF Prepare
  <2> QED BY <2>1, <2>2, <2>3 DEF IInv, TypeOK, closeVars, downVars, watchVars, ghosts
<1>3. ParkedIsClosed'
  BY DEF IInv, ParkedIsClosed, Prepare, watchVars, ghosts
<1>4. ReadyIsUnwatched'
  BY DEF IInv, ReadyIsUnwatched, Prepare, watchVars
<1> QED BY <1>1, <1>2, <1>3, <1>4 DEF IInv

LEMMA BeginDrainIInv == ASSUME IInv, BeginDrain PROVE IInv'
<1>1. RestartingHasOwner' /\ SeesItsOwn'
  BY DEF IInv, RestartingHasOwner, Pending, SeesItsOwn, BeginDrain, watchVars, ghosts
<1>2. TypeOK'
  BY DEF IInv, TypeOK, BeginDrain, States, Failed, Holding, Starts, closeVars, downVars,
     watchVars, ghosts, SetState
<1>3. ParkedIsClosed'
  BY DEF IInv, ParkedIsClosed, BeginDrain, watchVars, ghosts
<1>4. ReadyIsUnwatched'
  BY DEF IInv, ReadyIsUnwatched, BeginDrain, watchVars, SetState
<1> QED BY <1>1, <1>2, <1>3, <1>4 DEF IInv

LEMMA LoadingIInv == ASSUME IInv, Loading PROVE IInv'
<1>1. RestartingHasOwner' /\ SeesItsOwn'
  BY DEF IInv, RestartingHasOwner, Pending, SeesItsOwn, Loading, watchVars, ghosts
<1>2. TypeOK'
  BY DEF IInv, TypeOK, Loading, States, Failed, Holding, Starts, closeVars, downVars,
     watchVars, ghosts, SetState
<1>3. ParkedIsClosed'
  BY DEF IInv, ParkedIsClosed, Loading, watchVars, ghosts
<1>4. ReadyIsUnwatched'
  BY DEF IInv, ReadyIsUnwatched, Loading, watchVars, SetState
<1> QED BY <1>1, <1>2, <1>3, <1>4 DEF IInv

LEMMA RollBackIInv == ASSUME IInv, RollBack PROVE IInv'
<1>1. RestartingHasOwner' /\ SeesItsOwn'
  BY DEF IInv, RestartingHasOwner, Pending, SeesItsOwn, RollBack, watchVars, ghosts
<1>2. TypeOK'
  <2>1. plan' \in [config : Configs, backup : Backups, before : Configs]
    BY DEF IInv, TypeOK, RollBack
  <2>2. requested' \in Configs /\ start' \in Starts
    BY DEF IInv, TypeOK, RollBack, Starts
  <2>3. UNCHANGED <<exists, state, generation, effective, routed, closeVars, downVars,
                    watchVars, ghosts>>
    BY DEF RollBack
  <2> QED BY <2>1, <2>2, <2>3 DEF IInv, TypeOK, closeVars, downVars, watchVars, ghosts
<1>3. ParkedIsClosed'
  BY DEF IInv, ParkedIsClosed, RollBack, watchVars, ghosts
<1>4. ReadyIsUnwatched'
  BY DEF IInv, ReadyIsUnwatched, RollBack, watchVars
<1> QED BY <1>1, <1>2, <1>3, <1>4 DEF IInv

LEMMA CommitIInv == ASSUME IInv, Commit PROVE IInv'
<1>1. RestartingHasOwner'
  BY DEF IInv, RestartingHasOwner, Pending, Commit, watchVars, downVars
<1>2. TypeOK'
  <2>1. state' \in States /\ start' \in Starts /\ routed' \in BOOLEAN /\ effective' \in Configs
    BY DEF IInv, TypeOK, Commit, States, Holding, Starts
  <2>2. generation' \in 0..MaxGenerations /\ \A g \in Generations : watch[g] # "none" => g <= generation'
    BY CrashAssumption DEF IInv, TypeOK, Commit, Generations
  <2>3. overtaken' \in BOOLEAN /\ plan' = NoPlan
    BY DEF IInv, TypeOK, Commit
  <2>4. UNCHANGED <<exists, requested, closeVars, downVars, watchVars, parked>>
    BY DEF Commit
  <2> QED
    BY <2>1, <2>2, <2>3, <2>4, NoPlanType DEF IInv, TypeOK, closeVars, downVars, watchVars
<1>3. SeesItsOwn'
  BY CrashAssumption DEF IInv, SeesItsOwn, Commit, watchVars, downVars, closeVars
<1>4. ParkedIsClosed'
  BY CrashAssumption DEF IInv, ParkedIsClosed, Commit, watchVars, downVars, closeVars
<1>5. ReadyIsUnwatched'
  BY CrashAssumption DEF IInv, ReadyIsUnwatched, Commit, watchVars, downVars, TypeOK
<1> QED BY <1>1, <1>2, <1>3, <1>4, <1>5 DEF IInv

LEMMA NoteRecoveredIInv == ASSUME IInv, NoteRecovered PROVE IInv'
<1>1. SeesItsOwn' /\ ReadyIsUnwatched'
  BY DEF IInv, SeesItsOwn, ReadyIsUnwatched, NoteRecovered, instVars, ghosts
<1>2. TypeOK'
  BY DEF IInv, TypeOK, NoteRecovered, Starts, instVars, ghosts, downVars, closeVars
<1>3. RestartingHasOwner'
  BY CrashAssumption DEF IInv, RestartingHasOwner, NoteRecovered, instVars, ghosts,
     downVars, closeVars
<1>4. ParkedIsClosed'
  BY CrashAssumption DEF IInv, ParkedIsClosed, NoteRecovered, instVars, ghosts, downVars
<1> QED BY <1>1, <1>2, <1>3, <1>4 DEF IInv

LEMMA StartFailsIInv == ASSUME IInv, StartFails PROVE IInv'
<1>1. UNCHANGED <<exists, generation, watchVars, ghosts>>
  BY DEF StartFails
<1>2. RestartingHasOwner' /\ SeesItsOwn'
  BY <1>1 DEF IInv, RestartingHasOwner, Pending, SeesItsOwn, watchVars, ghosts
<1>3. TypeOK'
  BY StartFailsType
<1>4. ParkedIsClosed'
  <2>1. start # "idle"
    BY DEF StartFails, FailBeforeDrain, FailDraining, FailLoading
  <2>2. parked' = {}
    BY <1>1, <2>1 DEF IInv, ParkedIsClosed, ghosts
  <2> QED BY <2>2 DEF ParkedIsClosed
<1>5. ReadyIsUnwatched'
  BY <1>1, StartFailsOutcome DEF IInv, ReadyIsUnwatched, watchVars
<1> QED BY <1>2, <1>3, <1>4, <1>5 DEF IInv

LEMMA CloseIInv == ASSUME IInv, Close PROVE IInv'
<1>1. RestartingHasOwner' /\ SeesItsOwn'
  BY DEF IInv, RestartingHasOwner, Pending, SeesItsOwn, Close, watchVars
<1>2. TypeOK'
  BY CloseType
<1>3. ParkedIsClosed'
  BY CrashAssumption DEF IInv, ParkedIsClosed, Close, watchVars, startVars, downVars,
     SetState, Parked, Sleeping
<1>4. ReadyIsUnwatched'
  BY CrashAssumption DEF IInv, ReadyIsUnwatched, Close, watchVars, startVars, downVars,
     SetState, Generations
<1> QED BY <1>1, <1>2, <1>3, <1>4 DEF IInv

LEMMA ClosedIInv == ASSUME IInv, Closed PROVE IInv'
<1>1. RestartingHasOwner' /\ SeesItsOwn'
  BY DEF IInv, RestartingHasOwner, Pending, SeesItsOwn, Closed, watchVars
<1>2. TypeOK'
  BY ClosedType
<1>3. ParkedIsClosed'
  BY CrashAssumption DEF IInv, ParkedIsClosed, Closed, watchVars, startVars, downVars,
     SetState, MarkUnconfirmed, Parked, Sleeping
<1>4. ReadyIsUnwatched'
  <2>1. UNCHANGED <<generation, watch>>
    BY DEF Closed, watchVars
  <2>2. (state' = "ready" => routed') /\ (routed' => routed)
    <3>1. state = "ready" => routed
      BY DEF IInv, ReadyIsUnwatched
    <3>2. CASE SetState("stopped") /\ routed' = (routed /\ ~exists)
      BY <3>1, <3>2 DEF IInv, TypeOK, SetState
    <3>3. CASE UNCHANGED <<state, routed>>
      BY <3>1, <3>3
    <3>4. CASE MarkUnconfirmed
      BY <3>1, <3>4 DEF MarkUnconfirmed
    <3> QED BY <3>2, <3>3, <3>4 DEF Closed
  <2> QED BY <2>1, <2>2 DEF IInv, ReadyIsUnwatched
<1> QED BY <1>1, <1>2, <1>3, <1>4 DEF IInv

LEMMA GiveUpIInv == ASSUME IInv, GiveUp PROVE IInv'
<1>1. RestartingHasOwner' /\ SeesItsOwn' /\ ParkedIsClosed' /\ ReadyIsUnwatched'
  BY DEF IInv, RestartingHasOwner, Pending, SeesItsOwn, ParkedIsClosed,
     ReadyIsUnwatched, GiveUp, watchVars, startVars, instVars, ghosts
<1>2. TypeOK'
  BY DEF IInv, TypeOK, GiveUp, Closers, watchVars, startVars, instVars, ghosts, downVars
<1> QED BY <1>1, <1>2 DEF IInv

LEMMA ReapIInv == ASSUME IInv, Reap PROVE IInv'
<1>1. RestartingHasOwner' /\ SeesItsOwn'
  BY DEF IInv, RestartingHasOwner, Pending, SeesItsOwn, Reap, watchVars
<1>2. TypeOK'
  BY DEF IInv, TypeOK, Reap, States, Parked, Sleeping, startVars, closeVars, downVars,
     watchVars
<1>3. ParkedIsClosed'
  BY DEF IInv, ParkedIsClosed, Reap, watchVars, startVars, Parked, Sleeping
<1>4. ReadyIsUnwatched'
  BY DEF IInv, ReadyIsUnwatched, Reap, watchVars
<1> QED BY <1>1, <1>2, <1>3, <1>4 DEF IInv

LEMMA LoseIInv == ASSUME IInv, NEW g \in Generations, Lose(g) PROVE IInv'
<1>1. TypeOK'
  <2>1. state' \in States /\ routed' \in BOOLEAN
    BY DEF Lose, States, Failed
  <2>2. watch' = [watch EXCEPT ![g] = "lost"] /\ g = generation
    BY DEF Lose, Goto
  <2>3. watch' \in [Generations -> WatchSteps] /\ \A h \in Generations : watch'[h] # "none" => h <= generation
    BY <2>2 DEF IInv, TypeOK, WatchSteps, Generations
  <2>4. UNCHANGED <<exists, generation, requested, effective, startVars, closeVars, downVars,
                    history, seen, ghosts>>
    BY DEF Lose
  <2> QED
    BY <2>1, <2>3, <2>4 DEF IInv, TypeOK, WatchSteps, startVars, closeVars, downVars, ghosts
<1>2. RestartingHasOwner'
  BY LoseOwner
<1>3. SeesItsOwn'
  BY CrashAssumption DEF IInv, SeesItsOwn, Lose, startVars, ghosts, downVars, closeVars,
     Goto
<1>4. ParkedIsClosed'
  BY CrashAssumption DEF IInv, ParkedIsClosed, Lose, startVars, ghosts, downVars,
     closeVars, Goto, ReadyIsUnwatched
<1>5. ReadyIsUnwatched'
  BY CrashAssumption DEF IInv, ReadyIsUnwatched, Lose, startVars, ghosts, downVars,
     closeVars
<1> QED BY <1>1, <1>2, <1>3, <1>4, <1>5 DEF IInv

LEMMA ConsiderIInv == ASSUME IInv, NEW g \in Generations, Consider(g) PROVE IInv'
<1>1. TypeOK'
  BY ConsiderType
<1>2. RestartingHasOwner'
  BY CrashAssumption DEF IInv, RestartingHasOwner, Consider, startVars, instVars,
     ghosts, downVars, closeVars, Goto, Pending, Generations, TypeOK
<1>3. SeesItsOwn'
  BY CrashAssumption DEF IInv, SeesItsOwn, Consider, startVars, instVars, ghosts,
     downVars, closeVars, Goto, Midway, TypeOK
<1>4. ParkedIsClosed'
  BY CrashAssumption DEF IInv, ParkedIsClosed, Consider, startVars, instVars, ghosts,
     downVars, closeVars, Goto, Wanted, TypeOK
<1>5. ReadyIsUnwatched'
  BY CrashAssumption DEF IInv, ReadyIsUnwatched, Consider, startVars, instVars, ghosts,
     downVars, closeVars, Goto, Generations, TypeOK
<1> QED BY <1>1, <1>2, <1>3, <1>4, <1>5 DEF IInv

LEMMA CountIInv == ASSUME IInv, NEW g \in Generations, Count(g) PROVE IInv'
<1>1. watch[g] = "read" /\ \E s \in {"counted", "done"} :
        /\ watch' = [watch EXCEPT ![g] = s]
        /\ s = "done" => history = "restarting" /\ seen' = [seen EXCEPT ![g] = NotSeen]
        /\ s = "counted" => seen' = seen
  BY DEF Count, Goto
<1>2. history' = "restarting"
  BY DEF Count
<1>3. UNCHANGED <<instVars, startVars, closeVars, downVars, ghosts>>
  BY DEF Count
<1>4. TypeOK'
  <2>1. watch' \in [Generations -> WatchSteps] /\ \A h \in Generations : watch'[h] # "none" => h <= generation
    BY <1>1 DEF IInv, TypeOK, WatchSteps
  <2>2. SeenType'
    BY <1>1, <1>3, SeenForgotten DEF IInv, TypeOK, SeenType, instVars
  <2> QED
    BY <1>2, <1>3, <2>1, <2>2 DEF IInv, TypeOK, SeenType, WatchSteps, instVars, startVars,
       closeVars, downVars, ghosts
<1>5. RestartingHasOwner'
  BY <1>1, <1>2 DEF IInv, TypeOK, RestartingHasOwner, Pending
<1>6. SeesItsOwn'
  BY <1>1, <1>3 DEF IInv, TypeOK, SeesItsOwn, Midway, instVars, ghosts
<1>7. ParkedIsClosed'
  BY <1>1, <1>3 DEF IInv, TypeOK, ParkedIsClosed, instVars, startVars, ghosts
<1>8. ReadyIsUnwatched'
  BY <1>1, <1>3 DEF IInv, TypeOK, ReadyIsUnwatched, instVars
<1> QED BY <1>4, <1>5, <1>6, <1>7, <1>8 DEF IInv

LEMMA AnnounceIInv == ASSUME IInv, NEW g \in Generations, Announce(g) PROVE IInv'
<1>1. TypeOK'
  BY CrashAssumption DEF IInv, TypeOK, Announce, startVars, ghosts, downVars, closeVars,
     SetState, Goto, States, Failed, NotSeen
<1>2. RestartingHasOwner'
  BY CrashAssumption DEF IInv, RestartingHasOwner, Announce, startVars, ghosts,
     downVars, closeVars, SetState, Goto, Pending
<1>3. SeesItsOwn'
  BY CrashAssumption DEF IInv, SeesItsOwn, Announce, startVars, ghosts, downVars,
     closeVars, SetState, Goto, Midway
<1>4. ParkedIsClosed'
  BY AnnounceParked
<1>5. ReadyIsUnwatched'
  BY CrashAssumption DEF IInv, ReadyIsUnwatched, Announce, startVars, ghosts, downVars,
     closeVars, SetState, Goto
<1> QED BY <1>1, <1>2, <1>3, <1>4, <1>5 DEF IInv

LEMMA WakeIInv == ASSUME IInv, NEW g \in Generations, Wake(g) PROVE IInv'
<1>1. TypeOK'
  BY WakeType
<1>2. RestartingHasOwner'
  BY CrashAssumption DEF IInv, RestartingHasOwner, Wake, startVars, instVars, ghosts,
     downVars, closeVars, Goto, Pending, Generations, TypeOK
<1>3. SeesItsOwn'
  BY CrashAssumption DEF IInv, SeesItsOwn, Wake, startVars, instVars, ghosts, downVars,
     closeVars, Goto, Midway, Stale, TypeOK
<1>4. ParkedIsClosed'
  BY CrashAssumption DEF IInv, ParkedIsClosed, Wake, startVars, instVars, ghosts,
     downVars, closeVars, Goto, Stale, TypeOK
<1>5. ReadyIsUnwatched'
  BY CrashAssumption DEF IInv, ReadyIsUnwatched, Wake, startVars, instVars, ghosts,
     downVars, closeVars, Goto, Generations, TypeOK
<1> QED BY <1>1, <1>2, <1>3, <1>4, <1>5 DEF IInv

LEMMA RestartIInv == ASSUME IInv, NEW g \in Generations, Restart(g) PROVE IInv'
<1>1. TypeOK'
  BY RestartType
<1>2. RestartingHasOwner'
  BY CrashAssumption DEF IInv, RestartingHasOwner, Restart, startVars, downVars,
     closeVars, SetState, Schedule, Goto, Pending
<1>3. SeesItsOwn'
  BY CrashAssumption DEF IInv, SeesItsOwn, Restart, startVars, downVars, closeVars,
     SetState, Schedule, Goto, Midway
<1>4. ParkedIsClosed'
  BY CrashAssumption DEF IInv, ParkedIsClosed, Restart, startVars, downVars, closeVars,
     SetState, Schedule, Goto, SeesItsOwn, Midway
<1>5. ReadyIsUnwatched'
  BY CrashAssumption DEF IInv, ReadyIsUnwatched, Restart, startVars, downVars,
     closeVars, SetState, Schedule, Goto
<1> QED BY <1>1, <1>2, <1>3, <1>4, <1>5 DEF IInv

LEMMA ClearIInv == ASSUME IInv, NEW g \in Generations, Clear(g) PROVE IInv'
<1>1. /\ watch[g] = "clearing" /\ watch' = [watch EXCEPT ![g] = "done"]
      /\ seen' = [seen EXCEPT ![g] = NotSeen]
  BY DEF Clear, Goto
<1>2. history' \in {"none", "idle"}
  BY DEF Clear
<1>3. UNCHANGED <<instVars, startVars, closeVars, downVars, ghosts>>
  BY DEF Clear
<1>4. TypeOK'
  <2>1. watch' \in [Generations -> WatchSteps] /\ \A h \in Generations : watch'[h] # "none" => h <= generation
    BY <1>1, <1>3 DEF IInv, TypeOK, WatchSteps, instVars
  <2>2. SeenType'
    BY <1>1, SeenForgotten DEF IInv
  <2> QED
    BY <1>2, <1>3, <2>1, <2>2 DEF IInv, TypeOK, SeenType, WatchSteps, instVars, startVars,
       closeVars, downVars, ghosts
<1>5. RestartingHasOwner'
  BY <1>2 DEF RestartingHasOwner
<1>6. SeesItsOwn'
  BY <1>1, <1>3 DEF IInv, TypeOK, SeesItsOwn, Midway, instVars, ghosts
<1>7. ParkedIsClosed'
  BY <1>1, <1>3 DEF IInv, TypeOK, ParkedIsClosed, instVars, startVars, ghosts
<1>8. ReadyIsUnwatched'
  BY <1>1, <1>3 DEF IInv, TypeOK, ReadyIsUnwatched, instVars
<1> QED BY <1>4, <1>5, <1>6, <1>7, <1>8 DEF IInv

\* IInv holds initially, and no step of the system and no stuttering disturbs it.
LEMMA InitIInv == Init => IInv
<1> SUFFICES ASSUME Init PROVE IInv
  OBVIOUS
<1>1. TypeOK
  <2>1. /\ watch \in [Generations -> {"none", "lost", "read", "counted", "sleeping", "checked",
                                      "clearing", "done"}]
        /\ seen \in [Generations -> [generation : 0..MaxGenerations, config : Configs]]
        /\ \A g \in Generations : watch[g] = "none" /\ seen[g] = NotSeen
    BY CrashAssumption DEF Init, NotSeen, Configs
  <2>2. generation \in 0..MaxGenerations /\ requested \in Configs /\ effective \in Configs
    BY CrashAssumption DEF Init, Configs
  <2>3. plan \in [config : Configs, backup : Backups, before : Configs]
    BY NoPlanType DEF Init
  <2>4. /\ exists \in BOOLEAN /\ state \in States /\ start \in Starts
        /\ closer \in Closers /\ already \in BOOLEAN
        /\ maintenance \in BOOLEAN /\ shuttingDown \in BOOLEAN
        /\ history \in {"none", "idle", "restarting"}
        /\ overtaken \in BOOLEAN /\ parked \subseteq Generations /\ routed \in BOOLEAN
    BY DEF Init, States, Holding, Starts, Closers
  <2> QED BY <2>1, <2>2, <2>3, <2>4 DEF TypeOK
<1>2. RestartingHasOwner /\ SeesItsOwn /\ ParkedIsClosed /\ ReadyIsUnwatched
  BY DEF Init, RestartingHasOwner, SeesItsOwn, ParkedIsClosed, ReadyIsUnwatched, Midway
<1> QED BY <1>1, <1>2 DEF IInv

LEMMA StutterIInv == ASSUME IInv, UNCHANGED vars PROVE IInv'
<1>1. TypeOK'
  BY DEF IInv, TypeOK, vars, instVars, startVars, closeVars, downVars, watchVars, ghosts
<1>2. RestartingHasOwner' /\ SeesItsOwn' /\ ParkedIsClosed' /\ ReadyIsUnwatched'
  BY DEF IInv, RestartingHasOwner, Pending, SeesItsOwn, ParkedIsClosed,
     ReadyIsUnwatched, vars, instVars, startVars, watchVars, ghosts
<1> QED BY <1>1, <1>2 DEF IInv

LEMMA NextIInv == IInv /\ [Next]_vars => IInv'
<1> SUFFICES ASSUME IInv, [Next]_vars PROVE IInv'
  OBVIOUS
<1>1. CASE ClientStart \/ UpdateConfig \/ RequestClose \/ Shutdown
  BY <1>1, ClientStartIInv, UpdateConfigIInv, RequestCloseIInv, ShutdownIInv
<1>2. CASE StartStep \/ CloseStep
  BY <1>2, PrepareIInv, BeginDrainIInv, LoadingIInv, RollBackIInv, CommitIInv,
     NoteRecoveredIInv, StartFailsIInv, CloseIInv, GiveUpIInv, ClosedIInv DEF StartStep, CloseStep
<1>3. CASE \E g \in Generations : Lose(g) \/ WatchStep(g)
  BY <1>3, LoseIInv, ConsiderIInv, CountIInv, AnnounceIInv, WakeIInv, RestartIInv,
     ClearIInv DEF WatchStep
<1>4. CASE UNCHANGED vars
  BY <1>4, StutterIInv
<1> QED BY <1>1, <1>2, <1>3, <1>4, ReapIInv DEF Next

\* IInv holds in every reachable state of every instance.
THEOREM Invariance == Spec => []IInv
BY InitIInv, NextIInv, PTL DEF Spec

\* The types, and that an observer reads no generation older than its own.
THEOREM TypeCorrect == Spec => []TypeOK
<1>1. IInv => TypeOK
  BY DEF IInv
<1> QED BY <1>1, Invariance, PTL

\* Crashes are ignored only while a goroutine will clear the flag (health_watch.go,
\* considerCrashRestart and clearCrashRestarting).
THEOREM RestartingIsOwned == Spec => []RestartingHasOwner
<1>1. IInv => RestartingHasOwner
  BY DEF IInv
<1> QED BY <1>1, Invariance, PTL

\* A restart whose delay ends after a completed stop is given up (health_watch.go,
\* runCrashRestart).
THEOREM StopIsNotUndone == Spec => StopOutlastsDelay
<1>1. ASSUME IInv, [Next]_vars, NEW g \in parked,
             watch[g] = "sleeping", watch'[g] = "checked", ~overtaken
      PROVE  FALSE
  <2>1. g \in Generations
    BY <1>1 DEF IInv, TypeOK
  <2>2. \E h \in Generations : Wake(h)
    <3>1. watch' # watch
      BY <1>1
    <3>2. \E h \in Generations : Lose(h) \/ WatchStep(h)
      BY <1>1, <3>1 DEF Next, ClientStart, UpdateConfig, RequestClose, Shutdown,
         StartStep, Prepare, BeginDrain, Loading, RollBack, Commit, NoteRecovered,
         StartFails, CloseStep, Close, GiveUp, Closed, Reap, vars, watchVars
    <3>3. PICK h \in Generations : Lose(h) \/ WatchStep(h)
      BY <3>2
    <3>4. Lose(h) \/ Consider(h) \/ Count(h) \/ Announce(h) \/ Restart(h) \/ Clear(h)
            => watch'[g] # "checked"
      BY <1>1, <2>1 DEF IInv, TypeOK, Lose, Consider, Count, Announce, Restart, Clear,
         Goto
    <3> QED BY <1>1, <3>3, <3>4 DEF WatchStep
  <2>3. PICK h \in Generations : Wake(h)
    BY <2>2
  <2>4. h = g /\ ~Stale(g)
    BY <1>1, <2>1, <2>3 DEF IInv, TypeOK, Wake, Goto
  <2>5. seen[g].generation = g
    BY <1>1, <2>1 DEF IInv, SeesItsOwn
  <2>6. exists /\ generation = g /\ state \in Failed
    BY <2>4, <2>5 DEF Stale
  <2> QED BY <1>1, <2>6 DEF IInv, ParkedIsClosed, Failed
<1>2. IInv /\ [Next]_vars =>
        [\A g \in parked : watch[g] = "sleeping" /\ watch'[g] = "checked" => overtaken]_vars
  BY <1>1
<1> QED BY <1>2, Invariance, PTL DEF Spec, StopOutlastsDelay
=============================================================================

---------------------- MODULE InstanceLifecycleProofs ----------------------
(***************************************************************************)
(* Proofs about the life of an instance, for any number of workers, with   *)
(* and without a stop, a deletion and the guard.  The inductive invariant  *)
(* says what a start knows of the instance while it can still go back to   *)
(* its backup, and how generations and handles grow together.              *)
(***************************************************************************)
EXTENDS InstanceLifecycle, TLAPS

\* Steps of a start that can still restore its backup, or has just done so.
Undecided == {"queued", "left", "timed_out", "gating", "preparing", "draining"}

\* The backup of a ready instance routes to the current worker, and no other start
\* has made the instance queued or starting meanwhile; no start makes it ready.
BackupIsCurrent ==
  /\ pc \in Undecided /\ backup.state = "ready" =>
       backup.secret = current /\ current # 0 /\ inst.state \notin {"queued", "starting"}
  /\ pc = "starting" => inst.state # "ready"
  /\ pc = "releasing" /\ exists => inst.state \notin {"queued", "starting"}

\* A start that holds the gate is about an instance that exists.
StarterNeedsInstance == pc \in StarterHolds \ {"releasing"} => exists

\* Under the gate the captured worker stays the current one, so that after a
\* confirmed stop there is none.
StopHitsCurrent ==
  /\ alive \subseteq Handles
  /\ \A c \in Closers :
       /\ closer[c] = "stopping" => captured[c].handle = current
       /\ closer[c] = "stopped" => alive = {}
  /\ guard # "idle" => "guard" \in Guards

\* A generation is counted when a worker becomes ready: there are no more of them
\* than workers, and less while a new one loads.
GenerationsCount ==
  /\ inst.generation <= current /\ backup.generation <= current
  /\ pc \in {"loading", "verifying", "verified"} => inst.generation < current
  /\ \A h \in monitors : h <= current

\* A reaper is about a worker that was there in its generation, and a worker that
\* became ready later has a higher one.
ReapersAreOld ==
  \A r \in reapers :
    /\ r.handle <= current /\ r.generation <= inst.generation
    /\ r.checked => r.handle \notin alive
    /\ r.handle # current /\ current \in monitors => r.generation < inst.generation

\* TypeOK in three parts: the instance and its worker, the operations, the stops.
ReadyBackup == [NoBackup EXCEPT !.state = "ready"]
Backups == Instances \cup {NoBackup, ReadyBackup}

InstanceTypes ==
  /\ exists \in BOOLEAN /\ inst \in Instances /\ backup \in Backups
  /\ current \in 0..MaxHandles /\ alive \subseteq {current}

Steps == {"idle", "queued", "left", "timed_out", "gating", "finishing"} \cup StarterHolds
CloserSteps == {"idle", "claimed", "cancelling", "waiting"} \cup CloserHolds

OperationTypes ==
  /\ pc \in Steps /\ closer \in [Closers -> CloserSteps]
  /\ gate \in {"free", "starter"} \cup Closers
  /\ pc \in StarterHolds <=> gate = "starter"
  /\ \A c \in Closers : closer[c] \in CloserHolds <=> gate = c
  /\ rolling \in BOOLEAN /\ already \in BOOLEAN /\ snapped \in BOOLEAN
  /\ cancelled \subseteq {"starter"} \cup Closers
  /\ guard \in {"idle", "picked", "marked", "stopping", "stopped", "checked"}

Reapers == [handle: Handles, phase: Phases, generation: 0..MaxHandles, checked: BOOLEAN]

StopTypes ==
  /\ captured \in [Actors -> Targets] /\ receipt \in Targets
  /\ reapers \subseteq Reapers /\ monitors \subseteq Handles

IInv ==
  /\ InstanceTypes /\ OperationTypes /\ StopTypes
  /\ ReadyIsRouted /\ TransientHasOwner /\ DeletedHasNoWorker
  /\ BackupIsCurrent /\ StarterNeedsInstance /\ StopHitsCurrent
  /\ GenerationsCount /\ ReapersAreOld

\* TypeOK is the conjunction of its three parts, which the steps disturb one at a time.
LEMMA TypeParts == TypeOK <=> InstanceTypes /\ OperationTypes /\ StopTypes
BY DEF TypeOK, InstanceTypes, OperationTypes, StopTypes, Steps, CloserSteps, Reapers,
   Backups, ReadyBackup

\* A backup that is no instance keeps the state only, and knows no generation.
LEMMA BackupFacts ==
  /\ NoBackup \in Backups /\ NoBackup.state = "none" /\ NoBackup.generation = 0
  /\ ReadyBackup \in Backups /\ ReadyBackup.state = "ready" /\ ReadyBackup.secret = 0
  /\ \A b \in Instances : b \in Backups /\ b.state # "none"
  /\ \A b : StateOf(b) \in Backups /\ StateOf(b).generation = 0
  /\ \A b : StateOf(b).state = "ready" <=> b.state = "ready"
  /\ \A b \in Backups : b.state # "ready" => b = NoBackup \/ b \in Instances
BY DEF Backups, NoBackup, ReadyBackup, StateOf, Instances, States

\* A state that is set keeps the routing and the generation.
LEMMA SetStateFacts ==
  ASSUME InstanceTypes, NEW state \in States, NEW phase \in Phases, SetState(state, phase)
  PROVE  /\ inst' \in Instances
         /\ inst'.secret = inst.secret /\ inst'.generation = inst.generation
         /\ exists => inst'.state = state /\ inst'.phase = phase
         /\ ~exists => inst' = inst
<1>1. inst \in Instances
  BY DEF InstanceTypes
<1> QED BY <1>1 DEF SetState, Instances

\* Clearing ends the routing and keeps the generation.
LEMMA ClearedFacts ==
  ASSUME InstanceTypes, NEW state \in States, NEW phase \in Phases
  PROVE  /\ Cleared(state, phase) \in Instances
         /\ Cleared(state, phase).state = state
         /\ Cleared(state, phase).generation = inst.generation
<1>1. 0 \in 0..MaxHandles
  BY LifecycleAssumption
<1>2. inst \in Instances
  BY DEF InstanceTypes
<1> QED BY <1>1, <1>2 DEF Cleared, Instances

\* A captured target is one; the new receipt is none.
LEMMA CaptureFacts ==
  ASSUME InstanceTypes, StopTypes, NEW a \in Actors, Capture(a)
  PROVE  /\ captured' \in [Actors -> Targets] /\ receipt' \in Targets /\ reapers' = reapers
         /\ captured'[a].handle = current
         /\ \A b \in Actors \ {a} : captured'[b] = captured[b]
<1>1. NoTarget \in Targets
  BY LifecycleAssumption DEF NoTarget, Targets
<1>2. TargetOf(current) \in Targets /\ TargetOf(current).handle = current
  <2>1. inst \in Instances /\ current \in 0..MaxHandles
    BY DEF InstanceTypes
  <2> QED BY <2>1 DEF TargetOf, Targets, Instances
<1> QED BY <1>1, <1>2 DEF Capture, StopTypes

\* A confirmed stop ends the worker it has captured.
LEMMA ConfirmedFacts ==
  ASSUME StopTypes, NEW a \in Actors, Confirmed(a)
  PROVE  /\ captured' \in [Actors -> Targets] /\ receipt' \in Targets
         /\ current' = current /\ reapers' = reapers
         /\ alive' = alive \ {captured[a].handle}
         /\ \A b \in Actors \ {a} : captured'[b] = captured[b]
<1>1. NoTarget \in Targets
  BY LifecycleAssumption DEF NoTarget, Targets
<1> QED BY <1>1 DEF Confirmed, StopTypes

\* An unconfirmed stop leaves the worker to a reaper, and the instance draining.
LEMMA UnconfirmedFacts ==
  ASSUME InstanceTypes, StopTypes, alive \subseteq Handles,
         NEW a \in Actors, NEW phase \in Phases, Unconfirmed(a, phase)
  PROVE  /\ captured' \in [Actors -> Targets] /\ receipt' = receipt
         /\ current' = current /\ alive' = alive
         /\ inst' \in Instances /\ inst'.generation = inst.generation
         /\ inst' = inst \/ inst'.state = "draining"
         /\ exists => inst'.state \in {"draining", "stopped"}
         /\ reapers' \subseteq Reapers
         /\ \A r \in reapers' :
              r \in reapers \/ (r.handle = current /\ r.generation = inst.generation /\ ~r.checked)
         /\ \A b \in Actors \ {a} : captured'[b] = captured[b]
<1>1. NoTarget \in Targets
  BY LifecycleAssumption DEF NoTarget, Targets
<1>2. captured' \in [Actors -> Targets] /\ \A b \in Actors \ {a} : captured'[b] = captured[b]
  BY <1>1 DEF Unconfirmed, StopTypes
<1>3. captured[a].handle = current /\ current \in Handles
  BY DEF Unconfirmed, InstanceTypes
<1>4. "draining" \in States
  BY DEF States
<1> DEFINE n == [handle |-> captured[a].handle, phase |-> phase,
                 generation |-> inst.generation, checked |-> FALSE]
<1>5. n \in Reapers /\ n.handle = current /\ n.generation = inst.generation /\ ~n.checked
  <2>1. inst \in Instances
    BY DEF InstanceTypes
  <2> QED BY <1>3, <2>1 DEF Reapers, Instances
<1>6. reapers' \subseteq reapers \cup {n}
  BY DEF Unconfirmed
<1> HIDE DEF n
<1>7. /\ inst' \in Instances /\ inst'.generation = inst.generation
      /\ inst' = inst \/ inst'.state = "draining"
      /\ exists => inst'.state \in {"draining", "stopped"}
  BY <1>4, ClearedFacts DEF Unconfirmed, InstanceTypes
<1>8. receipt' = receipt /\ current' = current /\ alive' = alive
  BY DEF Unconfirmed
<1> QED BY <1>2, <1>5, <1>6, <1>7, <1>8 DEF StopTypes

\* What Restore does to an instance whose start is undecided: a ready instance is
\* the one of the current worker.
LEMMA RestoreFacts ==
  ASSUME InstanceTypes, StopTypes, ReadyIsRouted, BackupIsCurrent, GenerationsCount,
         pc \in Undecided, Restore
  PROVE  /\ inst' \in Instances /\ inst'.generation <= current
         /\ exists /\ inst'.state = "ready" => inst'.secret = current /\ current # 0
         /\ backup.state = "ready" => inst'.state \notin {"queued", "starting"}
         /\ captured' \in [Actors -> Targets] /\ receipt' \in Targets
         /\ \A a \in Actors : captured'[a].handle = captured[a].handle
         /\ (reapers' = reapers /\ inst' = inst) \/ reapers' = {}
<1>1. CASE ~(exists /\ backup # NoBackup)
  BY <1>1 DEF Restore, stopVars, InstanceTypes, StopTypes, ReadyIsRouted,
     BackupIsCurrent, GenerationsCount
<1>2. CASE exists /\ backup # NoBackup
  <2>1. /\ inst' = Merge(inst, backup)
        /\ captured' = [a \in Actors |-> [NoTarget EXCEPT !.handle = captured[a].handle]]
        /\ receipt' = NoTarget /\ reapers' = {}
    BY <1>2 DEF Restore
  <2>2. /\ captured' \in [Actors -> Targets] /\ receipt' \in Targets
        /\ \A a \in Actors : captured'[a].handle = captured[a].handle
    <3>1. NoTarget \in Targets
      BY LifecycleAssumption DEF NoTarget, Targets
    <3>2. ASSUME NEW a \in Actors
          PROVE  /\ [NoTarget EXCEPT !.handle = captured[a].handle] \in Targets
                 /\ [NoTarget EXCEPT !.handle = captured[a].handle].handle = captured[a].handle
      <4>1. \A n \in Targets, k \in 0..MaxHandles :
              [n EXCEPT !.handle = k] \in Targets /\ [n EXCEPT !.handle = k].handle = k
        BY DEF Targets
      <4>2. captured[a].handle \in 0..MaxHandles
        BY DEF Targets, StopTypes
      <4> QED BY <3>1, <4>1, <4>2, Zenon
    <3> DEFINE t(a) == [NoTarget EXCEPT !.handle = captured[a].handle]
    <3>3. captured' = [a \in Actors |-> t(a)] /\ \A a \in Actors : t(a) \in Targets /\ t(a).handle = captured[a].handle
      BY <2>1, <3>2
    <3> HIDE DEF t
    <3> QED BY <2>1, <3>1, <3>3
  <2>3. CASE backup.state # "ready"
    <3>1. inst' = backup /\ backup \in Instances
      BY <1>2, <2>1, <2>3, BackupFacts DEF Merge, InstanceTypes
    <3> QED BY <2>1, <2>2, <2>3, <3>1 DEF GenerationsCount
  <2>4. CASE backup.state = "ready"
    <3>1. backup.secret = current /\ current # 0 /\ inst.state \notin {"queued", "starting"}
      BY <2>4 DEF BackupIsCurrent
    <3>2. CASE inst' = inst
      BY <1>2, <2>1, <2>2, <3>1, <3>2 DEF InstanceTypes, GenerationsCount, ReadyIsRouted
    <3>3. CASE inst' # inst
      <4>1. /\ inst' = [inst EXCEPT !.state = "ready", !.phase = "ready"]
            /\ inst.secret = backup.secret
        BY <2>1, <2>4, <3>3 DEF Merge
      <4>2. /\ inst' \in Instances /\ inst'.generation = inst.generation
            /\ inst'.secret = inst.secret /\ inst'.state = "ready"
        <5>1. inst \in Instances
          BY DEF InstanceTypes
        <5> QED BY <4>1, <5>1 DEF Instances, States, Phases
      <4> QED BY <2>1, <2>2, <3>1, <4>1, <4>2 DEF GenerationsCount
    <3> QED BY <3>2, <3>3
  <2> QED BY <2>3, <2>4
<1> QED BY <1>1, <1>2

\* A stop, confirmed or not, leaves an instance that is draining or what it was.
LEMMA StopFacts ==
  ASSUME InstanceTypes, StopTypes, alive \subseteq Handles,
         NEW a \in Actors, NEW phase \in Phases,
         (Confirmed(a) /\ inst' = inst) \/ Unconfirmed(a, phase)
  PROVE  /\ captured' \in [Actors -> Targets] /\ receipt' \in Targets /\ reapers' \subseteq Reapers
         /\ \A b \in Actors \ {a} : captured'[b] = captured[b]
         /\ current' = current /\ alive' \subseteq alive
         /\ inst' \in Instances /\ inst'.generation = inst.generation
         /\ inst' = inst \/ inst'.state = "draining"
         /\ \A r \in reapers' :
              r \in reapers \/ (r.handle = current /\ r.generation = inst.generation /\ ~r.checked)
<1>1. CASE Confirmed(a) /\ inst' = inst
  BY <1>1, ConfirmedFacts DEF InstanceTypes, StopTypes
<1>2. CASE Unconfirmed(a, phase)
  BY <1>2, UnconfirmedFacts DEF InstanceTypes, StopTypes
<1> QED BY <1>1, <1>2

\* A step that makes no instance ready and starts no worker.
LEMMA NoReadyStep ==
  ASSUME IInv, inst' \in Instances, inst' = inst \/ inst'.state # "ready",
         exists' = exists, current' = current, alive' \subseteq alive, backup' \in Backups
  PROVE  InstanceTypes' /\ ReadyIsRouted' /\ DeletedHasNoWorker'
BY DEF IInv, InstanceTypes, ReadyIsRouted, DeletedHasNoWorker

\* No step that keeps the workers and the generation makes a reaper young.
LEMMA ReapersStep ==
  ASSUME IInv, inst'.generation = inst.generation,
         current' = current, alive' \subseteq alive, monitors' \subseteq monitors,
         \A r \in reapers' :
           r \in reapers \/ (r.handle = current /\ r.generation = inst.generation /\ ~r.checked)
  PROVE  ReapersAreOld'
<1>1. current \in Nat /\ inst.generation \in Nat
  BY DEF IInv, InstanceTypes, Instances
<1> QED BY <1>1 DEF IInv, ReapersAreOld

\* A step of somebody else than a start: at most it closes the instance.
LEMMA ClosingStep ==
  ASSUME IInv, inst' \in Instances, inst'.generation = inst.generation,
         inst' = inst \/ inst'.state \notin {"ready", "queued", "starting"},
         UNCHANGED <<exists, current, pc, backup>>,
         alive' \subseteq alive, monitors' \subseteq monitors
  PROVE  /\ InstanceTypes' /\ ReadyIsRouted' /\ DeletedHasNoWorker' /\ TransientHasOwner'
         /\ BackupIsCurrent' /\ StarterNeedsInstance' /\ GenerationsCount'
<1>1. InstanceTypes' /\ ReadyIsRouted' /\ DeletedHasNoWorker'
  BY NoReadyStep DEF IInv, InstanceTypes
<1>2. TransientHasOwner'
  BY DEF IInv, TransientHasOwner
<1>3. BackupIsCurrent'
  BY DEF IInv, BackupIsCurrent
<1>4. StarterNeedsInstance' /\ GenerationsCount'
  BY DEF IInv, StarterNeedsInstance, GenerationsCount
<1> QED BY <1>1, <1>2, <1>3, <1>4

\* One lemma for each action: it preserves IInv, conjunct by conjunct.
LEMMA ScheduleStartIInv == ASSUME IInv, ScheduleStart PROVE IInv'
<1>1. /\ inst' \in Instances /\ inst'.generation = inst.generation /\ inst'.secret = inst.secret
      /\ IF inst.state = "ready" THEN inst' = inst ELSE inst'.state = "queued"
  <2>1. inst \in Instances
    BY DEF IInv, InstanceTypes
  <2> QED BY <2>1 DEF ScheduleStart, Instances, States, Phases
<1>2. UNCHANGED <<exists, current, alive, monitors, reapers>> /\ backup' = inst /\ exists
      /\ pc = "idle" /\ pc' = "queued" /\ backup' \in Backups
  BY BackupFacts DEF IInv, InstanceTypes, ScheduleStart, workerVars, watchVars,
     stopVars, Goto
<1>3. InstanceTypes' /\ ReadyIsRouted' /\ DeletedHasNoWorker'
  BY <1>1, <1>2, NoReadyStep
<1>4. ReapersAreOld'
  BY <1>1, <1>2, ReapersStep
<1>5. TransientHasOwner'
  BY <1>2 DEF TransientHasOwner
<1>6. BackupIsCurrent'
  BY <1>1, <1>2 DEF IInv, BackupIsCurrent, ReadyIsRouted
<1>7. GenerationsCount'
  BY <1>1, <1>2 DEF IInv, GenerationsCount
<1>8. StopHitsCurrent'
  BY DEF IInv, StopHitsCurrent, ScheduleStart, workerVars, stopVars, closeVars
<1>9. OperationTypes'
  BY DEF IInv, OperationTypes, ScheduleStart, watchVars, closeVars, Goto, Steps,
     StarterHolds
<1>10. StopTypes'
  BY DEF IInv, StopTypes, ScheduleStart, watchVars, stopVars
<1>11. StarterNeedsInstance'
  BY DEF IInv, StarterNeedsInstance, ScheduleStart
<1> QED BY <1>3, <1>4, <1>5, <1>6, <1>7, <1>8, <1>9, <1>10, <1>11 DEF IInv

LEMMA CancelStartIInv == ASSUME IInv, CancelStart PROVE IInv'
<1>1. InstanceTypes' /\ ReadyIsRouted' /\ TransientHasOwner' /\ DeletedHasNoWorker'
  BY DEF IInv, InstanceTypes, ReadyIsRouted, TransientHasOwner, DeletedHasNoWorker,
     CancelStart, workerVars, startVars, instVars
<1>2. BackupIsCurrent' /\ StarterNeedsInstance' /\ StopHitsCurrent' /\ GenerationsCount'
  BY DEF IInv, BackupIsCurrent, StarterNeedsInstance, StopHitsCurrent, GenerationsCount,
     CancelStart, workerVars, watchVars, stopVars, startVars, instVars, closeVars
<1>3. ReapersAreOld'
  BY DEF IInv, ReapersAreOld, CancelStart, workerVars, watchVars, stopVars, instVars
<1>4. OperationTypes'
  BY DEF IInv, OperationTypes, CancelStart, watchVars, startVars, closeVars
<1>5. StopTypes'
  BY DEF IInv, StopTypes, CancelStart, watchVars, stopVars
<1> QED BY <1>1, <1>2, <1>3, <1>4, <1>5 DEF IInv

LEMMA DequeueIInv == ASSUME IInv, Dequeue PROVE IInv'
<1>1. InstanceTypes' /\ ReadyIsRouted' /\ DeletedHasNoWorker' /\ StopHitsCurrent'
  BY DEF IInv, InstanceTypes, ReadyIsRouted, DeletedHasNoWorker, StopHitsCurrent,
     Dequeue, workerVars, stopVars, instVars, closeVars
<1>2. ReapersAreOld'
  BY DEF IInv, ReapersAreOld, Dequeue, workerVars, watchVars, stopVars, instVars
<1>3. OperationTypes'
  BY DEF IInv, OperationTypes, Dequeue, watchVars, closeVars, Goto, Steps, StarterHolds
<1>4. StopTypes'
  BY DEF IInv, StopTypes, Dequeue, watchVars, stopVars
<1>5. TransientHasOwner'
  BY DEF IInv, TransientHasOwner, Dequeue, Goto
<1>6. BackupIsCurrent'
  BY DEF IInv, BackupIsCurrent, Dequeue, workerVars, instVars, Goto, Undecided
<1>7. StarterNeedsInstance'
  BY DEF IInv, StarterNeedsInstance, Dequeue, Goto, StarterHolds
<1>8. GenerationsCount'
  BY DEF IInv, GenerationsCount, Dequeue, workerVars, watchVars, instVars, Goto
<1> QED BY <1>1, <1>2, <1>3, <1>4, <1>5, <1>6, <1>7, <1>8 DEF IInv

LEMMA LeaveQueueIInv == ASSUME IInv, LeaveQueue PROVE IInv'
<1>1. /\ inst' \in Instances /\ inst'.generation <= current
      /\ exists /\ inst'.state = "ready" => inst'.secret = current /\ current # 0
      /\ backup.state = "ready" => inst'.state \notin {"queued", "starting"}
      /\ captured' \in [Actors -> Targets] /\ receipt' \in Targets
      /\ \A a \in Actors : captured'[a].handle = captured[a].handle
      /\ (reapers' = reapers /\ inst' = inst) \/ reapers' = {}
  BY RestoreFacts DEF IInv, Undecided, LeaveQueue
<1>2. UNCHANGED <<exists, current, alive, backup, monitors, closer, guard, gate>>
  BY DEF LeaveQueue, workerVars, closeVars, watchVars
<1>3. InstanceTypes'
  BY <1>1, <1>2 DEF IInv, InstanceTypes
<1>4. StopTypes'
  BY <1>1, <1>2 DEF IInv, StopTypes
<1>5. ReadyIsRouted'
  BY <1>1, <1>2 DEF ReadyIsRouted
<1>6. DeletedHasNoWorker'
  BY <1>2 DEF IInv, DeletedHasNoWorker
<1>7. TransientHasOwner'
  BY <1>1, <1>2 DEF IInv, TransientHasOwner, LeaveQueue, Goto
<1>8. BackupIsCurrent'
  BY <1>1, <1>2 DEF IInv, BackupIsCurrent, LeaveQueue, Goto, Undecided
<1>9. GenerationsCount'
  BY <1>1, <1>2 DEF IInv, GenerationsCount, LeaveQueue, Goto
<1>10. StopHitsCurrent'
  BY <1>1, <1>2 DEF IInv, StopHitsCurrent, Actors
<1>11. ReapersAreOld'
  BY <1>1, <1>2 DEF IInv, ReapersAreOld
<1>12. OperationTypes'
  BY DEF IInv, OperationTypes, LeaveQueue, watchVars, closeVars, Goto, Steps,
     StarterHolds
<1>13. StarterNeedsInstance'
  BY DEF IInv, StarterNeedsInstance, LeaveQueue, Goto, StarterHolds
<1> QED BY <1>3, <1>4, <1>5, <1>6, <1>7, <1>8, <1>9, <1>10, <1>11, <1>12, <1>13 DEF IInv

LEMMA LeftQueueIInv == ASSUME IInv, LeftQueue PROVE IInv'
<1>1. /\ inst' \in Instances /\ inst'.generation = inst.generation
      /\ inst' = inst \/ inst'.state # "ready"
  BY SetStateFacts DEF IInv, InstanceTypes, LeftQueue, States, Phases
<1>2. UNCHANGED <<exists, current>> /\ alive' \subseteq alive /\ monitors' = monitors
      /\ backup' \in Backups /\ backup'.generation <= current
  BY DEF IInv, InstanceTypes, LeftQueue, workerVars, watchVars, GenerationsCount
<1>3. InstanceTypes' /\ ReadyIsRouted' /\ DeletedHasNoWorker'
  BY <1>1, <1>2, NoReadyStep
<1>4. ReapersAreOld'
  BY <1>1, <1>2, ReapersStep DEF IInv, LeftQueue, stopVars
<1>5. TransientHasOwner'
  BY <1>1, <1>2, SetStateFacts DEF IInv, TransientHasOwner, LeftQueue, BackupIsCurrent,
     States, Phases, Undecided
<1>6. BackupIsCurrent'
  BY <1>1, <1>2, SetStateFacts DEF IInv, BackupIsCurrent, LeftQueue, Goto, Undecided
<1>7. GenerationsCount'
  BY <1>1, <1>2 DEF IInv, GenerationsCount, LeftQueue, Goto
<1>8. StopHitsCurrent'
  BY DEF IInv, StopHitsCurrent, LeftQueue, workerVars, stopVars, closeVars
<1>9. OperationTypes'
  BY DEF IInv, OperationTypes, LeftQueue, watchVars, closeVars, Goto, Steps,
     StarterHolds
<1>10. StopTypes'
  BY DEF IInv, StopTypes, LeftQueue, watchVars, stopVars
<1>11. StarterNeedsInstance'
  BY DEF IInv, StarterNeedsInstance, LeftQueue, Goto, StarterHolds
<1> QED BY <1>3, <1>4, <1>5, <1>6, <1>7, <1>8, <1>9, <1>10, <1>11 DEF IInv

LEMMA TakeGateIInv == ASSUME IInv, TakeGate PROVE IInv'
<1>1. InstanceTypes'
  BY BackupFacts DEF IInv, InstanceTypes, TakeGate, workerVars, instVars
<1>2. BackupIsCurrent'
  BY BackupFacts DEF IInv, BackupIsCurrent, TakeGate, workerVars, instVars, Goto,
     Undecided, ReadyIsRouted
<1>3. GenerationsCount'
  BY BackupFacts DEF IInv, GenerationsCount, TakeGate, workerVars, watchVars, instVars,
     Goto
<1>4. OperationTypes'
  BY LifecycleAssumption DEF IInv, OperationTypes, TakeGate, watchVars, closeVars, Goto,
     Steps, StarterHolds
<1>5. ReadyIsRouted' /\ DeletedHasNoWorker' /\ StopHitsCurrent' /\ ReapersAreOld'
  BY DEF IInv, ReadyIsRouted, DeletedHasNoWorker, StopHitsCurrent, ReapersAreOld,
     TakeGate, workerVars, watchVars, stopVars, instVars, closeVars
<1>6. StopTypes'
  BY DEF IInv, StopTypes, TakeGate, watchVars, stopVars
<1>7. TransientHasOwner'
  BY DEF IInv, TransientHasOwner, TakeGate, Goto
<1>8. StarterNeedsInstance'
  BY DEF IInv, StarterNeedsInstance, TakeGate, instVars, Goto
<1> QED BY <1>1, <1>2, <1>3, <1>4, <1>5, <1>6, <1>7, <1>8 DEF IInv

LEMMA InstallIInv == ASSUME IInv, Install PROVE IInv'
<1>1. /\ inst' \in Instances /\ inst'.generation = inst.generation
      /\ inst' = inst \/ inst'.state # "ready"
  BY SetStateFacts DEF IInv, Install, States, Phases
<1>2. UNCHANGED <<exists, current>> /\ alive' \subseteq alive /\ monitors' = monitors
      /\ backup' \in Backups /\ backup'.generation <= current
  BY DEF IInv, InstanceTypes, Install, workerVars, watchVars, startVars,
     GenerationsCount
<1>3. InstanceTypes' /\ ReadyIsRouted' /\ DeletedHasNoWorker'
  BY <1>1, <1>2, NoReadyStep
<1>4. ReapersAreOld'
  BY <1>1, <1>2, ReapersStep DEF IInv, Install, stopVars
<1>5. TransientHasOwner'
  BY <1>1, <1>2 DEF IInv, TransientHasOwner, Install, startVars
<1>6. BackupIsCurrent'
  BY <1>1, <1>2, SetStateFacts DEF IInv, BackupIsCurrent, Install, startVars, States,
     Phases
<1>7. GenerationsCount'
  BY <1>1, <1>2 DEF IInv, GenerationsCount, Install, startVars
<1>8. OperationTypes' /\ StarterNeedsInstance' /\ StopHitsCurrent'
  BY DEF IInv, OperationTypes, StarterNeedsInstance, StopHitsCurrent, Install,
     workerVars, watchVars, stopVars, startVars, closeVars
<1>9. StopTypes'
  BY DEF IInv, StopTypes, Install, watchVars, stopVars
<1> QED BY <1>3, <1>4, <1>5, <1>6, <1>7, <1>8, <1>9 DEF IInv

LEMMA FailBeforeDrainIInv == ASSUME IInv, FailBeforeDrain PROVE IInv'
<1>1. /\ inst' \in Instances /\ inst'.generation <= current
      /\ exists /\ inst'.state = "ready" => inst'.secret = current /\ current # 0
      /\ backup.state = "ready" => inst'.state \notin {"queued", "starting"}
      /\ captured' \in [Actors -> Targets] /\ receipt' \in Targets
      /\ \A a \in Actors : captured'[a].handle = captured[a].handle
      /\ (reapers' = reapers /\ inst' = inst) \/ reapers' = {}
  <2>1. CASE Restore
    BY <2>1, RestoreFacts DEF IInv, Undecided, FailBeforeDrain
  <2>2. CASE UNCHANGED <<inst, stopVars>>
    BY <2>2 DEF stopVars, IInv, InstanceTypes, StopTypes, ReadyIsRouted,
       GenerationsCount, BackupIsCurrent, Undecided, FailBeforeDrain
  <2> QED BY <2>1, <2>2 DEF FailBeforeDrain
<1>2. UNCHANGED <<exists, current, alive, backup, monitors, closer, guard, gate>>
  BY DEF FailBeforeDrain, workerVars, closeVars, watchVars
<1>3. InstanceTypes'
  BY <1>1, <1>2 DEF IInv, InstanceTypes
<1>4. StopTypes'
  BY <1>1, <1>2 DEF IInv, StopTypes
<1>5. ReadyIsRouted'
  BY <1>1, <1>2 DEF ReadyIsRouted
<1>6. DeletedHasNoWorker'
  BY <1>2 DEF IInv, DeletedHasNoWorker
<1>7. TransientHasOwner'
  BY <1>1, <1>2 DEF IInv, TransientHasOwner, FailBeforeDrain, Goto
<1>8. BackupIsCurrent'
  BY <1>1, <1>2 DEF IInv, BackupIsCurrent, FailBeforeDrain, Goto, Undecided
<1>9. GenerationsCount'
  BY <1>1, <1>2 DEF IInv, GenerationsCount, FailBeforeDrain, Goto
<1>10. StopHitsCurrent'
  BY <1>1, <1>2 DEF IInv, StopHitsCurrent, Actors
<1>11. ReapersAreOld'
  BY <1>1, <1>2 DEF IInv, ReapersAreOld
<1>12. OperationTypes'
  BY DEF IInv, OperationTypes, FailBeforeDrain, watchVars, closeVars, Goto, Steps,
     StarterHolds
<1>13. StarterNeedsInstance'
  BY DEF IInv, StarterNeedsInstance, FailBeforeDrain, StarterHolds
<1> QED BY <1>3, <1>4, <1>5, <1>6, <1>7, <1>8, <1>9, <1>10, <1>11, <1>12, <1>13 DEF IInv

LEMMA CancelBeforeDrainIInv == ASSUME IInv, CancelBeforeDrain PROVE IInv'
<1>1. /\ inst' \in Instances /\ inst'.generation <= current
      /\ exists /\ inst'.state = "ready" => inst'.secret = current /\ current # 0
      /\ backup.state = "ready" => inst'.state \notin {"queued", "starting"}
      /\ captured' \in [Actors -> Targets] /\ receipt' \in Targets
      /\ \A a \in Actors : captured'[a].handle = captured[a].handle
      /\ (reapers' = reapers /\ inst' = inst) \/ reapers' = {}
  BY RestoreFacts DEF IInv, Undecided, CancelBeforeDrain
<1>2. UNCHANGED <<exists, current, alive, backup, monitors, closer, guard, gate>>
  BY DEF CancelBeforeDrain, workerVars, closeVars, watchVars
<1>3. InstanceTypes'
  BY <1>1, <1>2 DEF IInv, InstanceTypes
<1>4. StopTypes'
  BY <1>1, <1>2 DEF IInv, StopTypes
<1>5. ReadyIsRouted'
  BY <1>1, <1>2 DEF ReadyIsRouted
<1>6. DeletedHasNoWorker'
  BY <1>2 DEF IInv, DeletedHasNoWorker
<1>7. TransientHasOwner'
  BY <1>1, <1>2 DEF IInv, TransientHasOwner, CancelBeforeDrain, Goto
<1>8. BackupIsCurrent'
  BY <1>1, <1>2 DEF IInv, BackupIsCurrent, CancelBeforeDrain, Goto, Undecided
<1>9. GenerationsCount'
  BY <1>1, <1>2 DEF IInv, GenerationsCount, CancelBeforeDrain, Goto
<1>10. StopHitsCurrent'
  BY <1>1, <1>2 DEF IInv, StopHitsCurrent, Actors
<1>11. ReapersAreOld'
  BY <1>1, <1>2 DEF IInv, ReapersAreOld
<1>12. OperationTypes'
  BY DEF IInv, OperationTypes, CancelBeforeDrain, watchVars, closeVars, Goto, Steps,
     StarterHolds
<1>13. StarterNeedsInstance'
  BY DEF IInv, StarterNeedsInstance, CancelBeforeDrain, StarterHolds
<1> QED BY <1>3, <1>4, <1>5, <1>6, <1>7, <1>8, <1>9, <1>10, <1>11, <1>12, <1>13 DEF IInv

LEMMA BeginDrainIInv == ASSUME IInv, BeginDrain PROVE IInv'
<1>1. /\ inst' \in Instances /\ inst'.generation = inst.generation
      /\ inst' = inst \/ inst'.state # "ready"
  BY SetStateFacts DEF IInv, InstanceTypes, BeginDrain, States, Phases
<1>2. UNCHANGED <<exists, current>> /\ alive' \subseteq alive /\ monitors' = monitors
      /\ backup' \in Backups /\ backup'.generation <= current
  BY BackupFacts, LifecycleAssumption DEF IInv, InstanceTypes, BeginDrain, workerVars,
     watchVars, GenerationsCount
<1>3. InstanceTypes' /\ ReadyIsRouted' /\ DeletedHasNoWorker'
  BY <1>1, <1>2, NoReadyStep
<1>4. ReapersAreOld'
  BY <1>1, <1>2, ReapersStep DEF IInv, BeginDrain, stopVars
<1>5. TransientHasOwner'
  BY <1>1, <1>2 DEF IInv, TransientHasOwner, BeginDrain, Goto
<1>6. BackupIsCurrent'
  BY <1>1, <1>2, SetStateFacts DEF IInv, BackupIsCurrent, BeginDrain, Goto, Undecided,
     States, Phases
<1>7. GenerationsCount'
  BY <1>1, <1>2 DEF IInv, GenerationsCount, BeginDrain, Goto
<1>8. StopHitsCurrent'
  BY DEF IInv, StopHitsCurrent, BeginDrain, workerVars, stopVars, closeVars
<1>9. OperationTypes'
  BY DEF IInv, OperationTypes, BeginDrain, watchVars, closeVars, Goto, Steps,
     StarterHolds
<1>10. StopTypes'
  BY DEF IInv, StopTypes, BeginDrain, watchVars, stopVars
<1>11. StarterNeedsInstance'
  BY DEF IInv, StarterNeedsInstance, BeginDrain, StarterHolds
<1> QED BY <1>3, <1>4, <1>5, <1>6, <1>7, <1>8, <1>9, <1>10, <1>11 DEF IInv

LEMMA CancelDrainIInv == ASSUME IInv, CancelDrain PROVE IInv'
<1>1. /\ inst' \in Instances /\ inst'.generation <= current
      /\ exists /\ inst'.state = "ready" => inst'.secret = current /\ current # 0
      /\ backup.state = "ready" => inst'.state \notin {"queued", "starting"}
      /\ captured' \in [Actors -> Targets] /\ receipt' \in Targets
      /\ \A a \in Actors : captured'[a].handle = captured[a].handle
      /\ (reapers' = reapers /\ inst' = inst) \/ reapers' = {}
  <2>1. CASE Restore
    BY <2>1, RestoreFacts DEF IInv, Undecided, CancelDrain
  <2>2. CASE UNCHANGED <<inst, stopVars>>
    BY <2>2 DEF stopVars, IInv, InstanceTypes, StopTypes, ReadyIsRouted,
       GenerationsCount, BackupIsCurrent, Undecided, CancelDrain
  <2> QED BY <2>1, <2>2 DEF CancelDrain
<1>2. UNCHANGED <<exists, current, alive, backup, monitors, closer, guard, gate>>
  BY DEF CancelDrain, workerVars, closeVars, watchVars
<1>3. InstanceTypes'
  BY <1>1, <1>2 DEF IInv, InstanceTypes
<1>4. StopTypes'
  BY <1>1, <1>2 DEF IInv, StopTypes
<1>5. ReadyIsRouted'
  BY <1>1, <1>2 DEF ReadyIsRouted
<1>6. DeletedHasNoWorker'
  BY <1>2 DEF IInv, DeletedHasNoWorker
<1>7. TransientHasOwner'
  BY <1>1, <1>2 DEF IInv, TransientHasOwner, CancelDrain, Goto
<1>8. BackupIsCurrent'
  BY <1>1, <1>2 DEF IInv, BackupIsCurrent, CancelDrain, Goto, Undecided
<1>9. GenerationsCount'
  BY <1>1, <1>2 DEF IInv, GenerationsCount, CancelDrain, Goto
<1>10. StopHitsCurrent'
  BY <1>1, <1>2 DEF IInv, StopHitsCurrent, Actors
<1>11. ReapersAreOld'
  BY <1>1, <1>2 DEF IInv, ReapersAreOld
<1>12. OperationTypes'
  BY DEF IInv, OperationTypes, CancelDrain, watchVars, closeVars, Goto, Steps,
     StarterHolds
<1>13. StarterNeedsInstance'
  BY DEF IInv, StarterNeedsInstance, CancelDrain, StarterHolds
<1> QED BY <1>3, <1>4, <1>5, <1>6, <1>7, <1>8, <1>9, <1>10, <1>11, <1>12, <1>13 DEF IInv

LEMMA CaptureOldIInv == ASSUME IInv, CaptureOld PROVE IInv'
<1>1. "starter" \in Actors
  BY DEF IInv, StopHitsCurrent, Actors
<1>2. /\ captured' \in [Actors -> Targets] /\ receipt' \in Targets /\ reapers' = reapers
      /\ \A b \in Actors \ {"starter"} : captured'[b] = captured[b]
  BY <1>1, CaptureFacts DEF IInv, CaptureOld
<1>3. StopTypes'
  BY <1>2 DEF IInv, StopTypes, CaptureOld, watchVars
<1>4. ReapersAreOld'
  BY <1>2 DEF IInv, ReapersAreOld, CaptureOld, workerVars, watchVars, instVars
<1>5. StopHitsCurrent'
  BY <1>2, LifecycleAssumption DEF IInv, StopHitsCurrent, CaptureOld, workerVars,
     closeVars, Actors
<1>6. InstanceTypes' /\ ReadyIsRouted' /\ DeletedHasNoWorker'
  BY DEF IInv, InstanceTypes, ReadyIsRouted, DeletedHasNoWorker, CaptureOld, workerVars,
     instVars
<1>7. OperationTypes'
  BY DEF IInv, OperationTypes, CaptureOld, watchVars, closeVars, Goto, Steps,
     StarterHolds
<1>8. TransientHasOwner'
  BY DEF IInv, TransientHasOwner, CaptureOld, Goto
<1>9. BackupIsCurrent'
  BY DEF IInv, BackupIsCurrent, CaptureOld, Goto, Undecided
<1>10. StarterNeedsInstance'
  BY DEF IInv, StarterNeedsInstance, CaptureOld, instVars, StarterHolds
<1>11. GenerationsCount'
  BY DEF IInv, GenerationsCount, CaptureOld, workerVars, watchVars, instVars, Goto
<1> QED BY <1>3, <1>4, <1>5, <1>6, <1>7, <1>8, <1>9, <1>10, <1>11 DEF IInv

LEMMA StopOldIInv == ASSUME IInv, StopOld PROVE IInv'
<1>1. InstanceTypes /\ StopTypes /\ alive \subseteq Handles
  BY DEF IInv, StopHitsCurrent
<1>2. "starter" \in Actors /\ "restart_stop_unconfirmed" \in Phases
  BY DEF IInv, Actors, Phases
<1>3. /\ \A b \in Actors \ {"starter"} : captured'[b] = captured[b]
      /\ captured' \in [Actors -> Targets] /\ receipt' \in Targets /\ reapers' \subseteq Reapers
      /\ current' = current /\ alive' \subseteq alive
      /\ inst' \in Instances /\ inst'.generation = inst.generation
      /\ inst' = inst \/ inst'.state = "draining"
      /\ \A r \in reapers' :
           r \in reapers \/ (r.handle = current /\ r.generation = inst.generation /\ ~r.checked)
  BY <1>1, <1>2, StopFacts DEF StopOld
<1>4. /\ exists' = exists
      /\ monitors' = monitors
      /\ backup' \in Backups
      /\ backup'.generation <= current
  BY BackupFacts, LifecycleAssumption DEF IInv, InstanceTypes, StopOld, watchVars
<1>5. InstanceTypes' /\ ReadyIsRouted' /\ DeletedHasNoWorker'
  BY <1>1, <1>3, <1>4, NoReadyStep
<1>6. ReapersAreOld'
  BY <1>3, <1>4, ReapersStep
<1>7. StopTypes'
  BY <1>1, <1>3, <1>4 DEF StopTypes
<1>8. StopHitsCurrent'
  BY <1>1, <1>3, LifecycleAssumption DEF IInv, StopHitsCurrent, StopOld, closeVars,
     Actors
<1>9. TransientHasOwner'
  BY <1>3, <1>4 DEF IInv, TransientHasOwner, StopOld, Goto
<1>10. BackupIsCurrent'
  BY <1>1, <1>2, <1>3, <1>4, UnconfirmedFacts DEF IInv, BackupIsCurrent, StopOld, Goto,
     Undecided
<1>11. GenerationsCount'
  BY <1>3, <1>4 DEF IInv, GenerationsCount, StopOld, Goto
<1>12. OperationTypes'
  BY DEF IInv, OperationTypes, StopOld, watchVars, closeVars, Goto, Steps, StarterHolds
<1>13. StarterNeedsInstance'
  BY DEF IInv, StarterNeedsInstance, StopOld, StarterHolds
<1> QED BY <1>5, <1>6, <1>7, <1>8, <1>9, <1>10, <1>11, <1>12, <1>13 DEF IInv

LEMMA LaunchIInv == ASSUME IInv, Launch PROVE IInv'
<1>1. /\ inst' \in Instances /\ inst'.generation = inst.generation
      /\ inst' = inst \/ inst'.state # "ready"
  BY SetStateFacts DEF IInv, Launch, States, Phases
<1>2. UNCHANGED <<exists, current>> /\ alive' \subseteq alive /\ monitors' = monitors
      /\ backup' \in Backups /\ backup'.generation <= current
  BY DEF IInv, InstanceTypes, Launch, workerVars, watchVars, GenerationsCount
<1>3. InstanceTypes' /\ ReadyIsRouted' /\ DeletedHasNoWorker'
  BY <1>1, <1>2, NoReadyStep
<1>4. ReapersAreOld'
  BY <1>1, <1>2, ReapersStep DEF IInv, Launch, stopVars
<1>5. TransientHasOwner'
  BY <1>1, <1>2 DEF IInv, TransientHasOwner, Launch, Goto
<1>6. BackupIsCurrent'
  BY <1>1, <1>2, SetStateFacts DEF IInv, BackupIsCurrent, Launch, Goto, Undecided,
     States, Phases, StarterNeedsInstance, StarterHolds
<1>7. GenerationsCount'
  BY <1>1, <1>2 DEF IInv, GenerationsCount, Launch, Goto
<1>8. StopHitsCurrent'
  BY DEF IInv, StopHitsCurrent, Launch, workerVars, stopVars, closeVars
<1>9. OperationTypes'
  BY DEF IInv, OperationTypes, Launch, watchVars, closeVars, Goto, Steps, StarterHolds
<1>10. StopTypes'
  BY DEF IInv, StopTypes, Launch, watchVars, stopVars
<1>11. StarterNeedsInstance'
  BY DEF IInv, StarterNeedsInstance, Launch, StarterHolds
<1> QED BY <1>3, <1>4, <1>5, <1>6, <1>7, <1>8, <1>9, <1>10, <1>11 DEF IInv

LEMMA LaunchFailsIInv == ASSUME IInv, LaunchFails PROVE IInv'
<1>1. InstanceTypes' /\ ReadyIsRouted' /\ DeletedHasNoWorker' /\ StopHitsCurrent'
  BY DEF IInv, InstanceTypes, ReadyIsRouted, DeletedHasNoWorker, StopHitsCurrent,
     LaunchFails, workerVars, stopVars, instVars, closeVars
<1>2. ReapersAreOld'
  BY DEF IInv, ReapersAreOld, LaunchFails, workerVars, watchVars, stopVars, instVars
<1>3. OperationTypes'
  BY DEF IInv, OperationTypes, LaunchFails, watchVars, closeVars, Goto, Steps,
     StarterHolds
<1>4. StopTypes'
  BY DEF IInv, StopTypes, LaunchFails, watchVars, stopVars
<1>5. TransientHasOwner'
  BY DEF IInv, TransientHasOwner, LaunchFails, Goto
<1>6. BackupIsCurrent'
  BY DEF IInv, BackupIsCurrent, LaunchFails, Goto, Undecided
<1>7. StarterNeedsInstance'
  BY DEF IInv, StarterNeedsInstance, LaunchFails, instVars, StarterHolds
<1>8. GenerationsCount'
  BY DEF IInv, GenerationsCount, LaunchFails, workerVars, watchVars, instVars, Goto
<1> QED BY <1>1, <1>2, <1>3, <1>4, <1>5, <1>6, <1>7, <1>8 DEF IInv

LEMMA StartWorkerIInv == ASSUME IInv, StartWorker PROVE IInv'
<1>1. current \in Nat /\ current' = current + 1 /\ current' \in Handles /\ alive = {}
  BY DEF IInv, InstanceTypes, StartWorker
<1>2. UNCHANGED <<exists, inst, backup, monitors>> /\ alive' = {current'}
      /\ pc = "starting" /\ pc' = "loading" /\ exists
  BY <1>1 DEF StartWorker, instVars, watchVars, Goto, IInv, StarterNeedsInstance,
     StarterHolds
<1>3. inst.generation \in Nat /\ backup.generation \in Nat /\ monitors \subseteq Nat
  BY BackupFacts DEF IInv, InstanceTypes, StopTypes, Instances, Handles, Backups,
     NoBackup, ReadyBackup
<1>4. InstanceTypes'
  BY <1>1, <1>2 DEF IInv, InstanceTypes, Handles
<1>5. ReadyIsRouted'
  BY <1>2 DEF IInv, ReadyIsRouted, BackupIsCurrent
<1>6. DeletedHasNoWorker'
  BY <1>2 DEF DeletedHasNoWorker
<1>7. StopHitsCurrent'
  BY <1>1, <1>2, LifecycleAssumption DEF IInv, StopHitsCurrent, StartWorker, closeVars,
     OperationTypes, StarterHolds, CloserHolds
<1>8. GenerationsCount'
  BY <1>1, <1>2, <1>3 DEF IInv, GenerationsCount
<1>9. ReapersAreOld'
  <2>1. \A r \in reapers' : r \in reapers /\ r.handle \in Nat
    BY DEF IInv, StopTypes, Reapers, Handles, StartWorker
  <2>2. current' \notin monitors
    BY <1>1, <1>3 DEF IInv, GenerationsCount
  <2> QED BY <1>1, <1>2, <2>1, <2>2 DEF IInv, ReapersAreOld
<1>10. OperationTypes'
  BY DEF IInv, OperationTypes, StartWorker, watchVars, closeVars, Goto, Steps,
     StarterHolds
<1>11. StopTypes'
  BY DEF IInv, StopTypes, StartWorker, watchVars
<1>12. TransientHasOwner'
  BY DEF IInv, TransientHasOwner, StartWorker, Goto
<1>13. BackupIsCurrent'
  BY DEF IInv, BackupIsCurrent, StartWorker, Goto, Undecided
<1>14. StarterNeedsInstance'
  BY DEF IInv, StarterNeedsInstance, StartWorker, instVars, StarterHolds
<1> QED BY <1>4, <1>5, <1>6, <1>7, <1>8, <1>9, <1>10, <1>11, <1>12, <1>13, <1>14 DEF
           IInv

LEMMA ProgressIInv == ASSUME IInv, Progress PROVE IInv'
<1>1. /\ inst' \in Instances /\ inst'.generation = inst.generation
      /\ inst' = inst \/ inst'.state # "ready"
  BY SetStateFacts DEF IInv, Progress, States, Phases
<1>2. UNCHANGED <<exists, current>> /\ alive' \subseteq alive /\ monitors' = monitors
      /\ backup' \in Backups /\ backup'.generation <= current
  BY DEF IInv, InstanceTypes, Progress, workerVars, watchVars, startVars,
     GenerationsCount
<1>3. InstanceTypes' /\ ReadyIsRouted' /\ DeletedHasNoWorker'
  BY <1>1, <1>2, NoReadyStep
<1>4. ReapersAreOld'
  BY <1>1, <1>2, ReapersStep DEF IInv, Progress, stopVars
<1>5. TransientHasOwner'
  BY <1>1, <1>2 DEF IInv, TransientHasOwner, Progress, startVars
<1>6. BackupIsCurrent'
  BY <1>1, <1>2, SetStateFacts DEF IInv, BackupIsCurrent, Progress, startVars, Undecided
<1>7. GenerationsCount'
  BY <1>1, <1>2 DEF IInv, GenerationsCount, Progress
<1>8. OperationTypes' /\ StarterNeedsInstance' /\ StopHitsCurrent'
  BY DEF IInv, OperationTypes, StarterNeedsInstance, StopHitsCurrent, Progress,
     workerVars, watchVars, stopVars, startVars, closeVars
<1>9. StopTypes'
  BY DEF IInv, StopTypes, Progress, watchVars, stopVars
<1> QED BY <1>3, <1>4, <1>5, <1>6, <1>7, <1>8, <1>9 DEF IInv

LEMMA StartReturnsIInv == ASSUME IInv, StartReturns PROVE IInv'
<1>1. /\ inst' \in Instances /\ inst'.generation = inst.generation
      /\ inst' = inst \/ inst'.state # "ready"
  BY SetStateFacts DEF IInv, InstanceTypes, StartReturns, States, Phases
<1>2. UNCHANGED <<exists, current>> /\ alive' \subseteq alive /\ monitors' = monitors
      /\ backup' \in Backups /\ backup'.generation <= current
  BY DEF IInv, InstanceTypes, StartReturns, watchVars, GenerationsCount
<1>3. InstanceTypes' /\ ReadyIsRouted' /\ DeletedHasNoWorker'
  BY <1>1, <1>2, NoReadyStep
<1>4. ReapersAreOld'
  BY <1>1, <1>2, ReapersStep DEF IInv, StartReturns, stopVars
<1>5. TransientHasOwner'
  BY <1>1, <1>2 DEF IInv, TransientHasOwner, StartReturns, Goto
<1>6. BackupIsCurrent'
  BY <1>1, <1>2, SetStateFacts DEF IInv, BackupIsCurrent, StartReturns, Goto, Undecided
<1>7. GenerationsCount'
  BY <1>1, <1>2 DEF IInv, GenerationsCount, StartReturns
<1>8. OperationTypes'
  BY DEF IInv, OperationTypes, StartReturns, watchVars, closeVars, Goto, Steps,
     StarterHolds
<1>9. StopTypes'
  BY DEF IInv, StopTypes, StartReturns, watchVars, stopVars
<1>10. StarterNeedsInstance'
  BY DEF IInv, StarterNeedsInstance, StartReturns, StarterHolds
<1>11. StopHitsCurrent'
  BY DEF IInv, StopHitsCurrent, StartReturns, stopVars, closeVars
<1> QED BY <1>3, <1>4, <1>5, <1>6, <1>7, <1>8, <1>9, <1>10, <1>11 DEF IInv

LEMMA VerifyIInv == ASSUME IInv, Verify PROVE IInv'
<1>1. "starter" \in Actors
  BY DEF IInv, StopHitsCurrent, Actors
<1>2. /\ captured' \in [Actors -> Targets] /\ receipt' \in Targets /\ reapers' = reapers
      /\ \A b \in Actors \ {"starter"} : captured'[b] = captured[b]
  BY <1>1, CaptureFacts DEF IInv, Verify, stopVars, StopTypes
<1>3. StopTypes'
  BY <1>2 DEF IInv, StopTypes, Verify, watchVars
<1>4. ReapersAreOld'
  BY <1>2 DEF IInv, ReapersAreOld, Verify, workerVars, watchVars, instVars
<1>5. StopHitsCurrent'
  BY <1>2, LifecycleAssumption DEF IInv, StopHitsCurrent, Verify, workerVars, closeVars,
     Actors
<1>6. InstanceTypes' /\ ReadyIsRouted' /\ DeletedHasNoWorker'
  BY DEF IInv, InstanceTypes, ReadyIsRouted, DeletedHasNoWorker, Verify, workerVars,
     instVars
<1>7. OperationTypes'
  BY DEF IInv, OperationTypes, Verify, watchVars, closeVars, Goto, Steps, StarterHolds
<1>8. TransientHasOwner'
  BY DEF IInv, TransientHasOwner, Verify, Goto
<1>9. BackupIsCurrent'
  BY DEF IInv, BackupIsCurrent, Verify, Goto, Undecided
<1>10. StarterNeedsInstance'
  BY DEF IInv, StarterNeedsInstance, Verify, instVars, StarterHolds
<1>11. GenerationsCount'
  BY DEF IInv, GenerationsCount, Verify, workerVars, watchVars, instVars
<1> QED BY <1>3, <1>4, <1>5, <1>6, <1>7, <1>8, <1>9, <1>10, <1>11 DEF IInv

LEMMA CleanUpIInv == ASSUME IInv, CleanUp PROVE IInv'
<1>1. InstanceTypes /\ StopTypes /\ alive \subseteq Handles
  BY DEF IInv, StopHitsCurrent
<1>2. "starter" \in Actors /\ "verify_stop_unconfirmed" \in Phases
  BY DEF IInv, Actors, Phases
<1>3. /\ \A b \in Actors \ {"starter"} : captured'[b] = captured[b]
      /\ captured' \in [Actors -> Targets] /\ receipt' \in Targets /\ reapers' \subseteq Reapers
      /\ current' = current /\ alive' \subseteq alive
      /\ inst' \in Instances /\ inst'.generation = inst.generation
      /\ inst' = inst \/ inst'.state = "draining"
      /\ \A r \in reapers' :
           r \in reapers \/ (r.handle = current /\ r.generation = inst.generation /\ ~r.checked)
  BY <1>1, <1>2, StopFacts DEF CleanUp
<1>4. /\ exists' = exists
      /\ monitors' = monitors
      /\ backup' \in Backups
      /\ backup'.generation <= current
  BY BackupFacts, LifecycleAssumption DEF IInv, InstanceTypes, CleanUp, watchVars,
     GenerationsCount
<1>5. InstanceTypes' /\ ReadyIsRouted' /\ DeletedHasNoWorker'
  BY <1>1, <1>3, <1>4, NoReadyStep
<1>6. ReapersAreOld'
  BY <1>3, <1>4, ReapersStep
<1>7. StopTypes'
  BY <1>1, <1>3, <1>4 DEF StopTypes
<1>8. StopHitsCurrent'
  BY <1>1, <1>3, LifecycleAssumption DEF IInv, StopHitsCurrent, CleanUp, closeVars,
     Actors
<1>9. TransientHasOwner'
  BY <1>3, <1>4 DEF IInv, TransientHasOwner, CleanUp, Goto
<1>10. BackupIsCurrent'
  BY <1>1, <1>2, <1>3, <1>4, UnconfirmedFacts DEF IInv, BackupIsCurrent, CleanUp, Goto,
     Undecided
<1>11. GenerationsCount'
  BY <1>3, <1>4 DEF IInv, GenerationsCount, CleanUp, Goto
<1>12. OperationTypes'
  BY DEF IInv, OperationTypes, CleanUp, watchVars, closeVars, Goto, Steps, StarterHolds
<1>13. StarterNeedsInstance'
  BY DEF IInv, StarterNeedsInstance, CleanUp, StarterHolds
<1> QED BY <1>5, <1>6, <1>7, <1>8, <1>9, <1>10, <1>11, <1>12, <1>13 DEF IInv

LEMMA CommitIInv == ASSUME IInv, Commit PROVE IInv'
<1>1. current \in 1..MaxHandles /\ inst.generation + 1 <= current
  BY LifecycleAssumption DEF IInv, InstanceTypes, GenerationsCount, Instances, Commit
<1>2. inst' \in Instances /\ inst'.state = "ready" /\ inst'.secret = current
      /\ inst'.generation = inst.generation + 1
  BY <1>1, LifecycleAssumption DEF IInv, InstanceTypes, Instances, Commit, States,
     Phases
<1>3. /\ UNCHANGED <<exists, current, alive, backup, reapers>>
      /\ monitors' = monitors \cup {current}
      /\ pc = "verified" /\ pc' = "releasing"
  BY DEF Commit, Goto, workerVars, stopVars
<1>4. InstanceTypes'
  BY <1>2, <1>3 DEF IInv, InstanceTypes
<1>5. ReadyIsRouted'
  BY <1>1, <1>2, <1>3 DEF ReadyIsRouted
<1>6. StopTypes'
  BY <1>1, <1>3 DEF IInv, StopTypes, Commit, stopVars, Handles
<1>7. TransientHasOwner'
  BY <1>2 DEF TransientHasOwner
<1>8. BackupIsCurrent'
  BY <1>2, <1>3 DEF BackupIsCurrent, Undecided
<1>9. GenerationsCount'
  BY <1>1, <1>2, <1>3 DEF IInv, GenerationsCount
<1>10. ReapersAreOld'
  <2>1. \A r \in reapers : r.generation \in Nat
    BY DEF IInv, StopTypes, Reapers
  <2>2. inst.generation \in Nat
    BY DEF IInv, InstanceTypes, Instances
  <2> QED BY <1>2, <1>3, <2>1, <2>2 DEF IInv, ReapersAreOld
<1>11. DeletedHasNoWorker' /\ StopHitsCurrent'
  BY DEF IInv, DeletedHasNoWorker, StopHitsCurrent, Commit, workerVars, stopVars,
     closeVars
<1>12. OperationTypes'
  BY DEF IInv, OperationTypes, Commit, closeVars, Goto, Steps, StarterHolds
<1>13. StarterNeedsInstance'
  BY DEF IInv, StarterNeedsInstance, Commit, Goto
<1> QED BY <1>4, <1>5, <1>6, <1>7, <1>8, <1>9, <1>10, <1>11, <1>12, <1>13 DEF IInv

LEMMA FailIInv == ASSUME IInv, Fail PROVE IInv'
<1>1. InstanceTypes' /\ ReadyIsRouted' /\ DeletedHasNoWorker' /\ StopHitsCurrent'
  BY DEF IInv, InstanceTypes, ReadyIsRouted, DeletedHasNoWorker, StopHitsCurrent, Fail,
     workerVars, stopVars, instVars, closeVars
<1>2. ReapersAreOld'
  BY DEF IInv, ReapersAreOld, Fail, workerVars, watchVars, stopVars, instVars
<1>3. OperationTypes'
  BY DEF IInv, OperationTypes, Fail, watchVars, closeVars, Goto, Steps, StarterHolds
<1>4. StopTypes'
  BY DEF IInv, StopTypes, Fail, watchVars, stopVars
<1>5. TransientHasOwner'
  BY DEF IInv, TransientHasOwner, Fail, Goto
<1>6. BackupIsCurrent'
  BY DEF IInv, BackupIsCurrent, Fail, Goto, Undecided
<1>7. StarterNeedsInstance'
  BY DEF IInv, StarterNeedsInstance, Fail, instVars, StarterHolds
<1>8. GenerationsCount'
  BY DEF IInv, GenerationsCount, Fail, workerVars, watchVars, instVars, Goto
<1> QED BY <1>1, <1>2, <1>3, <1>4, <1>5, <1>6, <1>7, <1>8 DEF IInv

LEMMA SetOutcomeIInv == ASSUME IInv, SetOutcome PROVE IInv'
<1>1. /\ inst' \in Instances /\ inst'.generation = inst.generation
      /\ inst' = inst \/ inst'.state # "ready"
  BY SetStateFacts DEF IInv, SetOutcome, States, Phases
<1>2. UNCHANGED <<exists, current>> /\ alive' \subseteq alive /\ monitors' = monitors
      /\ backup' \in Backups /\ backup'.generation <= current
  BY DEF IInv, InstanceTypes, SetOutcome, workerVars, watchVars, GenerationsCount
<1>3. InstanceTypes' /\ ReadyIsRouted' /\ DeletedHasNoWorker'
  BY <1>1, <1>2, NoReadyStep
<1>4. ReapersAreOld'
  BY <1>1, <1>2, ReapersStep DEF IInv, SetOutcome, stopVars
<1>5. TransientHasOwner'
  BY <1>1, <1>2 DEF IInv, TransientHasOwner, SetOutcome, Goto
<1>6. BackupIsCurrent'
  BY <1>1, <1>2, SetStateFacts DEF IInv, BackupIsCurrent, SetOutcome, Goto, Undecided,
     States, Phases
<1>7. GenerationsCount'
  BY <1>1, <1>2 DEF IInv, GenerationsCount, SetOutcome, Goto
<1>8. StopHitsCurrent'
  BY DEF IInv, StopHitsCurrent, SetOutcome, workerVars, stopVars, closeVars
<1>9. OperationTypes'
  BY DEF IInv, OperationTypes, SetOutcome, watchVars, closeVars, Goto, Steps,
     StarterHolds
<1>10. StopTypes'
  BY DEF IInv, StopTypes, SetOutcome, watchVars, stopVars
<1>11. StarterNeedsInstance'
  BY DEF IInv, StarterNeedsInstance, SetOutcome, Goto
<1> QED BY <1>3, <1>4, <1>5, <1>6, <1>7, <1>8, <1>9, <1>10, <1>11 DEF IInv

LEMMA FinishIInv == ASSUME IInv, Finish PROVE IInv'
<1>1. InstanceTypes'
  BY BackupFacts DEF IInv, InstanceTypes, Finish, workerVars, instVars
<1>2. GenerationsCount'
  BY BackupFacts, LifecycleAssumption DEF IInv, GenerationsCount, Finish, workerVars,
     watchVars, instVars, Goto, InstanceTypes
<1>3. TransientHasOwner'
  BY DEF IInv, TransientHasOwner, Finish, instVars, BackupIsCurrent
<1>4. OperationTypes'
  BY LifecycleAssumption DEF IInv, OperationTypes, Finish, watchVars, Goto, Steps,
     CloserSteps, StarterHolds, CloserHolds
<1>5. ReadyIsRouted' /\ DeletedHasNoWorker' /\ ReapersAreOld'
  BY DEF IInv, ReadyIsRouted, DeletedHasNoWorker, ReapersAreOld, Finish, workerVars,
     watchVars, stopVars, instVars
<1>6. StopTypes'
  BY DEF IInv, StopTypes, Finish, watchVars, stopVars
<1>7. BackupIsCurrent'
  BY DEF IInv, BackupIsCurrent, Finish, Goto, Undecided
<1>8. StarterNeedsInstance'
  BY DEF IInv, StarterNeedsInstance, Finish, Goto, StarterHolds
<1>9. StopHitsCurrent'
  BY DEF IInv, StopHitsCurrent, Finish, workerVars, stopVars
<1> QED BY <1>1, <1>2, <1>3, <1>4, <1>5, <1>6, <1>7, <1>8, <1>9 DEF IInv

LEMMA ClaimIInv == ASSUME IInv, Claim PROVE IInv'
<1>1. /\ inst' \in Instances /\ inst'.generation = inst.generation
      /\ inst' = inst \/ inst'.state \notin {"ready", "queued", "starting"}
  BY ClearedFacts DEF IInv, Claim, States, Phases
<1>2. /\ UNCHANGED <<exists, current, pc, backup>>
      /\ alive' \subseteq alive
      /\ monitors' \subseteq monitors
  BY DEF IInv, Claim, workerVars, watchVars, startVars
<1>3. InstanceTypes' /\ ReadyIsRouted' /\ DeletedHasNoWorker' /\ TransientHasOwner' /\
   BackupIsCurrent' /\ StarterNeedsInstance' /\ GenerationsCount'
  BY <1>1, <1>2, ClosingStep
<1>4. ReapersAreOld'
  BY <1>1, <1>2, ReapersStep DEF IInv, Claim, stopVars
<1>5. OperationTypes'
  BY DEF IInv, OperationTypes, Claim, watchVars, startVars, GotoClose, CloserSteps,
     CloserHolds
<1>6. StopTypes'
  BY DEF IInv, StopTypes, Claim, watchVars, stopVars
<1>7. StopHitsCurrent'
  BY DEF IInv, StopHitsCurrent, Claim, workerVars, stopVars, GotoClose
<1> QED BY <1>3, <1>4, <1>5, <1>6, <1>7 DEF IInv

LEMMA ScheduleCloseIInv == ASSUME IInv, NEW c \in Closers, ScheduleClose(c) PROVE IInv'
<1>1. StopHitsCurrent'
  BY DEF IInv, StopHitsCurrent, ScheduleClose, workerVars, stopVars, GotoClose,
     OperationTypes
<1>2. OperationTypes'
  <2>1. PICK s \in {"idle", "cancelling", "waiting"} : closer' = [closer EXCEPT ![c] = s]
    BY DEF ScheduleClose, GotoClose
  <2>2. closer[c] \notin CloserHolds /\ s \in CloserSteps /\ s \notin CloserHolds
    BY DEF ScheduleClose, CloserHolds, CloserSteps
  <2>3. /\ closer' \in [Closers -> CloserSteps]
        /\ \A b \in Closers : closer'[b] \in CloserHolds <=> gate = b
    BY <2>1, <2>2 DEF IInv, OperationTypes
  <2>4. UNCHANGED <<gate, cancelled, pc, rolling, guard, snapped>>
    BY DEF ScheduleClose, startVars, watchVars
  <2>5. already' \in BOOLEAN
    <3>1. CASE c = "stop"
      BY <3>1 DEF ScheduleClose
    <3>2. CASE c # "stop"
      BY <3>2 DEF ScheduleClose, IInv, OperationTypes
    <3> QED BY <3>1, <3>2
  <2> QED BY <2>3, <2>4, <2>5 DEF IInv, OperationTypes
<1>3. InstanceTypes' /\ ReadyIsRouted' /\ TransientHasOwner' /\ DeletedHasNoWorker'
  BY DEF IInv, InstanceTypes, ReadyIsRouted, TransientHasOwner, DeletedHasNoWorker,
     ScheduleClose, workerVars, startVars, instVars
<1>4. BackupIsCurrent' /\ StarterNeedsInstance' /\ GenerationsCount' /\ ReapersAreOld'
  BY DEF IInv, BackupIsCurrent, StarterNeedsInstance, GenerationsCount, ReapersAreOld,
     ScheduleClose, workerVars, watchVars, stopVars, startVars, instVars
<1>5. StopTypes'
  BY DEF IInv, StopTypes, ScheduleClose, watchVars, stopVars
<1> QED BY <1>1, <1>2, <1>3, <1>4, <1>5 DEF IInv

LEMMA CancelActiveIInv == ASSUME IInv, NEW c \in Closers, CancelActive(c) PROVE IInv'
<1>1. InstanceTypes' /\ ReadyIsRouted' /\ TransientHasOwner' /\ DeletedHasNoWorker'
  BY DEF IInv, InstanceTypes, ReadyIsRouted, TransientHasOwner, DeletedHasNoWorker,
     CancelActive, workerVars, startVars, instVars
<1>2. BackupIsCurrent' /\ StarterNeedsInstance' /\ GenerationsCount' /\ ReapersAreOld'
  BY DEF IInv, BackupIsCurrent, StarterNeedsInstance, GenerationsCount, ReapersAreOld,
     CancelActive, workerVars, watchVars, stopVars, startVars, instVars
<1>3. OperationTypes'
  BY DEF IInv, OperationTypes, CancelActive, watchVars, startVars, GotoClose,
     CloserSteps, CloserHolds
<1>4. StopTypes'
  BY DEF IInv, StopTypes, CancelActive, watchVars, stopVars
<1>5. StopHitsCurrent'
  BY DEF IInv, StopHitsCurrent, CancelActive, workerVars, stopVars, GotoClose
<1> QED BY <1>1, <1>2, <1>3, <1>4, <1>5 DEF IInv

LEMMA CancelCloseIInv == ASSUME IInv, NEW c \in Closers, CancelClose(c) PROVE IInv'
<1>1. InstanceTypes' /\ ReadyIsRouted' /\ TransientHasOwner' /\ DeletedHasNoWorker'
  BY DEF IInv, InstanceTypes, ReadyIsRouted, TransientHasOwner, DeletedHasNoWorker,
     CancelClose, workerVars, startVars, instVars
<1>2. BackupIsCurrent' /\ StarterNeedsInstance' /\ StopHitsCurrent' /\ GenerationsCount'
  BY DEF IInv, BackupIsCurrent, StarterNeedsInstance, StopHitsCurrent, GenerationsCount,
     CancelClose, workerVars, watchVars, stopVars, startVars, instVars, closeVars
<1>3. ReapersAreOld'
  BY DEF IInv, ReapersAreOld, CancelClose, workerVars, watchVars, stopVars, instVars
<1>4. OperationTypes'
  BY DEF IInv, OperationTypes, CancelClose, watchVars, startVars, closeVars
<1>5. StopTypes'
  BY DEF IInv, StopTypes, CancelClose, watchVars, stopVars
<1> QED BY <1>1, <1>2, <1>3, <1>4, <1>5 DEF IInv

LEMMA TakeGateToCloseIInv ==
  ASSUME IInv, NEW c \in Closers, TakeGateToClose(c)
  PROVE  IInv'
<1>1. StopHitsCurrent'
  BY DEF IInv, StopHitsCurrent, TakeGateToClose, workerVars, stopVars, GotoClose,
     OperationTypes
<1>2. OperationTypes'
  <2>1. PICK s \in {"idle", "entered"} :
          /\ closer' = [closer EXCEPT ![c] = s]
          /\ s = "idle" => gate' = gate
          /\ s = "entered" => gate = "free" /\ gate' = c
    BY DEF TakeGateToClose, GotoClose
  <2>2. /\ closer[c] \notin CloserHolds
        /\ s \in CloserSteps
        /\ (s \in CloserHolds <=> s = "entered")
    BY DEF TakeGateToClose, CloserHolds, CloserSteps
  <2>3. "free" \notin Closers /\ "starter" \notin Closers
    BY LifecycleAssumption
  <2>4. /\ closer' \in [Closers -> CloserSteps] /\ gate' \in {"free", "starter"} \cup Closers
        /\ gate' = "starter" <=> gate = "starter"
        /\ \A b \in Closers : closer'[b] \in CloserHolds <=> gate' = b
    BY <2>1, <2>2, <2>3 DEF IInv, OperationTypes
  <2>5. UNCHANGED <<pc, rolling, guard, snapped>> /\ already' \in BOOLEAN
        /\ cancelled' \subseteq cancelled
    BY DEF TakeGateToClose, startVars, watchVars, IInv, OperationTypes
  <2> QED BY <2>4, <2>5 DEF IInv, OperationTypes
<1>3. InstanceTypes' /\ ReadyIsRouted' /\ TransientHasOwner' /\ DeletedHasNoWorker'
  BY DEF IInv, InstanceTypes, ReadyIsRouted, TransientHasOwner, DeletedHasNoWorker,
     TakeGateToClose, workerVars, startVars, instVars
<1>4. BackupIsCurrent' /\ StarterNeedsInstance' /\ GenerationsCount' /\ ReapersAreOld'
  BY DEF IInv, BackupIsCurrent, StarterNeedsInstance, GenerationsCount, ReapersAreOld,
     TakeGateToClose, workerVars, watchVars, stopVars, startVars, instVars
<1>5. StopTypes'
  BY DEF IInv, StopTypes, TakeGateToClose, watchVars, stopVars
<1> QED BY <1>1, <1>2, <1>3, <1>4, <1>5 DEF IInv

LEMMA BeginCloseIInv == ASSUME IInv, NEW c \in Closers, BeginClose(c) PROVE IInv'
<1>1. /\ inst' \in Instances /\ inst'.generation = inst.generation
      /\ inst' = inst \/ inst'.state \notin {"ready", "queued", "starting"}
  BY SetStateFacts DEF IInv, BeginClose, States, Phases
<1>2. /\ UNCHANGED <<exists, current, pc, backup>>
      /\ alive' \subseteq alive
      /\ monitors' \subseteq monitors
  BY DEF IInv, BeginClose, workerVars, watchVars, startVars
<1>3. InstanceTypes' /\ ReadyIsRouted' /\ DeletedHasNoWorker' /\ TransientHasOwner' /\
   BackupIsCurrent' /\ StarterNeedsInstance' /\ GenerationsCount'
  BY <1>1, <1>2, ClosingStep
<1>4. ReapersAreOld'
  BY <1>1, <1>2, ReapersStep DEF IInv, BeginClose, stopVars
<1>5. StopHitsCurrent'
  BY DEF IInv, StopHitsCurrent, BeginClose, workerVars, stopVars, GotoClose,
     OperationTypes
<1>6. OperationTypes'
  BY DEF IInv, OperationTypes, BeginClose, watchVars, startVars, GotoClose, CloserSteps,
     CloserHolds
<1>7. StopTypes'
  BY DEF IInv, StopTypes, BeginClose, watchVars, stopVars
<1> QED BY <1>3, <1>4, <1>5, <1>6, <1>7 DEF IInv

LEMMA CaptureToCloseIInv ==
  ASSUME IInv, NEW c \in Closers, CaptureToClose(c)
  PROVE  IInv'
<1>1. c \in Actors
  BY DEF IInv, StopHitsCurrent, Actors
<1>2. /\ captured' \in [Actors -> Targets] /\ receipt' \in Targets /\ reapers' = reapers
      /\ captured'[c].handle = current
      /\ \A b \in Actors \ {c} : captured'[b] = captured[b]
  BY <1>1, CaptureFacts DEF IInv, CaptureToClose
<1>3. StopTypes'
  BY <1>2 DEF IInv, StopTypes, CaptureToClose, watchVars
<1>4. ReapersAreOld'
  BY <1>2 DEF IInv, ReapersAreOld, CaptureToClose, workerVars, watchVars, instVars
<1>5. StopHitsCurrent'
  BY <1>2, LifecycleAssumption DEF IInv, StopHitsCurrent, CaptureToClose, workerVars,
     GotoClose, Actors
<1>6. InstanceTypes' /\ ReadyIsRouted' /\ TransientHasOwner' /\ DeletedHasNoWorker'
  BY DEF IInv, InstanceTypes, ReadyIsRouted, TransientHasOwner, DeletedHasNoWorker,
     CaptureToClose, workerVars, startVars, instVars
<1>7. BackupIsCurrent' /\ StarterNeedsInstance' /\ GenerationsCount'
  BY DEF IInv, BackupIsCurrent, StarterNeedsInstance, GenerationsCount, CaptureToClose,
     workerVars, watchVars, startVars, instVars
<1>8. OperationTypes'
  BY DEF IInv, OperationTypes, CaptureToClose, watchVars, startVars, GotoClose,
     CloserSteps, CloserHolds
<1> QED BY <1>3, <1>4, <1>5, <1>6, <1>7, <1>8 DEF IInv

LEMMA StopToCloseIInv == ASSUME IInv, NEW c \in Closers, StopToClose(c) PROVE IInv'
<1>1. InstanceTypes /\ StopTypes /\ alive \subseteq Handles
  BY DEF IInv, StopHitsCurrent
<1>2. c \in Actors /\ "stop_unconfirmed" \in Phases /\ "delete_stop_unconfirmed" \in Phases
  BY DEF IInv, Actors, Phases
<1>3. /\ \A b \in Actors \ {c} : captured'[b] = captured[b]
      /\ captured' \in [Actors -> Targets] /\ receipt' \in Targets /\ reapers' \subseteq Reapers
      /\ current' = current /\ alive' \subseteq alive
      /\ inst' \in Instances /\ inst'.generation = inst.generation
      /\ inst' = inst \/ inst'.state = "draining"
      /\ \A r \in reapers' :
           r \in reapers \/ (r.handle = current /\ r.generation = inst.generation /\ ~r.checked)
  BY <1>1, <1>2, StopFacts DEF StopToClose
<1>4. UNCHANGED <<exists, pc, backup>> /\ monitors' = monitors
  BY DEF IInv, StopToClose, watchVars, startVars
<1>5. InstanceTypes' /\ ReadyIsRouted' /\ DeletedHasNoWorker' /\ TransientHasOwner' /\
   BackupIsCurrent' /\ StarterNeedsInstance' /\ GenerationsCount'
  BY <1>1, <1>3, <1>4, ClosingStep
<1>6. ReapersAreOld'
  BY <1>3, <1>4, ReapersStep
<1>7. StopTypes'
  BY <1>1, <1>3, <1>4 DEF StopTypes
<1>8. StopHitsCurrent'
  BY <1>1, <1>3, ConfirmedFacts, <1>2 DEF IInv, StopHitsCurrent, StopToClose, GotoClose,
     InstanceTypes, OperationTypes, Actors
<1>9. OperationTypes'
  BY DEF IInv, OperationTypes, StopToClose, watchVars, startVars, GotoClose,
     CloserSteps, CloserHolds
<1> QED BY <1>5, <1>6, <1>7, <1>8, <1>9 DEF IInv

LEMMA CompleteCloseIInv == ASSUME IInv, NEW c \in Closers, CompleteClose(c) PROVE IInv'
<1>1. /\ inst' \in Instances /\ inst'.generation = inst.generation
      /\ inst' = inst \/ inst'.state \notin {"ready", "queued", "starting"}
  BY ClearedFacts DEF IInv, InstanceTypes, CompleteClose, instVars, States, Phases
<1>2. UNCHANGED <<current, alive, pc, backup, monitors, reapers>>
  BY DEF CompleteClose, workerVars, startVars, stopVars, watchVars
<1>3. alive = {} /\ pc \notin StarterHolds
  BY DEF CompleteClose, IInv, StopHitsCurrent, OperationTypes, CloserHolds
<1>4. exists' \in BOOLEAN /\ (exists' => exists)
  <2>1. CASE UNCHANGED exists
    BY <2>1 DEF IInv, InstanceTypes
  <2>2. CASE exists' = FALSE
    BY <2>2
  <2> QED BY <2>1, <2>2 DEF CompleteClose, instVars
<1>5. InstanceTypes'
  BY <1>1, <1>2, <1>4 DEF IInv, InstanceTypes, CompleteClose
<1>6. ReadyIsRouted'
  BY <1>1, <1>2, <1>4 DEF IInv, ReadyIsRouted
<1>7. TransientHasOwner'
  BY <1>1, <1>2, <1>4 DEF IInv, TransientHasOwner
<1>8. DeletedHasNoWorker'
  BY <1>2, <1>4, <1>3 DEF DeletedHasNoWorker
<1>9. BackupIsCurrent'
  BY <1>1, <1>2, <1>4 DEF IInv, BackupIsCurrent
<1>10. StarterNeedsInstance'
  BY <1>2, <1>4, <1>3 DEF StarterNeedsInstance
<1>11. GenerationsCount'
  BY <1>1, <1>2, <1>4 DEF IInv, GenerationsCount
<1>12. ReapersAreOld'
  BY <1>1, <1>2, <1>4, ReapersStep
<1>13. OperationTypes'
  BY DEF IInv, OperationTypes, CompleteClose, watchVars, startVars, GotoClose,
     CloserSteps, CloserHolds
<1>14. StopTypes'
  BY DEF IInv, StopTypes, CompleteClose, watchVars, stopVars
<1>15. StopHitsCurrent'
  BY DEF IInv, StopHitsCurrent, CompleteClose, workerVars, stopVars, GotoClose
<1> QED BY <1>5, <1>6, <1>7, <1>8, <1>9, <1>10, <1>11, <1>12, <1>13, <1>14, <1>15 DEF
           IInv

LEMMA FinishCloseIInv == ASSUME IInv, NEW c \in Closers, FinishClose(c) PROVE IInv'
<1>1. OperationTypes'
  BY LifecycleAssumption DEF IInv, OperationTypes, FinishClose, watchVars, startVars,
     GotoClose, CloserSteps, CloserHolds
<1>2. InstanceTypes' /\ ReadyIsRouted' /\ TransientHasOwner' /\ DeletedHasNoWorker'
  BY DEF IInv, InstanceTypes, ReadyIsRouted, TransientHasOwner, DeletedHasNoWorker,
     FinishClose, workerVars, startVars, instVars
<1>3. BackupIsCurrent' /\ StarterNeedsInstance' /\ GenerationsCount' /\ ReapersAreOld'
  BY DEF IInv, BackupIsCurrent, StarterNeedsInstance, GenerationsCount, ReapersAreOld,
     FinishClose, workerVars, watchVars, stopVars, startVars, instVars
<1>4. StopTypes'
  BY DEF IInv, StopTypes, FinishClose, watchVars, stopVars
<1>5. StopHitsCurrent'
  BY DEF IInv, StopHitsCurrent, FinishClose, workerVars, stopVars, GotoClose
<1> QED BY <1>1, <1>2, <1>3, <1>4, <1>5 DEF IInv

LEMMA PickVictimIInv == ASSUME IInv, PickVictim PROVE IInv'
<1>1. StopHitsCurrent'
  BY LifecycleAssumption DEF IInv, StopHitsCurrent, PickVictim, workerVars, stopVars,
     closeVars
<1>2. InstanceTypes' /\ ReadyIsRouted' /\ TransientHasOwner' /\ DeletedHasNoWorker'
  BY DEF IInv, InstanceTypes, ReadyIsRouted, TransientHasOwner, DeletedHasNoWorker,
     PickVictim, workerVars, startVars, instVars
<1>3. BackupIsCurrent' /\ StarterNeedsInstance' /\ GenerationsCount' /\ ReapersAreOld'
  BY DEF IInv, BackupIsCurrent, StarterNeedsInstance, GenerationsCount, ReapersAreOld,
     PickVictim, workerVars, watchVars, stopVars, startVars, instVars
<1>4. OperationTypes'
  BY DEF IInv, OperationTypes, PickVictim, watchVars, startVars, closeVars
<1>5. StopTypes'
  BY DEF IInv, StopTypes, PickVictim, watchVars, stopVars
<1> QED BY <1>1, <1>2, <1>3, <1>4, <1>5 DEF IInv

LEMMA MarkVictimIInv == ASSUME IInv, MarkVictim PROVE IInv'
<1>1. /\ inst' \in Instances /\ inst'.generation = inst.generation
      /\ inst' = inst \/ inst'.state \notin {"ready", "queued", "starting"}
  BY ClearedFacts DEF IInv, InstanceTypes, MarkVictim, States, Phases
<1>2. /\ UNCHANGED <<exists, current, pc, backup>>
      /\ alive' \subseteq alive
      /\ monitors' \subseteq monitors
  BY DEF IInv, MarkVictim, workerVars, watchVars, startVars
<1>3. InstanceTypes' /\ ReadyIsRouted' /\ DeletedHasNoWorker' /\ TransientHasOwner' /\
   BackupIsCurrent' /\ StarterNeedsInstance' /\ GenerationsCount'
  BY <1>1, <1>2, ClosingStep
<1>4. ReapersAreOld'
  BY <1>1, <1>2, ReapersStep DEF IInv, MarkVictim, stopVars
<1>5. OperationTypes'
  BY DEF IInv, OperationTypes, MarkVictim, watchVars, startVars, closeVars
<1>6. StopTypes'
  BY DEF IInv, StopTypes, MarkVictim, watchVars, stopVars
<1>7. StopHitsCurrent'
  BY DEF IInv, StopHitsCurrent, MarkVictim, workerVars, stopVars, closeVars
<1> QED BY <1>3, <1>4, <1>5, <1>6, <1>7 DEF IInv

LEMMA CaptureVictimIInv == ASSUME IInv, CaptureVictim PROVE IInv'
<1>1. "guard" \in Actors
  BY DEF IInv, StopHitsCurrent, Actors, CaptureVictim
<1>2. /\ captured' \in [Actors -> Targets] /\ receipt' \in Targets /\ reapers' = reapers
      /\ \A b \in Actors \ {"guard"} : captured'[b] = captured[b]
  BY <1>1, CaptureFacts DEF IInv, CaptureVictim
<1>3. StopTypes'
  BY <1>2 DEF IInv, StopTypes, CaptureVictim, watchVars
<1>4. ReapersAreOld'
  BY <1>2 DEF IInv, ReapersAreOld, CaptureVictim, workerVars, watchVars, instVars
<1>5. StopHitsCurrent'
  BY <1>2, LifecycleAssumption DEF IInv, StopHitsCurrent, CaptureVictim, workerVars,
     closeVars, Actors
<1>6. InstanceTypes' /\ ReadyIsRouted' /\ TransientHasOwner' /\ DeletedHasNoWorker'
  BY DEF IInv, InstanceTypes, ReadyIsRouted, TransientHasOwner, DeletedHasNoWorker,
     CaptureVictim, workerVars, startVars, instVars
<1>7. BackupIsCurrent' /\ StarterNeedsInstance' /\ GenerationsCount'
  BY DEF IInv, BackupIsCurrent, StarterNeedsInstance, GenerationsCount, CaptureVictim,
     workerVars, watchVars, startVars, instVars
<1>8. OperationTypes'
  BY DEF IInv, OperationTypes, CaptureVictim, watchVars, startVars, closeVars
<1> QED BY <1>3, <1>4, <1>5, <1>6, <1>7, <1>8 DEF IInv

LEMMA StopVictimIInv == ASSUME IInv, StopVictim PROVE IInv'
<1>1. InstanceTypes /\ StopTypes /\ alive \subseteq Handles
  BY DEF IInv, StopHitsCurrent
<1>2. "guard" \in Actors /\ "guard_emergency_unconfirmed" \in Phases
  BY DEF IInv, StopHitsCurrent, Actors, Phases, StopVictim
<1>3. /\ \A b \in Actors \ {"guard"} : captured'[b] = captured[b]
      /\ captured' \in [Actors -> Targets] /\ receipt' \in Targets /\ reapers' \subseteq Reapers
      /\ current' = current /\ alive' \subseteq alive
      /\ inst' \in Instances /\ inst'.generation = inst.generation
      /\ inst' = inst \/ inst'.state = "draining"
      /\ \A r \in reapers' :
           r \in reapers \/ (r.handle = current /\ r.generation = inst.generation /\ ~r.checked)
  BY <1>1, <1>2, StopFacts DEF StopVictim
<1>4. UNCHANGED <<exists, pc, backup>> /\ monitors' = monitors
  BY DEF IInv, StopVictim, watchVars, startVars
<1>5. InstanceTypes' /\ ReadyIsRouted' /\ DeletedHasNoWorker' /\ TransientHasOwner' /\
   BackupIsCurrent' /\ StarterNeedsInstance' /\ GenerationsCount'
  BY <1>1, <1>3, <1>4, ClosingStep
<1>6. ReapersAreOld'
  BY <1>3, <1>4, ReapersStep
<1>7. StopTypes'
  BY <1>1, <1>3, <1>4 DEF StopTypes
<1>8. StopHitsCurrent'
  BY <1>1, <1>3, LifecycleAssumption DEF IInv, StopHitsCurrent, StopVictim, closeVars,
     Actors
<1>9. OperationTypes'
  BY DEF IInv, OperationTypes, StopVictim, watchVars, startVars, closeVars
<1> QED BY <1>5, <1>6, <1>7, <1>8, <1>9 DEF IInv

LEMMA TakeReceiptIInv == ASSUME IInv, TakeReceipt PROVE IInv'
<1>1. "guard" \in Actors /\ NoTarget \in Targets
  BY LifecycleAssumption DEF IInv, StopHitsCurrent, Actors, TakeReceipt, NoTarget,
     Targets
<1>2. captured' \in [Actors -> Targets] /\ receipt' \in Targets /\ reapers' = reapers
      /\ \A b \in Actors \ {"guard"} : captured'[b] = captured[b]
  BY <1>1 DEF IInv, StopTypes, TakeReceipt
<1>3. StopTypes'
  BY <1>2 DEF IInv, StopTypes, TakeReceipt, watchVars
<1>4. StopHitsCurrent'
  BY <1>2, LifecycleAssumption DEF IInv, StopHitsCurrent, TakeReceipt, workerVars,
     closeVars
<1>5. InstanceTypes' /\ ReadyIsRouted' /\ TransientHasOwner' /\ DeletedHasNoWorker'
  BY DEF IInv, InstanceTypes, ReadyIsRouted, TransientHasOwner, DeletedHasNoWorker,
     TakeReceipt, workerVars, startVars, instVars
<1>6. BackupIsCurrent' /\ StarterNeedsInstance' /\ GenerationsCount' /\ ReapersAreOld'
  BY DEF IInv, BackupIsCurrent, StarterNeedsInstance, GenerationsCount, ReapersAreOld,
     TakeReceipt, workerVars, watchVars, startVars, instVars
<1>7. OperationTypes'
  BY DEF IInv, OperationTypes, TakeReceipt, watchVars, startVars, closeVars
<1> QED BY <1>3, <1>4, <1>5, <1>6, <1>7 DEF IInv

LEMMA FinalizeVictimIInv == ASSUME IInv, FinalizeVictim PROVE IInv'
<1>1. /\ inst' \in Instances /\ inst'.generation = inst.generation
      /\ inst' = inst \/ inst'.state \notin {"ready", "queued", "starting"}
  BY ClearedFacts DEF IInv, InstanceTypes, FinalizeVictim, States, Phases
<1>2. /\ UNCHANGED <<exists, current, pc, backup>>
      /\ alive' \subseteq alive
      /\ monitors' \subseteq monitors
  BY DEF IInv, FinalizeVictim, workerVars, watchVars, startVars
<1>3. "guard" \in Actors /\ NoTarget \in Targets
  BY LifecycleAssumption DEF IInv, StopHitsCurrent, Actors, FinalizeVictim, NoTarget,
     Targets
<1>4. captured' \in [Actors -> Targets] /\ UNCHANGED <<receipt, reapers>>
      /\ \A b \in Actors \ {"guard"} : captured'[b] = captured[b]
  BY <1>3 DEF IInv, StopTypes, FinalizeVictim
<1>5. InstanceTypes' /\ ReadyIsRouted' /\ DeletedHasNoWorker' /\ TransientHasOwner' /\
   BackupIsCurrent' /\ StarterNeedsInstance' /\ GenerationsCount'
  BY <1>1, <1>2, ClosingStep
<1>6. ReapersAreOld'
  BY <1>1, <1>2, ReapersStep DEF IInv, ReapersAreOld, FinalizeVictim
<1>7. StopTypes'
  BY <1>4 DEF IInv, StopTypes, FinalizeVictim, watchVars
<1>8. StopHitsCurrent'
  BY <1>4, LifecycleAssumption DEF IInv, StopHitsCurrent, FinalizeVictim, workerVars,
     closeVars
<1>9. OperationTypes'
  BY DEF IInv, OperationTypes, FinalizeVictim, watchVars, startVars, closeVars
<1> QED BY <1>5, <1>6, <1>7, <1>8, <1>9 DEF IInv

LEMMA ExitIInv == ASSUME IInv, Exit PROVE IInv'
<1>1. OperationTypes' /\ ReadyIsRouted' /\ TransientHasOwner' /\ BackupIsCurrent'
  BY DEF IInv, OperationTypes, ReadyIsRouted, TransientHasOwner, BackupIsCurrent, Exit,
     watchVars, startVars, instVars, closeVars
<1>2. StarterNeedsInstance' /\ GenerationsCount'
  BY DEF IInv, StarterNeedsInstance, GenerationsCount, Exit, watchVars, startVars,
     instVars
<1>3. InstanceTypes'
  BY DEF IInv, InstanceTypes, Exit, startVars, instVars
<1>4. StopTypes'
  BY DEF IInv, StopTypes, Exit, watchVars, stopVars
<1>5. DeletedHasNoWorker'
  BY DEF IInv, DeletedHasNoWorker, Exit, instVars
<1>6. StopHitsCurrent'
  BY DEF IInv, StopHitsCurrent, Exit, stopVars, closeVars
<1>7. ReapersAreOld'
  BY DEF IInv, ReapersAreOld, Exit, watchVars, stopVars, instVars
<1> QED BY <1>1, <1>2, <1>3, <1>4, <1>5, <1>6, <1>7 DEF IInv

LEMMA ReaperCheckIInv == ASSUME IInv, NEW r \in reapers, ReaperCheck(r) PROVE IInv'
<1>1. reapers' \subseteq Reapers /\ \A q \in reapers' :
        q \in reapers \/ (q.handle = r.handle /\ q.generation = r.generation)
  <2>1. r \in Reapers /\ reapers \subseteq Reapers
    BY DEF IInv, StopTypes
  <2>2. [r EXCEPT !.checked = TRUE] \in Reapers
    BY <2>1 DEF Reapers
  <2>3. /\ [r EXCEPT !.checked = TRUE].handle = r.handle
        /\ [r EXCEPT !.checked = TRUE].generation = r.generation
    BY <2>1 DEF Reapers
  <2> QED BY <2>1, <2>2, <2>3 DEF ReaperCheck
<1>2. /\ UNCHANGED <<current, inst, alive, monitors, captured, receipt>>
      /\ r.handle \notin alive
  BY DEF ReaperCheck, instVars, workerVars, watchVars
<1>3. StopTypes'
  BY <1>1, <1>2 DEF IInv, StopTypes
<1>4. ReapersAreOld'
  BY <1>1, <1>2 DEF IInv, ReapersAreOld
<1>5. InstanceTypes' /\ OperationTypes' /\ ReadyIsRouted' /\ TransientHasOwner'
  BY DEF IInv, InstanceTypes, OperationTypes, ReadyIsRouted, TransientHasOwner,
     ReaperCheck, workerVars, watchVars, startVars, instVars, closeVars
<1>6. DeletedHasNoWorker' /\ BackupIsCurrent' /\ StarterNeedsInstance' /\
   StopHitsCurrent'
  BY DEF IInv, DeletedHasNoWorker, BackupIsCurrent, StarterNeedsInstance,
     StopHitsCurrent, ReaperCheck, workerVars, startVars, instVars, closeVars
<1>7. GenerationsCount'
  BY DEF IInv, GenerationsCount, ReaperCheck, workerVars, watchVars, startVars, instVars
<1> QED BY <1>3, <1>4, <1>5, <1>6, <1>7 DEF IInv

LEMMA ReapIInv == ASSUME IInv, NEW r \in reapers, Reap(r) PROVE IInv'
<1>1. /\ inst' \in Instances /\ inst'.generation = inst.generation
      /\ inst' = inst \/ inst'.state \notin {"ready", "queued", "starting"}
  BY ClearedFacts DEF IInv, InstanceTypes, Reap, States, Phases
<1>2. /\ UNCHANGED <<exists, current, pc, backup>>
      /\ alive' \subseteq alive
      /\ monitors' \subseteq monitors
  BY DEF IInv, Reap, workerVars, watchVars, startVars
<1>3. InstanceTypes' /\ ReadyIsRouted' /\ DeletedHasNoWorker' /\ TransientHasOwner' /\
   BackupIsCurrent' /\ StarterNeedsInstance' /\ GenerationsCount'
  BY <1>1, <1>2, ClosingStep
<1>4. ReapersAreOld'
  BY <1>1, <1>2, ReapersStep DEF IInv, ReapersAreOld, Reap
<1>5. OperationTypes' /\ StopHitsCurrent'
  BY DEF IInv, OperationTypes, StopHitsCurrent, Reap, workerVars, watchVars, startVars,
     closeVars
<1>6. StopTypes'
  BY DEF IInv, StopTypes, Reap, watchVars
<1> QED BY <1>3, <1>4, <1>5, <1>6 DEF IInv

LEMMA MonitorIInv == ASSUME IInv, NEW h \in Handles, Monitor(h) PROVE IInv'
<1>1. /\ inst' \in Instances /\ inst'.generation = inst.generation
      /\ inst' = inst \/ inst'.state \notin {"ready", "queued", "starting"}
  BY ClearedFacts DEF IInv, InstanceTypes, Monitor, States, Phases
<1>2. /\ UNCHANGED <<exists, current, pc, backup>>
      /\ alive' \subseteq alive
      /\ monitors' \subseteq monitors
  BY DEF IInv, Monitor, workerVars, startVars
<1>3. InstanceTypes' /\ ReadyIsRouted' /\ DeletedHasNoWorker' /\ TransientHasOwner' /\
   BackupIsCurrent' /\ StarterNeedsInstance' /\ GenerationsCount'
  BY <1>1, <1>2, ClosingStep
<1>4. ReapersAreOld'
  BY <1>1, <1>2, ReapersStep DEF IInv, Monitor, stopVars
<1>5. OperationTypes' /\ StopHitsCurrent'
  BY DEF IInv, OperationTypes, StopHitsCurrent, Monitor, workerVars, stopVars,
     startVars, closeVars
<1>6. StopTypes'
  BY DEF IInv, StopTypes, Monitor, stopVars
<1> QED BY <1>3, <1>4, <1>5, <1>6 DEF IInv

LEMMA SnapshotIInv == ASSUME IInv, Snapshot PROVE IInv'
<1>1. InstanceTypes' /\ ReadyIsRouted' /\ TransientHasOwner' /\ DeletedHasNoWorker'
  BY DEF IInv, InstanceTypes, ReadyIsRouted, TransientHasOwner, DeletedHasNoWorker,
     Snapshot, workerVars, startVars, instVars
<1>2. BackupIsCurrent' /\ StarterNeedsInstance' /\ StopHitsCurrent' /\ GenerationsCount'
  BY DEF IInv, BackupIsCurrent, StarterNeedsInstance, StopHitsCurrent, GenerationsCount,
     Snapshot, workerVars, stopVars, startVars, instVars, closeVars
<1>3. ReapersAreOld'
  BY DEF IInv, ReapersAreOld, Snapshot, workerVars, stopVars, instVars
<1>4. OperationTypes'
  BY DEF IInv, OperationTypes, Snapshot, startVars, closeVars
<1>5. StopTypes'
  BY DEF IInv, StopTypes, Snapshot, stopVars
<1> QED BY <1>1, <1>2, <1>3, <1>4, <1>5 DEF IInv

LEMMA ReconcileIInv == ASSUME IInv, Reconcile PROVE IInv'
<1>1. /\ inst' \in Instances /\ inst'.generation = inst.generation
      /\ inst' = inst \/ inst'.state \notin {"ready", "queued", "starting"}
  BY ClearedFacts DEF IInv, InstanceTypes, Reconcile, States, Phases
<1>2. /\ UNCHANGED <<exists, current, pc, backup>>
      /\ alive' \subseteq alive
      /\ monitors' \subseteq monitors
  BY DEF IInv, Reconcile, workerVars, startVars
<1>3. InstanceTypes' /\ ReadyIsRouted' /\ DeletedHasNoWorker' /\ TransientHasOwner' /\
   BackupIsCurrent' /\ StarterNeedsInstance' /\ GenerationsCount'
  BY <1>1, <1>2, ClosingStep
<1>4. ReapersAreOld'
  BY <1>1, <1>2, ReapersStep DEF IInv, Reconcile, stopVars
<1>5. StopHitsCurrent'
  BY DEF IInv, StopHitsCurrent, Reconcile, workerVars, stopVars, closeVars
<1>6. OperationTypes'
  BY DEF IInv, OperationTypes, Reconcile, startVars, closeVars
<1>7. StopTypes'
  BY DEF IInv, StopTypes, Reconcile, stopVars
<1> QED BY <1>3, <1>4, <1>5, <1>6, <1>7 DEF IInv

\* IInv holds initially, and no step of the system and no stuttering disturbs it.
LEMMA InitIInv == Init => IInv
<1> SUFFICES ASSUME Init PROVE IInv
  OBVIOUS
<1>1. InstanceTypes
  BY LifecycleAssumption, BackupFacts DEF Init, InstanceTypes, Instances, States, Phases
<1>2. OperationTypes
  BY LifecycleAssumption DEF Init, OperationTypes, Steps, CloserSteps, StarterHolds,
     CloserHolds
<1>3. StopTypes
  BY LifecycleAssumption DEF Init, StopTypes, NoTarget, Targets
<1>4. BackupIsCurrent /\ StarterNeedsInstance /\ StopHitsCurrent
  BY LifecycleAssumption DEF Init, BackupIsCurrent, StarterNeedsInstance,
     StopHitsCurrent, NoBackup
<1>5. GenerationsCount /\ ReapersAreOld
  BY DEF Init, GenerationsCount, ReapersAreOld, NoBackup
<1> QED BY <1>1, <1>2, <1>3, <1>4, <1>5 DEF Init, IInv, ReadyIsRouted,
           TransientHasOwner, DeletedHasNoWorker

\* A stuttering step preserves it.
LEMMA StutterIInv == ASSUME IInv, UNCHANGED vars PROVE IInv'
<1> USE DEF vars, instVars, workerVars, startVars, closeVars, stopVars, watchVars
<1>1. /\ InstanceTypes'
      /\ OperationTypes'
      /\ StopTypes'
      /\ ReadyIsRouted'
      /\ TransientHasOwner'
      /\ DeletedHasNoWorker'
  BY DEF IInv, InstanceTypes, OperationTypes, StopTypes, ReadyIsRouted,
     TransientHasOwner, DeletedHasNoWorker
<1>2. BackupIsCurrent' /\ StarterNeedsInstance' /\ StopHitsCurrent'
  BY DEF IInv, BackupIsCurrent, StarterNeedsInstance, StopHitsCurrent
<1>3. GenerationsCount' /\ ReapersAreOld'
  BY DEF IInv, GenerationsCount, ReapersAreOld
<1> QED BY <1>1, <1>2, <1>3 DEF IInv

\* Every step of the system does: one case for each action.
LEMMA NextIInv == IInv /\ [Next]_vars => IInv'
<1> SUFFICES ASSUME IInv, [Next]_vars PROVE IInv'
  OBVIOUS
<1>1. CASE StarterStep
  BY <1>1, DequeueIInv, LeaveQueueIInv, LeftQueueIInv, TakeGateIInv,
     FailBeforeDrainIInv, CancelBeforeDrainIInv, BeginDrainIInv, CancelDrainIInv,
     CaptureOldIInv, StopOldIInv, LaunchIInv, LaunchFailsIInv, StartWorkerIInv,
     StartReturnsIInv, VerifyIInv, CleanUpIInv, CommitIInv, FailIInv, SetOutcomeIInv,
     FinishIInv DEF StarterStep
<1>2. ASSUME NEW c \in Closers, ScheduleClose(c) \/ CancelClose(c) \/ CloserStep(c)
      PROVE  IInv'
  BY <1>2, ScheduleCloseIInv, CancelCloseIInv, CancelActiveIInv, TakeGateToCloseIInv,
     BeginCloseIInv, CaptureToCloseIInv, StopToCloseIInv, CompleteCloseIInv,
     FinishCloseIInv DEF CloserStep
<1>3. CASE GuardStep
  BY <1>3, MarkVictimIInv, CaptureVictimIInv, StopVictimIInv, TakeReceiptIInv,
     FinalizeVictimIInv DEF GuardStep
<1>4. CASE ScheduleStart \/ CancelStart \/ Install \/ Progress \/ Claim \/ PickVictim
  BY <1>4, ScheduleStartIInv, CancelStartIInv, InstallIInv, ProgressIInv, ClaimIInv,
     PickVictimIInv
<1>5. CASE \/ Exit \/ Snapshot \/ Reconcile
           \/ \E r \in reapers : ReaperCheck(r) \/ Reap(r)
           \/ \E h \in Handles : Monitor(h)
  BY <1>5, ExitIInv, SnapshotIInv, ReconcileIInv, ReaperCheckIInv, ReapIInv, MonitorIInv
<1>6. CASE UNCHANGED vars
  BY <1>6, StutterIInv
<1> QED BY <1>1, <1>2, <1>3, <1>4, <1>5, <1>6 DEF Next

\* IInv holds in every reachable state of every instance.
THEOREM Invariance == Spec => []IInv
BY InitIInv, NextIInv, PTL DEF Spec

\* The types, that the gate is held from its acquisition to its release on every path,
\* and that only the current handle is alive.
THEOREM TypeCorrect == Spec => []TypeOK
<1>1. IInv => TypeOK
  BY TypeParts DEF IInv
<1> QED BY <1>1, Invariance, PTL

\* No rollback (rollback.go, mergeLiveWorkerRollback) brings back a routing to a worker
\* that was replaced, claimed or stopped.
THEOREM ReadyStaysRouted == Spec => []ReadyIsRouted
<1>1. IInv => ReadyIsRouted
  BY DEF IInv
<1> QED BY <1>1, Invariance, PTL

\* Every path out of a start (transaction.go, start.go) leaves a state that ends.
THEOREM TransientIsOwned == Spec => []TransientHasOwner
<1>1. IInv => TransientHasOwner
  BY DEF IInv
<1> QED BY <1>1, Invariance, PTL

\* A deletion (stop_delete.go) removes the instance only when its worker is gone.
THEOREM DeletedIsStopped == Spec => []DeletedHasNoWorker
<1>1. IInv => DeletedHasNoWorker
  BY DEF IInv
<1> QED BY <1>1, Invariance, PTL

\* A reaper (process_stop.go, reapUnconfirmedStop) marks nothing stopped over a newer
\* worker that became ready.
THEOREM ReaperSparesReplacement == Spec => ReplacementSurvivesReaper
<1>1. ASSUME IInv, NEW r \in reapers, Reap(r), inst' # inst
      PROVE  alive \cap monitors = {}
  <2>1. r.checked /\ r.generation = inst.generation
    BY <1>1 DEF Reap, Matches
  <2>2. alive \subseteq {current}
    BY <1>1 DEF IInv, InstanceTypes
  <2>3. ~(r.handle # current /\ current \in monitors)
    BY <1>1, <2>1 DEF IInv, ReapersAreOld, InstanceTypes, Instances
  <2>4. r.handle \notin alive
    BY <1>1, <2>1 DEF IInv, ReapersAreOld
  <2> QED BY <2>2, <2>3, <2>4
<1>2. IInv /\ [Next]_vars =>
        [(\E r \in reapers : Reap(r)) /\ inst' # inst => alive \cap monitors = {}]_vars
  BY <1>1
<1> QED BY <1>2, Invariance, PTL DEF Spec, ReplacementSurvivesReaper

-----------------------------------------------------------------------------
(* The routing that requests see: InstanceLifecycle implements InstanceRouting. *)

\* Steps in which a start launches and checks the next worker.
Launching == {"starting", "loading", "verifying", "verified"}

\* A start that finds the instance ready has a ready backup, a backup is of the worker
\* generation that the instance still has, and no instance is ready while its next
\* worker is launched.
RoutingKnown ==
  /\ pc \in Undecided /\ inst.state = "ready" => backup.state = "ready"
  /\ pc \in Undecided /\ backup.state # "none" => backup.generation = inst.generation
  /\ pc \in Launching => inst.state # "ready"

\* A step of the start that keeps the backup of an instance it has not touched yet.
StartKept ==
  \/ backup' = backup /\ pc' = pc
  \/ backup' = backup /\ pc = "queued" /\ pc' = "gating"
  \/ backup' = backup /\ pc = "preparing" /\ pc' = "draining"
  \/ pc' \notin Undecided

\* A step that leaves the instance alone, or closes or clears its routing, is one of
\* InstanceRouting, or none.
LEMMA KeptStep ==
  ASSUME IInv, RoutingKnown, exists' = exists, StartKept,
         inst'.generation = inst.generation,
         inst' = inst \/ (inst'.state # "ready" /\ inst'.secret \in {inst.secret, 0}),
         pc' \in Launching => pc \in Launching \/ inst'.state # "ready"
  PROVE  RoutingKnown' /\ [Routing!Next]_(Routing!vars)
<1>1. RoutingKnown'
  BY DEF RoutingKnown, StartKept, Undecided, Launching
<1>2. CASE ~exists
  BY <1>1, <1>2 DEF Routing!vars, routingState, routingSecret, routingSaved
<1>3. CASE exists /\ inst'.state = "ready"
  <2>1. inst' = inst
    BY <1>3
  <2>2. routingSaved = 0 /\ routingSaved' = 0
    BY <1>1, <1>3, <2>1 DEF routingSaved, Returnable, RoutingKnown, Undecided
  <2>3. UNCHANGED <<routingState, routingSecret>>
    BY <1>3, <2>1 DEF routingState, routingSecret
  <2> QED BY <1>1, <2>1, <2>2, <2>3 DEF Routing!vars
<1>4. CASE exists /\ inst'.state # "ready" /\ Reopenable'
  <2>1. backup' = backup /\ Reopenable /\ inst'.secret = inst.secret
    BY <1>4 DEF Reopenable, StartKept, Undecided
  <2>2. routingSaved = 0 /\ routingSaved' = 0
    BY <1>4, <2>1 DEF routingSaved, Returnable, Reopenable
  <2>3. routingSecret' = routingSecret
    BY <1>4, <2>1 DEF routingSecret
  <2>4. routingState' = "paused" /\ routingState \in {"ready", "paused"}
    BY <1>4, <2>1 DEF routingState
  <2> QED BY <1>1, <2>2, <2>3, <2>4 DEF Routing!vars, Routing!Next, Routing!Pause
<1>5. CASE exists /\ inst'.state # "ready" /\ ~Reopenable'
  <2>1. routingState' = "closed"
    BY <1>5 DEF routingState
  <2>2. routingSecret' \in {routingSecret, 0}
    BY <1>5 DEF routingSecret
  <2>3. routingSaved' \in {routingSaved, 0}
    <3>1. CASE Returnable'
      <4>1. backup' = backup /\ Returnable
        BY <3>1 DEF Returnable, StartKept, Undecided
      <4> QED BY <3>1, <4>1 DEF routingSaved
    <3>2. CASE ~Returnable'
      BY <3>2 DEF routingSaved
    <3> QED BY <3>1, <3>2
  <2> QED BY <1>1, <2>1, <2>2, <2>3 DEF Routing!Next, Routing!Close, Routing!NoSecret
<1> QED BY <1>2, <1>3, <1>4, <1>5

\* A start that restores its backup reopens the routing it has paused, returns one
\* that was closed, or changes nothing of it.
LEMMA RestoreStep ==
  ASSUME IInv, RoutingKnown, exists' = exists, backup' = backup, Restore,
         pc \in {"queued", "gating", "preparing", "draining"},
         pc = "draining" => backup.state = "ready",
         pc' \in {"left", "timed_out", "releasing", "set_stopped"}
  PROVE  RoutingKnown' /\ [Routing!Next]_(Routing!vars)
<1>1. CASE ~exists \/ backup = NoBackup
  <2>1. inst' = inst
    BY <1>1 DEF Restore
  <2>2. StartKept \/ (backup.state = "none" /\ pc' \in {"left", "timed_out"}) \/ ~exists
    BY <1>1 DEF StartKept, NoBackup, Undecided
  <2>3. RoutingKnown'
    BY <2>1 DEF RoutingKnown, Undecided, Launching
  <2>4. CASE ~exists
    BY <2>1, <2>3, <2>4 DEF Routing!vars, routingState, routingSecret, routingSaved
  <2>5. CASE exists
    <3>1. backup.state = "none" /\ backup'.state = "none"
      BY <1>1, <2>5 DEF NoBackup
    <3>2. UNCHANGED <<routingState, routingSecret, routingSaved>>
      BY <2>1, <3>1 DEF routingState, routingSecret, routingSaved, Reopenable, Returnable
    <3> QED BY <2>1, <2>3, <3>2 DEF Routing!vars
  <2> QED BY <2>4, <2>5
<1>2. CASE exists /\ backup # NoBackup /\ backup.state # "ready"
  <2>1. inst' = backup /\ backup \in Instances /\ backup.state # "none"
    BY <1>2, BackupFacts DEF Restore, Merge, IInv, InstanceTypes
  <2>2. backup.generation = inst.generation
    BY <2>1 DEF RoutingKnown, Undecided
  <2>3. RoutingKnown'
    BY <1>2, <2>1, <2>2 DEF RoutingKnown, Undecided, Launching
  <2>4. routingState' = "closed" /\ routingSaved' = 0
    BY <1>2, <2>1 DEF routingState, routingSaved, Reopenable, Returnable
  <2>5. CASE inst.state = "ready"
    BY <1>2, <2>5 DEF RoutingKnown, Undecided
  <2>6. CASE inst.state # "ready"
    <3>1. routingState = "closed"
      BY <1>2, <2>6 DEF routingState, Reopenable
    <3>2. CASE backup.secret = 0
      <4>1. routingSecret' = 0
        BY <2>1, <3>2 DEF routingSecret
      <4> QED BY <2>1, <2>2, <2>3, <2>4, <4>1 DEF Routing!Next, Routing!Close, Routing!NoSecret
    <3>3. CASE backup.secret # 0
      <4>1. routingSaved = backup.generation /\ routingSecret' = backup.generation
        BY <1>2, <2>1, <3>3 DEF routingSecret, routingSaved, Returnable
      <4>2. CASE backup.generation = 0
        <5>1. routingSecret' = 0
          BY <4>1, <4>2
        <5> QED BY <2>1, <2>2, <2>3, <2>4, <5>1 DEF Routing!Next, Routing!Close, Routing!NoSecret
      <4>3. CASE backup.generation # 0
        BY <2>1, <2>2, <2>3, <2>4, <3>1, <4>1, <4>3 DEF Routing!Next, Routing!Return, Routing!NoSecret
      <4> QED BY <4>2, <4>3
    <3> QED BY <3>2, <3>3
  <2> QED BY <2>5, <2>6
<1>3. CASE exists /\ backup # NoBackup /\ backup.state = "ready"
  <2>1. inst' = Merge(inst, backup)
    BY <1>3 DEF Restore
  <2>2. CASE inst' = inst
    <3>1. RoutingKnown'
      BY <1>3, <2>2 DEF RoutingKnown, Undecided, Launching
    <3>2. routingSaved = 0 /\ routingSaved' = 0 /\ routingSecret' = routingSecret
      BY <1>3, <2>2 DEF routingSaved, routingSecret, Returnable
    <3>3. CASE inst.state = "ready"
      BY <1>3, <2>2, <3>1, <3>2, <3>3 DEF Routing!vars, routingState
    <3>4. CASE inst.state # "ready"
      <4>1. routingState' = "closed"
        BY <2>2, <3>4 DEF routingState, Reopenable
      <4> QED BY <2>2, <3>1, <3>2, <4>1 DEF Routing!Next, Routing!Close
    <3> QED BY <3>3, <3>4
  <2>3. CASE inst' # inst
    <3>1. /\ inst' = [inst EXCEPT !.state = "ready", !.phase = "ready"]
          /\ inst.generation = backup.generation
          /\ inst.secret = backup.secret /\ inst.secret # 0
      BY <1>3, <2>1, <2>3 DEF Merge
    <3>2. /\ inst'.state = "ready" /\ inst'.secret = inst.secret
          /\ inst'.generation = inst.generation
      BY <3>1 DEF IInv, InstanceTypes, Instances
    <3>3. RoutingKnown'
      BY <1>3, <3>1, <3>2 DEF RoutingKnown, Undecided, Launching
    <3>4. routingState' = "ready" /\ routingState \in {"ready", "paused"}
      BY <1>3, <3>1, <3>2 DEF routingState, Reopenable
    <3>5. routingSaved = 0 /\ routingSaved' = 0 /\ routingSecret' = routingSecret
      BY <1>3, <3>2 DEF routingSaved, routingSecret, Returnable
    <3> QED BY <3>2, <3>3, <3>4, <3>5 DEF Routing!vars, Routing!Next, Routing!Reopen
  <2> QED BY <2>2, <2>3
<1> QED BY <1>1, <1>2, <1>3

\* A start of an instance that is not ready keeps its routing, if it has one.
LEMMA ScheduleStartRouting ==
  ASSUME IInv, RoutingKnown, ScheduleStart
  PROVE  RoutingKnown' /\ [Routing!Next]_(Routing!vars)
<1>1. /\ exists /\ exists' = exists /\ pc = "idle" /\ pc' = "queued" /\ backup' = inst
      /\ inst \in Instances /\ inst.state # "none"
  BY BackupFacts DEF IInv, InstanceTypes, ScheduleStart, Goto
<1>2. /\ inst'.generation = inst.generation /\ inst'.secret = inst.secret
      /\ IF inst.state = "ready" THEN inst' = inst ELSE inst'.state = "queued"
  BY <1>1 DEF ScheduleStart, Instances
<1>3. RoutingKnown'
  BY <1>1, <1>2 DEF RoutingKnown, Undecided, Launching
<1>4. routingSaved = 0 /\ routingSecret' = routingSecret
  BY <1>1, <1>2 DEF routingSaved, routingSecret, Returnable
<1>5. CASE inst.state = "ready"
  <2>1. routingState' = routingState /\ routingSaved' = 0
    BY <1>1, <1>2, <1>5 DEF routingState, routingSaved, Returnable
  <2> QED BY <1>2, <1>3, <1>4, <2>1 DEF Routing!vars
<1>6. CASE inst.state # "ready"
  <2>1. routingState = "closed" /\ routingState' = "closed"
    BY <1>1, <1>2, <1>6 DEF routingState, Reopenable
  <2>2. routingSaved' = routingSecret
    BY <1>1, <1>6 DEF routingSaved, routingSecret, Returnable
  <2> QED BY <1>2, <1>3, <1>4, <2>1, <2>2 DEF Routing!Next, Routing!Save
<1> QED BY <1>5, <1>6

\* The first start of an instance takes its backup under the gate.
LEMMA TakeGateRouting ==
  ASSUME IInv, RoutingKnown, TakeGate
  PROVE  RoutingKnown' /\ [Routing!Next]_(Routing!vars)
<1>1. /\ exists' = exists /\ inst' = inst /\ inst \in Instances /\ inst.state # "none"
      /\ pc = "gating" /\ pc' = (IF exists THEN "preparing" ELSE "releasing")
      /\ backup' = IF backup = NoBackup THEN inst ELSE backup
  BY BackupFacts DEF IInv, InstanceTypes, TakeGate, Goto, instVars
<1>2. RoutingKnown'
  BY <1>1 DEF RoutingKnown, Undecided, Launching
<1>3. CASE ~exists
  BY <1>1, <1>2, <1>3 DEF Routing!vars, routingState, routingSecret, routingSaved
<1>4. CASE exists /\ backup # NoBackup
  <2>1. backup' = backup /\ pc' = "preparing"
    BY <1>1, <1>4
  <2>2. UNCHANGED <<routingState, routingSecret, routingSaved>>
    BY <1>1, <2>1 DEF routingState, routingSecret, routingSaved, Reopenable, Returnable
  <2> QED BY <1>1, <1>2, <2>2 DEF Routing!vars
<1>5. CASE exists /\ backup = NoBackup
  <2>1. backup.state = "none" /\ backup' = inst /\ pc' = "preparing"
    BY <1>1, <1>5 DEF NoBackup
  <2>2. inst.state # "ready"
    BY <1>1, <2>1 DEF RoutingKnown, Undecided
  <2>3. routingState = "closed" /\ routingState' = "closed" /\ routingSecret' = routingSecret
    BY <1>1, <2>1, <2>2 DEF routingState, routingSecret, Reopenable
  <2>4. routingSaved' = routingSecret
    BY <1>1, <1>5, <2>1, <2>2 DEF routingSaved, routingSecret, Returnable
  <2> QED BY <1>1, <1>2, <2>3, <2>4 DEF Routing!Next, Routing!Save
<1> QED BY <1>3, <1>4, <1>5

\* The worker that becomes the instance's opens a routing of its own.
LEMMA CommitRouting ==
  ASSUME IInv, RoutingKnown, Commit
  PROVE  RoutingKnown' /\ [Routing!Next]_(Routing!vars)
<1>1. /\ exists /\ exists' = exists /\ pc = "verified" /\ pc' = "releasing"
      /\ inst'.state = "ready" /\ inst'.secret = current
      /\ inst'.generation = inst.generation + 1
  BY DEF IInv, StarterNeedsInstance, StarterHolds, Commit, Goto
<1>2. current # 0 /\ inst.state # "ready"
  <2>1. inst.generation \in Nat /\ current \in Nat
    BY DEF IInv, InstanceTypes, Instances
  <2> QED BY <1>1, <2>1 DEF IInv, GenerationsCount, RoutingKnown, Launching
<1>3. RoutingKnown'
  BY <1>1 DEF RoutingKnown, Undecided, Launching
<1>4. routingState = "closed" /\ routingState' = "ready"
  BY <1>1, <1>2 DEF routingState, Reopenable
<1>5. routingSecret' = inst.generation + 1 /\ routingSaved' = 0
  BY <1>1, <1>2 DEF routingSecret, routingSaved, Returnable
<1> QED BY <1>1, <1>3, <1>4, <1>5 DEF Routing!Next, Routing!Commit, Routing!NoSecret

\* The steps of a start, in the order of the code.
LEMMA StarterRouting ==
  ASSUME IInv, RoutingKnown, StarterStep
  PROVE  RoutingKnown' /\ [Routing!Next]_(Routing!vars)
<1> USE DEF Goto, instVars, startVars, stopVars
<1>1. inst \in Instances
  BY DEF IInv, InstanceTypes
<1>2. ASSUME NEW state \in States \ {"ready"}, NEW phase \in Phases, SetState(state, phase)
      PROVE  /\ inst'.generation = inst.generation
             /\ inst' = inst \/ (inst'.state = state /\ inst'.secret = inst.secret)
             /\ exists => inst'.state = state
  BY <1>2, SetStateFacts DEF IInv, InstanceTypes
<1>3. ASSUME NEW a \in Actors, NEW phase, (Confirmed(a) /\ inst' = inst) \/ Unconfirmed(a, phase)
      PROVE  /\ inst'.generation = inst.generation
             /\ inst' = inst \/ (inst'.state = "draining" /\ inst'.secret = 0)
  BY <1>1, <1>3 DEF Unconfirmed, Cleared, Instances
<1>4. CASE Dequeue \/ CaptureOld \/ LaunchFails \/ Fail \/ Finish
  <2>1. exists' = exists /\ inst' = inst /\ StartKept /\ pc' \notin Launching
    BY <1>4 DEF Dequeue, CaptureOld, LaunchFails, Fail, Finish, StartKept, Undecided,
       Launching
  <2> QED BY <2>1, KeptStep
<1>5. CASE StartWorker \/ Verify
  <2>1. exists' = exists /\ inst' = inst /\ StartKept /\ pc \in Launching
    BY <1>5 DEF StartWorker, Verify, StartKept, Undecided, Launching
  <2> QED BY <2>1, KeptStep
<1>6. CASE LeaveQueue
  BY <1>6, RestoreStep DEF LeaveQueue
<1>7. CASE LeftQueue \/ SetOutcome
  <2>1. exists' = exists /\ StartKept /\ pc' \notin Launching
    BY <1>7 DEF LeftQueue, SetOutcome, StartKept, Undecided, Launching
  <2>2. inst' = inst \/ SetState("stopped", "stopped") \/ SetState("failed", "failed")
    BY <1>7 DEF LeftQueue, SetOutcome
  <2>3. /\ inst'.generation = inst.generation
        /\ inst' = inst \/ (inst'.state # "ready" /\ inst'.secret = inst.secret)
    BY <1>2, <2>2 DEF States, Phases
  <2> QED BY <2>1, <2>3, KeptStep
<1>8. CASE FailBeforeDrain \/ CancelBeforeDrain \/ CancelDrain
  <2>1. CASE /\ Restore /\ pc' \in {"releasing", "set_stopped"}
             /\ pc = "draining" => backup.state = "ready"
    BY <1>8, <2>1, RestoreStep DEF FailBeforeDrain, CancelBeforeDrain, CancelDrain
  <2>2. CASE inst' = inst /\ pc' \in {"set_stopped", "set_failed"}
    <3>1. exists' = exists /\ StartKept /\ pc' \notin Launching
      BY <1>8, <2>2 DEF FailBeforeDrain, CancelBeforeDrain, CancelDrain, StartKept,
         Undecided, Launching
    <3> QED BY <2>2, <3>1, KeptStep
  <2> QED BY <1>8, <2>1, <2>2 DEF FailBeforeDrain, CancelBeforeDrain, CancelDrain
<1>9. CASE BeginDrain
  <2>1. exists' = exists /\ StartKept /\ pc' \notin Launching
    BY <1>9 DEF BeginDrain, StartKept, Undecided, Launching
  <2>2. /\ inst'.generation = inst.generation
        /\ inst' = inst \/ (inst'.state # "ready" /\ inst'.secret = inst.secret)
    BY <1>2, <1>9 DEF BeginDrain, States, Phases
  <2> QED BY <2>1, <2>2, KeptStep
<1>10. CASE StopOld \/ CleanUp
  <2>1. exists' = exists /\ StartKept /\ pc' \notin Launching
    BY <1>10 DEF StopOld, CleanUp, StartKept, Undecided, Launching
  <2>2. /\ inst'.generation = inst.generation
        /\ inst' = inst \/ (inst'.state = "draining" /\ inst'.secret = 0)
    <3>1. "starter" \in Actors
      BY DEF Actors
    <3> QED BY <1>3, <1>10, <3>1 DEF StopOld, CleanUp
  <2> QED BY <2>1, <2>2, KeptStep
<1>11. CASE Launch \/ StartReturns
  <2>1. exists' = exists /\ StartKept /\ (pc' \in Launching => pc \in Launching \/ Launch)
    BY <1>11 DEF Launch, StartReturns, StartKept, Undecided, Launching
  <2>2. /\ inst'.generation = inst.generation
        /\ inst' = inst \/ (inst'.state # "ready" /\ inst'.secret = inst.secret)
        /\ Launch => inst'.state # "ready"
    <3>1. exists /\ (pc = "loading" => ~Launch)
      BY <1>11 DEF IInv, StarterNeedsInstance, StarterHolds, Launch, StartReturns
    <3>2. CASE Launch
      <4>1. SetState("starting", "launching_worker")
        BY <3>2 DEF Launch
      <4> QED BY <1>2, <3>1, <4>1 DEF States, Phases
    <3>3. CASE StartReturns
      <4>1. ~Launch /\ (inst' = inst \/ SetState("starting", "verifying_worker"))
        BY <3>1, <3>3 DEF StartReturns
      <4> QED BY <1>2, <3>1, <4>1 DEF States, Phases
    <3> QED BY <1>11, <3>2, <3>3
  <2> QED BY <2>1, <2>2, KeptStep
<1> QED BY <1>4, <1>5, <1>6, <1>7, <1>8, <1>9, <1>10, <1>11, TakeGateRouting, CommitRouting
        DEF StarterStep

\* The steps of the others close the routing, or leave it alone.
LEMMA OthersRouting ==
  ASSUME IInv, RoutingKnown, [Next]_vars, ~StarterStep, ~ScheduleStart
  PROVE  RoutingKnown' /\ [Routing!Next]_(Routing!vars)
<1> USE DEF instVars, startVars, stopVars
<1>1. inst \in Instances
  BY DEF IInv, InstanceTypes
<1>2. ASSUME NEW state \in States \ {"ready"}, NEW phase \in Phases,
             SetState(state, phase) \/ inst' = Cleared(state, phase)
      PROVE  /\ inst'.generation = inst.generation
             /\ inst' = inst \/ (inst'.state # "ready" /\ inst'.secret \in {inst.secret, 0})
  BY <1>1, <1>2, SetStateFacts DEF IInv, InstanceTypes, Cleared, Instances
<1>3. ASSUME UNCHANGED <<exists, pc, backup>>, inst'.generation = inst.generation,
             inst' = inst \/ (inst'.state # "ready" /\ inst'.secret \in {inst.secret, 0})
      PROVE  RoutingKnown' /\ [Routing!Next]_(Routing!vars)
  BY <1>3, KeptStep DEF StartKept
<1>4. CASE CancelStart \/ PickVictim \/ Exit \/ Snapshot \/ UNCHANGED vars
  BY <1>3, <1>4 DEF CancelStart, PickVictim, Exit, Snapshot, vars
<1>5. CASE Install \/ Progress \/ Claim \/ Reconcile
  BY <1>2, <1>3, <1>5 DEF Install, Progress, Claim, Reconcile, States, Phases
<1>6. ASSUME NEW c \in Closers,
             \/ ScheduleClose(c) \/ CancelClose(c) \/ CancelActive(c) \/ TakeGateToClose(c)
             \/ CaptureToClose(c) \/ FinishClose(c)
      PROVE  RoutingKnown' /\ [Routing!Next]_(Routing!vars)
  BY <1>3, <1>6 DEF ScheduleClose, CancelClose, CancelActive, TakeGateToClose,
     CaptureToClose, FinishClose
<1>7. ASSUME NEW c \in Closers, BeginClose(c) \/ StopToClose(c)
      PROVE  RoutingKnown' /\ [Routing!Next]_(Routing!vars)
  BY <1>2, <1>3, <1>7 DEF BeginClose, StopToClose, Unconfirmed, States, Phases
<1>8. ASSUME NEW c \in Closers, CompleteClose(c)
      PROVE  RoutingKnown' /\ [Routing!Next]_(Routing!vars)
  <2>1. CASE exists' = exists
    BY <1>2, <1>3, <1>8, <2>1 DEF CompleteClose, States, Phases
  <2>2. CASE exists' # exists
    <3>1. ~exists' /\ UNCHANGED <<inst, pc, backup>>
      BY <1>8, <2>2 DEF CompleteClose, IInv, InstanceTypes
    <3>2. RoutingKnown'
      BY <3>1 DEF RoutingKnown
    <3>3. routingState' = "closed" /\ routingSecret' = 0 /\ routingSaved' = 0
      BY <3>1 DEF routingState, routingSecret, routingSaved
    <3> QED BY <3>1, <3>2, <3>3 DEF Routing!Next, Routing!Close, Routing!NoSecret
  <2> QED BY <2>1, <2>2
<1>9. CASE GuardStep
  BY <1>2, <1>3, <1>9 DEF GuardStep, MarkVictim, CaptureVictim, StopVictim, TakeReceipt,
     FinalizeVictim, Unconfirmed, States, Phases
<1>10. ASSUME NEW r \in reapers, ReaperCheck(r) \/ Reap(r)
       PROVE  RoutingKnown' /\ [Routing!Next]_(Routing!vars)
  BY <1>2, <1>3, <1>10 DEF ReaperCheck, Reap, States, Phases
<1>11. ASSUME NEW h \in Handles, Monitor(h)
       PROVE  RoutingKnown' /\ [Routing!Next]_(Routing!vars)
  BY <1>2, <1>3, <1>11 DEF Monitor, States, Phases
<1> QED BY <1>4, <1>5, <1>6, <1>7, <1>8, <1>9, <1>10, <1>11 DEF Next, CloserStep

\* The instance has no routing to begin with.
LEMMA InitRouting == Init => RoutingKnown /\ Routing!Init
BY DEF Init, RoutingKnown, Undecided, Launching, NoBackup, Routing!Init, Routing!NoSecret,
   routingState, routingSecret, routingSaved, Reopenable, Returnable

\* Whatever starts, restarts, stops and crashes there are, the routing that inference
\* requests see behaves as InferenceGate assumes it: once closed it stays closed until
\* a new worker is committed (rollback.go, stop_delete.go, process_stop.go, retry.go).
THEOREM RoutingRefinement == Spec => ImplementsRouting
<1>1. Spec => []RoutingKnown
  <2>1. Init => RoutingKnown
    BY InitRouting
  <2>2. IInv /\ RoutingKnown /\ [Next]_vars => RoutingKnown'
    BY StarterRouting, ScheduleStartRouting, OthersRouting
  <2> QED BY <2>1, <2>2, Invariance, PTL DEF Spec
<1>2. Init => Routing!Init
  BY InitRouting
<1>3. IInv /\ RoutingKnown /\ [Next]_vars => [Routing!Next]_(Routing!vars)
  BY StarterRouting, ScheduleStartRouting, OthersRouting
<1> QED BY <1>1, <1>2, <1>3, Invariance, PTL DEF Spec, ImplementsRouting, Routing!Spec
-----------------------------------------------------------------------------
(* The workers of an instance: InstanceLifecycle uses them as WorkerHandles *)
(* describes them, which is what Supervisor implements.                     *)

\* Confirmed stops that nobody has taken the receipt of.
receiptHandles == {receipt.handle} \ {0}

Workers == INSTANCE WorkerHandles WITH confirmed <- receiptHandles

\* A stop is of a worker that was started.
TargetsInstalled ==
  /\ \A a \in Actors : captured[a].handle <= current
  /\ receipt.handle <= current

\* What is captured and kept are targets.
LEMMA TargetFacts ==
  ASSUME IInv
  PROVE  /\ \A a \in Actors : captured[a] \in Targets /\ captured[a].handle \in Nat
         /\ receipt \in Targets /\ receipt.handle \in Nat
         /\ current \in Nat /\ alive \subseteq {current} /\ alive \subseteq 1..current
         /\ NoTarget.handle = 0
<1>1. /\ captured \in [Actors -> Targets] /\ receipt \in Targets
      /\ current \in 0..MaxHandles /\ alive \subseteq {current} /\ alive \subseteq Handles
  BY DEF IInv, StopTypes, InstanceTypes, StopHitsCurrent
<1>2. \A t \in Targets : t.handle \in Nat
  BY LifecycleAssumption DEF Targets
<1> QED BY <1>1, <1>2, LifecycleAssumption DEF Handles, NoTarget

\* A step that confirms no stop: a worker may end, a target or a receipt be forgotten.
LEMMA QuietWorkers ==
  ASSUME IInv, TargetsInstalled, current' = current,
         receipt' = receipt \/ receipt'.handle = 0,
         alive' = alive \/ (receipt' = receipt /\ \E h \in alive : alive' = alive \ {h}),
         \A a \in Actors : captured'[a].handle \in {captured[a].handle, receipt.handle, current, 0}
  PROVE  TargetsInstalled' /\ [Workers!Next]_(Workers!vars)
<1>1. TargetsInstalled'
  BY TargetFacts DEF TargetsInstalled
<1>2. CASE alive' = alive
  <2>1. receiptHandles' \subseteq receiptHandles
    BY DEF receiptHandles
  <2> QED BY <1>1, <1>2, <2>1 DEF Workers!Next, Workers!Forget
<1>3. CASE receipt' = receipt /\ \E h \in alive : alive' = alive \ {h}
  <2>1. PICK h \in 1..current : alive' = alive \ {h}
    BY <1>3, TargetFacts
  <2>2. receiptHandles' = receiptHandles
    BY <1>3 DEF receiptHandles
  <2> QED BY <1>1, <2>1, <2>2 DEF Workers!Next, Workers!End
<1> QED BY <1>2, <1>3

\* A confirmed stop, whether or not its receipt is kept.
LEMMA ConfirmedWorkers ==
  ASSUME IInv, TargetsInstalled, NEW a \in Actors, Confirmed(a)
  PROVE  TargetsInstalled' /\ [Workers!Next]_(Workers!vars)
<1>1. current' = current /\ captured \in [Actors -> Targets]
  BY DEF Confirmed, IInv, StopTypes
<1>2. TargetsInstalled'
  BY <1>1, TargetFacts DEF TargetsInstalled, Confirmed
<1>3. CASE captured[a].handle = 0
  <2>1. alive' = alive
    BY <1>3, TargetFacts DEF Confirmed
  <2>2. receiptHandles' \subseteq receiptHandles
    BY <1>3 DEF receiptHandles, Confirmed
  <2> QED BY <1>1, <1>2, <2>1, <2>2 DEF Workers!Next, Workers!Forget
<1>4. CASE captured[a].handle # 0
  <2>1. captured[a].handle \in 1..current
    BY <1>4, TargetFacts DEF TargetsInstalled
  <2>2. alive' = alive \ {captured[a].handle}
    BY DEF Confirmed
  <2>3. CASE receipt' = receipt
    <3>1. receiptHandles' = receiptHandles
      BY <2>3 DEF receiptHandles
    <3> QED BY <1>1, <1>2, <2>1, <2>2, <3>1 DEF Workers!Next, Workers!End
  <2>4. CASE receipt' = captured[a]
    <3>1. receiptHandles' = {captured[a].handle}
      BY <1>4, <2>4 DEF receiptHandles
    <3> QED BY <1>1, <1>2, <2>1, <2>2, <3>1 DEF Workers!Next, Workers!Confirm
  <2> QED BY <2>3, <2>4 DEF Confirmed
<1> QED BY <1>3, <1>4

\* The other ways to handle targets, in terms of QuietWorkers.
LEMMA TargetSteps ==
  ASSUME IInv
  PROVE  /\ \A a \in Actors : Capture(a) =>
              /\ receipt'.handle = 0
              /\ \A x \in Actors : captured'[x].handle \in {captured[x].handle, current}
         /\ \A a \in Actors : \A phase : Unconfirmed(a, phase) =>
              /\ current' = current /\ alive' = alive /\ receipt' = receipt
              /\ \A x \in Actors : captured'[x].handle \in {captured[x].handle, 0}
         /\ Restore =>
              /\ receipt' = receipt \/ receipt'.handle = 0
              /\ \A x \in Actors : captured'[x].handle = captured[x].handle
<1>1. captured \in [Actors -> Targets] /\ NoTarget.handle = 0
  BY TargetFacts DEF IInv, StopTypes
<1>2. TargetOf(current).handle = current
  BY DEF TargetOf
<1>3. \A t : [NoTarget EXCEPT !.handle = t].handle = t
  BY DEF NoTarget
<1>4. \A a \in Actors : Capture(a) =>
              /\ receipt'.handle = 0
              /\ \A x \in Actors : captured'[x].handle \in {captured[x].handle, current}
  BY <1>1, <1>2 DEF Capture
<1>5. \A a \in Actors : \A phase : Unconfirmed(a, phase) =>
              /\ current' = current /\ alive' = alive /\ receipt' = receipt
              /\ \A x \in Actors : captured'[x].handle \in {captured[x].handle, 0}
  BY <1>1 DEF Unconfirmed
<1>6. Restore =>
              /\ receipt' = receipt \/ receipt'.handle = 0
              /\ \A x \in Actors : captured'[x].handle = captured[x].handle
  BY <1>1, <1>3 DEF Restore, stopVars
<1> QED BY <1>4, <1>5, <1>6

\* The starts of the instance.
LEMMA StarterUsesWorkers ==
  ASSUME IInv, TargetsInstalled, StarterStep
  PROVE  TargetsInstalled' /\ [Workers!Next]_(Workers!vars)
<1> USE DEF workerVars, stopVars
<1>0. "starter" \in Actors /\ current \in Nat
  BY TargetFacts DEF Actors
<1>1. CASE Dequeue \/ LeftQueue \/ TakeGate \/ BeginDrain \/ Launch \/ LaunchFails \/ Commit
           \/ Fail \/ SetOutcome \/ Finish
  <2>1. UNCHANGED <<current, alive, captured, receipt>>
    BY <1>1 DEF Dequeue, LeftQueue, TakeGate, BeginDrain, Launch, LaunchFails, Commit, Fail,
       SetOutcome, Finish
  <2> QED BY <2>1, QuietWorkers
<1>2. CASE LeaveQueue \/ FailBeforeDrain \/ CancelBeforeDrain \/ CancelDrain
  <2>1. UNCHANGED <<current, alive>> /\ (Restore \/ UNCHANGED <<captured, receipt>>)
    BY <1>2 DEF LeaveQueue, FailBeforeDrain, CancelBeforeDrain, CancelDrain
  <2> QED BY <2>1, TargetSteps, QuietWorkers
<1>3. CASE CaptureOld \/ Verify
  <2>1. UNCHANGED <<current, alive>> /\ (Capture("starter") \/ UNCHANGED <<captured, receipt>>)
    BY <1>3 DEF CaptureOld, Verify
  <2> QED BY <1>0, <2>1, TargetSteps, QuietWorkers
<1>4. CASE StopOld \/ CleanUp
  <2>1. Confirmed("starter") \/ \E phase : Unconfirmed("starter", phase)
    BY <1>4 DEF StopOld, CleanUp
  <2> QED BY <1>0, <2>1, TargetSteps, ConfirmedWorkers, QuietWorkers
<1>5. CASE StartReturns
  <2>1. /\ UNCHANGED <<current, captured, receipt>>
        /\ alive' = alive \/ alive' = alive \ {current}
    BY <1>5 DEF StartReturns
  <2>2. alive' = alive \/ \E h \in alive : alive' = alive \ {h}
    BY <2>1, TargetFacts
  <2> QED BY <2>1, <2>2, QuietWorkers
<1>6. CASE StartWorker
  <2>1. /\ current \notin alive /\ current' = current + 1 /\ alive' = alive \cup {current + 1}
        /\ UNCHANGED <<captured, receipt>>
    BY <1>6 DEF StartWorker
  <2>2. TargetsInstalled'
    BY <2>1, TargetFacts DEF TargetsInstalled
  <2>3. receiptHandles' = receiptHandles
    BY <2>1 DEF receiptHandles
  <2> QED BY <2>1, <2>2, <2>3 DEF Workers!Next, Workers!Install
<1> QED BY <1>1, <1>2, <1>3, <1>4, <1>5, <1>6 DEF StarterStep

\* Everybody else.
LEMMA OthersUseWorkers ==
  ASSUME IInv, TargetsInstalled, [Next]_vars, ~StarterStep
  PROVE  TargetsInstalled' /\ [Workers!Next]_(Workers!vars)
<1> USE DEF workerVars, stopVars
<1>1. CASE ScheduleStart \/ CancelStart \/ Install \/ Progress \/ Claim \/ PickVictim \/ MarkVictim
           \/ Snapshot \/ Reconcile \/ UNCHANGED vars
  <2>1. UNCHANGED <<current, alive, captured, receipt>>
    BY <1>1 DEF ScheduleStart, CancelStart, Install, Progress, Claim, PickVictim, MarkVictim,
       Snapshot, Reconcile, vars
  <2> QED BY <2>1, QuietWorkers
<1>2. ASSUME NEW c \in Closers,
             \/ ScheduleClose(c) \/ CancelClose(c) \/ CancelActive(c) \/ TakeGateToClose(c)
             \/ BeginClose(c) \/ CompleteClose(c) \/ FinishClose(c)
      PROVE  UNCHANGED <<current, alive, captured, receipt>>
  BY <1>2 DEF ScheduleClose, CancelClose, CancelActive, TakeGateToClose, BeginClose,
     CompleteClose, FinishClose
<1>3. ASSUME NEW c \in Closers, CaptureToClose(c)
      PROVE  TargetsInstalled' /\ [Workers!Next]_(Workers!vars)
  BY <1>3, TargetSteps, QuietWorkers DEF CaptureToClose, Actors
<1>4. ASSUME NEW c \in Closers, StopToClose(c)
      PROVE  TargetsInstalled' /\ [Workers!Next]_(Workers!vars)
  <2>1. c \in Actors /\ (Confirmed(c) \/ \E phase : Unconfirmed(c, phase))
    BY <1>4 DEF StopToClose, Actors
  <2> QED BY <2>1, TargetSteps, ConfirmedWorkers, QuietWorkers
<1>5. CASE CaptureVictim \/ StopVictim \/ TakeReceipt \/ FinalizeVictim
  <2>1. "guard" \in Actors
    BY <1>5 DEF CaptureVictim, StopVictim, TakeReceipt, FinalizeVictim, IInv, StopHitsCurrent, Actors
  <2>2. CASE CaptureVictim
    BY <2>1, <2>2, TargetSteps, QuietWorkers DEF CaptureVictim
  <2>3. CASE StopVictim
    <3>1. Confirmed("guard") \/ \E phase : Unconfirmed("guard", phase)
      BY <2>3 DEF StopVictim
    <3> QED BY <2>1, <3>1, TargetSteps, ConfirmedWorkers, QuietWorkers
  <2>4. CASE TakeReceipt \/ FinalizeVictim
    <3>1. /\ UNCHANGED <<current, alive>>
          /\ receipt' \in {receipt, NoTarget}
          /\ captured' \in {[captured EXCEPT !["guard"] = receipt], [captured EXCEPT !["guard"] = NoTarget]}
      BY <2>4 DEF TakeReceipt, FinalizeVictim
    <3>2. \A a \in Actors : captured'[a].handle \in {captured[a].handle, receipt.handle, 0}
      BY <3>1, TargetFacts DEF IInv, StopTypes
    <3> QED BY <3>1, <3>2, TargetFacts, QuietWorkers
  <2> QED BY <1>5, <2>2, <2>3, <2>4
<1>6. CASE Exit
  BY <1>6, QuietWorkers DEF Exit
<1>7. ASSUME NEW r \in reapers, ReaperCheck(r) \/ Reap(r)
      PROVE  UNCHANGED <<current, alive, captured, receipt>>
  BY <1>7 DEF ReaperCheck, Reap
<1>8. ASSUME NEW h \in Handles, Monitor(h)
      PROVE  UNCHANGED <<current, alive, captured, receipt>>
  BY <1>8 DEF Monitor
<1>9. CASE UNCHANGED <<current, alive, captured, receipt>>
  BY <1>9, QuietWorkers
<1> QED BY <1>1, <1>2, <1>3, <1>4, <1>5, <1>6, <1>7, <1>8, <1>9 DEF Next, CloserStep, GuardStep

\* The life of an instance starts a worker only when the one before is over and keeps
\* a receipt only of a worker that is over: of its workers it uses what the
\* supervisor implements (Supervisor.tla, ImplementsWorkers), and no more.
THEOREM WorkersAsImplemented == Spec => Workers!Spec
<1>1. Init => TargetsInstalled /\ Workers!Init
  BY DEF Init, TargetsInstalled, NoTarget, Workers!Init, receiptHandles
<1>2. IInv /\ TargetsInstalled /\ [Next]_vars => TargetsInstalled' /\ [Workers!Next]_(Workers!vars)
  BY StarterUsesWorkers, OthersUseWorkers
<1> QED BY <1>1, <1>2, Invariance, PTL DEF Spec, Workers!Spec
=============================================================================

-------------------------- MODULE SupervisorProofs --------------------------
(***************************************************************************)
(* Proofs about the worker processes of one instance, for any number of    *)
(* starts and any number of times the guard leaves its emergency.  The     *)
(* inductive invariant says who may be at work while a start is on its way *)
(* to the spawn, and what is known of a handle before it has a process.    *)
(***************************************************************************)
EXTENDS Supervisor, TLAPS

\* Nothing has asked for the end of a start: neither guard nor shutdown.
Quiet == NeverRelaxed /\ guard = "normal" /\ ~shuttingDown

\* Only installed handles have anything, and a replaced one is terminal.
Installed ==
  /\ \A h \in Handles : h \in done \/ process[h] # "none" \/ watch[h] # "none" => h <= current
  /\ \A h \in Handles : h < current => state[h] \in Terminal
  /\ pc # "idle" => current # 0

\* What the start and the watch goroutine have done so far.
Progress ==
  /\ pc \in {"preparing", "admitting", "spawning"} => process[current] = "none"
  /\ pc \in {"aborting", "closing"} => process[current] # "alive"
  /\ pc \notin {"idle", "preparing", "aborting", "closing"} => state[current] # "queued"
  /\ \A h \in Handles : state[h] = "queued" => process[h] = "none"
  /\ \A h \in Handles : watch[h] = "written" => process[h] = "dead"

\* The spawn gate keeps the guard state and the shutdown flag as they were admitted.
GateHolds == SpawnGateHeld => guard = "normal" /\ ~shuttingDown

\* Who stops a handle, and which.
StopsInOrder ==
  /\ stopping["owner"] # "idle" => pc = "idle"
  /\ stopping["starter"] # "idle" => pc = "unhealthy"
  /\ stopping["shutdown"] # "idle" => shuttingDown
  /\ NeverRelaxed /\ stopping["guard"] # "idle" => guard = "emergency"
  /\ \A s \in Stoppers : target[s] <= current
  /\ \A s \in Stoppers : stopping[s] \notin {"idle", "confirmed", "unconfirmed"} => target[s] # 0

\* A handle that is failed by a stop never gets a process.
FailedUnspawned ==
  NeverRelaxed =>
    \A s \in Stoppers : stopping[s] \in {"failing", "closing"} => process[target[s]] # "alive"

\* Before its spawn, nobody but the start itself has touched the handle of a quiet start.
Untouched ==
  Quiet /\ pc \in {"preparing", "admitting", "spawning"}
    => current \notin done /\ state[current] \in {"queued", "starting"}

\* A closed channel means that there is no process.
DoneMeansGone == NeverRelaxed => \A h \in done : process[h] # "alive"

\* What is started after the shutdown has looked is not spawned.
NothingAfterShutdown ==
  NeverRelaxed /\ stopping["shutdown"] # "idle" =>
    \A h \in Handles : h > target["shutdown"] => process[h] # "alive"

IInv ==
  /\ TypeOK /\ StoppedMeansGone /\ ShutdownIsFinal
  /\ Installed /\ Progress /\ GateHolds /\ StopsInOrder
  /\ FailedUnspawned /\ Untouched /\ DoneMeansGone /\ NothingAfterShutdown

\* The types, action by action, where they take an argument of their own.
LEMMA StartType == ASSUME IInv, Start PROVE TypeOK'
<1>0. current + 1 \in Handles /\ current \in Nat
  BY SupervisorAssumption DEF IInv, TypeOK, Start, Handles
<1>1. \A h \in Handles : state'[h] = IF h = current + 1 THEN "queued" ELSE state[h]
  BY <1>0 DEF IInv, TypeOK, Start
<1>2. \A h \in Handles : h > current + 1 <=> h > current /\ h # current + 1
  BY <1>0 DEF Handles
<1>3. /\ state' \in [Handles -> {"none", "queued", "starting", "ready", "draining"} \cup Terminal]
      /\ \A h \in Handles : state'[h] = "none" <=> h > current'
  BY <1>0, <1>1, <1>2 DEF IInv, TypeOK, Start
<1>4. current' \in 0..MaxHandles
  BY <1>0, SupervisorAssumption DEF Start, Handles
<1>5. target' \in [Stoppers -> 0..MaxHandles]
  BY DEF IInv, TypeOK, Start, stopVars
<1> QED BY <1>3, <1>4, <1>5 DEF IInv, TypeOK, Start, stopVars, guardVars

LEMMA AbortType == ASSUME IInv, Abort PROVE TypeOK'
<1>0. current \in Handles
  BY SupervisorAssumption DEF IInv, TypeOK, Abort, Installed, Handles
<1>1. \A h \in Handles : state'[h] = IF h = current /\ pc = "aborting" THEN "failed" ELSE state[h]
  BY <1>0 DEF IInv, TypeOK, Abort, WriteFailed, CloseDone
<1>2. /\ state' \in [Handles -> {"none", "queued", "starting", "ready", "draining"} \cup Terminal]
  BY <1>0 DEF IInv, TypeOK, Abort, WriteFailed, CloseDone, Terminal
<1>3. \A h \in Handles : state'[h] = "none" <=> h > current'
  BY <1>0, <1>1 DEF IInv, TypeOK, Abort, WriteFailed, CloseDone, Handles
<1> QED BY <1>0, <1>2, <1>3 DEF IInv, TypeOK, Abort, WriteFailed, CloseDone, stopVars,
           guardVars

\* An aborted start closes done of a handle that never had a process.
LEMMA AbortDone == ASSUME IInv, Abort PROVE DoneMeansGone'
<1>1. relaxations' = relaxations /\ process' = process
  BY DEF Abort, WriteFailed, CloseDone, guardVars
<1>2. done' \subseteq done \cup (IF pc = "closing" THEN {current} ELSE {})
  BY DEF Abort, WriteFailed, CloseDone
<1>3. pc = "closing" => process[current] # "alive"
  BY DEF IInv, Progress
<1> QED BY <1>1, <1>2, <1>3 DEF IInv, DoneMeansGone, NeverRelaxed

\* A stop begins where its caller may, and with the installed handle.
LEMMA CaptureStops == ASSUME IInv, NEW s \in Stoppers, Capture(s) PROVE StopsInOrder'
<1>1. target' = [target EXCEPT ![s] = current] /\ current' = current /\ current \in Nat
  BY DEF IInv, TypeOK, Capture, handleVars
<1>2. \A x \in Stoppers : target'[x] <= current'
  BY <1>1 DEF IInv, TypeOK, StopsInOrder
<1>3. stopping' = [stopping EXCEPT ![s] = IF current = 0 THEN "confirmed" ELSE "captured"]
  BY DEF Capture, GotoStop
<1>4. \A x \in Stoppers :
        stopping'[x] \notin {"idle", "confirmed", "unconfirmed"} => target'[x] # 0
  BY <1>1, <1>3 DEF IInv, TypeOK, StopsInOrder
<1>5. UNCHANGED <<pc, guard, shuttingDown, relaxations>>
  BY DEF Capture, guardVars, startVars
<1>6. MayStop(s)
  BY DEF Capture
<1>7. /\ stopping'["owner"] # "idle" => pc = "idle"
      /\ stopping'["starter"] # "idle" => pc = "unhealthy"
      /\ stopping'["shutdown"] # "idle" => shuttingDown
      /\ NeverRelaxed /\ stopping'["guard"] # "idle" => guard = "emergency"
  BY <1>3, <1>6 DEF IInv, TypeOK, StopsInOrder, MayStop, Stoppers
<1> QED BY <1>2, <1>4, <1>5, <1>7 DEF StopsInOrder, NeverRelaxed

\* A stop at work has a handle, which is installed.
LEMMA TargetInstalled ==
  ASSUME IInv, NEW s \in Stoppers,
         stopping[s] \notin {"idle", "confirmed", "unconfirmed"}
  PROVE  target[s] \in Handles /\ target[s] <= current /\ state[target[s]] # "none"
<1>1. target[s] \in 0..MaxHandles /\ target[s] # 0 /\ target[s] <= current
  BY DEF IInv, TypeOK, StopsInOrder
<1>2. target[s] \in Handles /\ current \in Nat
  BY <1>1, SupervisorAssumption DEF IInv, TypeOK, Handles
<1> QED BY <1>1, <1>2 DEF IInv, TypeOK

LEMMA MarkType == ASSUME IInv, NEW s \in Stoppers, Mark(s) PROVE TypeOK'
<1>1. stopping[s] = "captured"
  BY DEF Mark
<1>2. target[s] \in Handles /\ state[target[s]] # "none"
  BY <1>1, TargetInstalled
<1>3. /\ state' = state \/ state' = [state EXCEPT ![target[s]] = "draining"]
      /\ override' = override \/ \E t \in Terminal : override' = [override EXCEPT ![target[s]] = t]
  BY <1>2 DEF IInv, TypeOK, Mark, Terminal
<1>4. current' = current /\ \A h \in Handles : state'[h] = "none" <=> state[h] = "none"
  BY <1>2, <1>3 DEF IInv, TypeOK, Mark
<1>5. /\ state' \in [Handles -> {"none", "queued", "starting", "ready", "draining"} \cup Terminal]
      /\ override' \in [Handles -> Terminal \cup {"none"}]
  BY <1>3 DEF IInv, TypeOK
<1>6. stopping' \in [Stoppers -> {"idle", "captured", "marked", "failing", "closing",
                     "signalled", "killed", "confirmed", "unconfirmed"}]
  BY DEF IInv, TypeOK, Mark, GotoStop
<1> QED BY <1>4, <1>5, <1>6 DEF IInv, TypeOK, Mark, guardVars, startVars

LEMMA SignalType == ASSUME IInv, NEW s \in Stoppers, Signal(s) PROVE TypeOK'
<1>1. stopping[s] = "marked"
  BY DEF Signal
<1>2. target[s] \in Handles
  BY <1>1, TargetInstalled
<1>3. stopping' \in [Stoppers -> {"idle", "captured", "marked", "failing", "closing",
                     "signalled", "killed", "confirmed", "unconfirmed"}]
  BY DEF IInv, TypeOK, Signal, GotoStop
<1>4. killed' \subseteq Handles
  BY <1>2 DEF IInv, TypeOK, Signal
<1> QED BY <1>3, <1>4 DEF IInv, TypeOK, Signal, guardVars, startVars

LEMMA EscalateType == ASSUME IInv, NEW s \in Stoppers, Escalate(s) PROVE TypeOK'
<1>1. stopping[s] = "signalled"
  BY DEF Escalate
<1>2. target[s] \in Handles
  BY <1>1, TargetInstalled
<1>3. stopping' \in [Stoppers -> {"idle", "captured", "marked", "failing", "closing",
                     "signalled", "killed", "confirmed", "unconfirmed"}]
  BY DEF IInv, TypeOK, Escalate, GotoStop
<1> QED BY <1>2, <1>3 DEF IInv, TypeOK, Escalate, guardVars, startVars

LEMMA FailTargetType == ASSUME IInv, NEW s \in Stoppers, FailTarget(s) PROVE TypeOK'
<1>1. stopping[s] \in {"failing", "closing"}
  BY DEF FailTarget
<1>2. target[s] \in Handles /\ state[target[s]] # "none"
  BY <1>1, TargetInstalled
<1>3. /\ state' = state \/ state' = [state EXCEPT ![target[s]] = "failed"]
      /\ done' \subseteq Handles
  BY <1>2 DEF IInv, TypeOK, FailTarget, WriteFailed, CloseDone
<1>4. current' = current /\ \A h \in Handles : state'[h] = "none" <=> state[h] = "none"
  BY <1>2, <1>3 DEF IInv, TypeOK, FailTarget, WriteFailed, CloseDone
<1>5. state' \in [Handles -> {"none", "queued", "starting", "ready", "draining"} \cup Terminal]
  BY <1>3 DEF IInv, TypeOK, Terminal
<1>6. stopping' \in [Stoppers -> {"idle", "captured", "marked", "failing", "closing",
                     "signalled", "killed", "confirmed", "unconfirmed"}]
  BY DEF IInv, TypeOK, FailTarget, GotoStop
<1> QED
  BY <1>3, <1>4, <1>5, <1>6 DEF IInv, TypeOK, FailTarget, WriteFailed, CloseDone,
     guardVars, startVars

\* A stop that fails its target closes done of a handle that never had a process.
LEMMA FailTargetDone == ASSUME IInv, NEW s \in Stoppers, FailTarget(s) PROVE DoneMeansGone'
<1>1. relaxations' = relaxations /\ process' = process
  BY DEF FailTarget, WriteFailed, CloseDone, guardVars
<1>2. done' \subseteq done \cup (IF stopping[s] = "closing" THEN {target[s]} ELSE {})
  BY DEF FailTarget, WriteFailed, CloseDone
<1> QED BY <1>1, <1>2 DEF IInv, DoneMeansGone, NeverRelaxed, FailedUnspawned

\* One lemma for each action: it preserves IInv, conjunct by conjunct.
LEMMA StartIInv == ASSUME IInv, Start PROVE IInv'
<1>1. ShutdownIsFinal' /\ FailedUnspawned' /\ DoneMeansGone' /\ NothingAfterShutdown'
  BY DEF IInv, ShutdownIsFinal, NeverRelaxed, FailedUnspawned, DoneMeansGone,
     NothingAfterShutdown, Start, stopVars, guardVars
<1>2. TypeOK'
  BY StartType
<1>3. StoppedMeansGone'
  BY SupervisorAssumption DEF IInv, StoppedMeansGone, Start, stopVars, guardVars,
     Terminal, NeverRelaxed
<1>4. Installed'
  BY SupervisorAssumption DEF IInv, Installed, Start, stopVars, guardVars, Handles,
     TypeOK
<1>5. Progress'
  BY SupervisorAssumption DEF IInv, Progress, Start, stopVars, guardVars, TypeOK,
     Installed
<1>6. GateHolds'
  BY SupervisorAssumption DEF IInv, GateHolds, Start, stopVars, guardVars,
     SpawnGateHeld, Terminal
<1>7. StopsInOrder'
  BY SupervisorAssumption DEF IInv, StopsInOrder, Start, stopVars, guardVars,
     NeverRelaxed, TypeOK
<1>8. Untouched'
  BY SupervisorAssumption DEF IInv, Untouched, Start, stopVars, guardVars, TypeOK,
     Installed
<1> QED BY <1>1, <1>2, <1>3, <1>4, <1>5, <1>6, <1>7, <1>8 DEF IInv

LEMMA CancelStartIInv == ASSUME IInv, CancelStart PROVE IInv'
<1>1. ShutdownIsFinal' /\ Progress' /\ GateHolds' /\ StopsInOrder' /\ FailedUnspawned'
   /\ Untouched' /\ DoneMeansGone' /\ NothingAfterShutdown'
  BY DEF IInv, ShutdownIsFinal, NeverRelaxed, Progress, GateHolds, SpawnGateHeld,
     StopsInOrder, FailedUnspawned, Untouched, Quiet, DoneMeansGone,
     NothingAfterShutdown, CancelStart, stopVars, handleVars, guardVars
<1>2. TypeOK'
  BY DEF IInv, TypeOK, CancelStart, stopVars, handleVars, guardVars
<1>3. StoppedMeansGone'
  BY SupervisorAssumption DEF IInv, StoppedMeansGone, CancelStart, stopVars, handleVars,
     guardVars, NeverRelaxed
<1>4. Installed'
  BY DEF IInv, Installed, CancelStart, stopVars, handleVars, guardVars
<1> QED BY <1>1, <1>2, <1>3, <1>4 DEF IInv

LEMMA PrepareIInv == ASSUME IInv, Prepare PROVE IInv'
<1>1. ShutdownIsFinal' /\ FailedUnspawned' /\ DoneMeansGone' /\ NothingAfterShutdown'
  BY DEF IInv, ShutdownIsFinal, NeverRelaxed, FailedUnspawned, DoneMeansGone,
     NothingAfterShutdown, Prepare, stopVars, guardVars
<1>2. TypeOK'
  BY DEF IInv, TypeOK, Prepare, stopVars, guardVars
<1>3. StoppedMeansGone'
  BY SupervisorAssumption DEF IInv, StoppedMeansGone, Prepare, guardVars, Terminal,
     NeverRelaxed, TypeOK
<1>4. Installed'
  BY SupervisorAssumption DEF IInv, Installed, Prepare, stopVars, guardVars, Terminal,
     TypeOK
<1>5. Progress'
  BY SupervisorAssumption DEF IInv, Progress, Prepare, stopVars, Handles, TypeOK,
     Installed
<1>6. GateHolds'
  BY SupervisorAssumption DEF IInv, GateHolds, Prepare, stopVars, guardVars,
     SpawnGateHeld, TypeOK
<1>7. StopsInOrder'
  BY SupervisorAssumption DEF IInv, StopsInOrder, Prepare, stopVars, guardVars,
     Stoppers, NeverRelaxed
<1>8. Untouched'
  BY SupervisorAssumption DEF IInv, Untouched, Prepare, guardVars, Quiet, NeverRelaxed,
     TypeOK
<1> QED BY <1>1, <1>2, <1>3, <1>4, <1>5, <1>6, <1>7, <1>8 DEF IInv

LEMMA AdmitIInv == ASSUME IInv, Admit PROVE IInv'
<1>1. ShutdownIsFinal' /\ FailedUnspawned' /\ DoneMeansGone' /\ NothingAfterShutdown'
  BY DEF IInv, ShutdownIsFinal, NeverRelaxed, FailedUnspawned, DoneMeansGone,
     NothingAfterShutdown, Admit, stopVars, handleVars, guardVars
<1>2. TypeOK'
  BY DEF IInv, TypeOK, Admit, stopVars, handleVars, guardVars
<1>3. StoppedMeansGone'
  BY SupervisorAssumption DEF IInv, StoppedMeansGone, Admit, stopVars, handleVars,
     guardVars, NeverRelaxed
<1>4. Installed'
  BY DEF IInv, Installed, Admit, stopVars, handleVars, guardVars
<1>5. Progress'
  BY DEF IInv, Progress, Admit, stopVars, handleVars, guardVars
<1>6. GateHolds'
  BY SupervisorAssumption DEF IInv, GateHolds, Admit, stopVars, handleVars, guardVars,
     SpawnGateHeld
<1>7. StopsInOrder'
  BY SupervisorAssumption DEF IInv, StopsInOrder, Admit, stopVars, handleVars,
     guardVars, NeverRelaxed
<1>8. Untouched'
  BY SupervisorAssumption DEF IInv, Untouched, Admit, handleVars, guardVars, Quiet,
     NeverRelaxed
<1> QED BY <1>1, <1>2, <1>3, <1>4, <1>5, <1>6, <1>7, <1>8 DEF IInv

LEMMA SpawnIInv == ASSUME IInv, Spawn PROVE IInv'
<1>1. TypeOK'
  BY DEF IInv, TypeOK, Spawn, stopVars, guardVars
<1>2. StoppedMeansGone'
  BY SupervisorAssumption DEF IInv, StoppedMeansGone, Spawn, stopVars, guardVars,
     Terminal, NeverRelaxed, Handles, TypeOK, Installed, Progress, GateHolds,
     SpawnGateHeld, Untouched, Quiet
<1>3. ShutdownIsFinal'
  BY SupervisorAssumption DEF IInv, ShutdownIsFinal, Spawn, stopVars, guardVars,
     NeverRelaxed, Handles, TypeOK, Installed, Progress, StopsInOrder, GateHolds,
     SpawnGateHeld
<1>4. Installed'
  BY SupervisorAssumption DEF IInv, Installed, Spawn, stopVars, guardVars, Terminal,
     TypeOK
<1>5. Progress'
  BY SupervisorAssumption DEF IInv, Progress, Spawn, stopVars, guardVars, Handles,
     TypeOK
<1>6. GateHolds'
  BY SupervisorAssumption DEF IInv, GateHolds, Spawn, stopVars, guardVars,
     SpawnGateHeld, TypeOK
<1>7. StopsInOrder'
  BY SupervisorAssumption DEF IInv, StopsInOrder, Spawn, stopVars, guardVars, Stoppers,
     NeverRelaxed
<1>8. FailedUnspawned'
  BY SupervisorAssumption DEF IInv, FailedUnspawned, Spawn, stopVars, guardVars,
     Stoppers, NeverRelaxed, TypeOK, Installed, Progress, StopsInOrder, GateHolds,
     SpawnGateHeld
<1>9. Untouched'
  BY DEF IInv, Untouched, Spawn, stopVars, guardVars
<1>10. DoneMeansGone'
  BY SupervisorAssumption DEF IInv, DoneMeansGone, Spawn, stopVars, guardVars,
     NeverRelaxed, TypeOK, Installed, Progress, StopsInOrder, Terminal, GateHolds,
     SpawnGateHeld, Untouched, Quiet
<1>11. NothingAfterShutdown'
  BY SupervisorAssumption DEF IInv, NothingAfterShutdown, Spawn, stopVars, guardVars,
     NeverRelaxed, Handles, TypeOK, Installed, Progress, StopsInOrder, GateHolds,
     SpawnGateHeld
<1> QED BY <1>1, <1>2, <1>3, <1>4, <1>5, <1>6, <1>7, <1>8, <1>9, <1>10, <1>11 DEF IInv

LEMMA BindIInv == ASSUME IInv, Bind PROVE IInv'
<1>1. TypeOK'
  BY DEF IInv, TypeOK, Bind, stopVars, guardVars
<1>2. StoppedMeansGone'
  BY SupervisorAssumption DEF IInv, StoppedMeansGone, Bind, stopVars, guardVars,
     NeverRelaxed, TypeOK
<1>3. ShutdownIsFinal'
  BY SupervisorAssumption DEF IInv, ShutdownIsFinal, Bind, stopVars, guardVars,
     NeverRelaxed, TypeOK
<1>4. Installed'
  BY SupervisorAssumption DEF IInv, Installed, Bind, stopVars, guardVars, Terminal,
     TypeOK
<1>5. Progress'
  BY SupervisorAssumption DEF IInv, Progress, Bind, stopVars, Handles, TypeOK, Installed
<1>6. GateHolds'
  BY SupervisorAssumption DEF IInv, GateHolds, Bind, stopVars, guardVars, SpawnGateHeld,
     TypeOK
<1>7. StopsInOrder'
  BY SupervisorAssumption DEF IInv, StopsInOrder, Bind, stopVars, guardVars, Stoppers,
     NeverRelaxed
<1>8. FailedUnspawned'
  BY SupervisorAssumption DEF IInv, FailedUnspawned, Bind, stopVars, guardVars,
     Stoppers, NeverRelaxed, TypeOK, Installed, Progress, StopsInOrder, Handles
<1>9. Untouched'
  BY DEF IInv, Untouched, Bind, stopVars, guardVars
<1>10. DoneMeansGone'
  BY SupervisorAssumption DEF IInv, DoneMeansGone, Bind, stopVars, guardVars,
     NeverRelaxed, TypeOK
<1>11. NothingAfterShutdown'
  BY SupervisorAssumption DEF IInv, NothingAfterShutdown, Bind, stopVars, guardVars,
     NeverRelaxed, TypeOK
<1> QED BY <1>1, <1>2, <1>3, <1>4, <1>5, <1>6, <1>7, <1>8, <1>9, <1>10, <1>11 DEF IInv

LEMMA AbortIInv == ASSUME IInv, Abort PROVE IInv'
<1>1. ShutdownIsFinal' /\ FailedUnspawned' /\ NothingAfterShutdown'
  BY DEF IInv, ShutdownIsFinal, NeverRelaxed, FailedUnspawned, NothingAfterShutdown,
     Abort, stopVars, guardVars, WriteFailed, CloseDone
<1>2. TypeOK'
  BY AbortType
<1>3. StoppedMeansGone'
  BY SupervisorAssumption DEF IInv, StoppedMeansGone, Abort, stopVars, guardVars,
     WriteFailed, CloseDone, NeverRelaxed, TypeOK, Progress
<1>4. Installed'
  BY SupervisorAssumption DEF IInv, Installed, Abort, stopVars, WriteFailed, CloseDone,
     TypeOK
<1>5. Progress'
  BY SupervisorAssumption DEF IInv, Progress, Abort, stopVars, WriteFailed, CloseDone,
     TypeOK
<1>6. GateHolds'
  BY SupervisorAssumption DEF IInv, GateHolds, Abort, stopVars, guardVars, WriteFailed,
     SpawnGateHeld
<1>7. StopsInOrder'
  BY SupervisorAssumption DEF IInv, StopsInOrder, Abort, stopVars, guardVars,
     WriteFailed, CloseDone, NeverRelaxed
<1>8. Untouched'
  BY DEF IInv, Untouched, Abort, stopVars, guardVars, WriteFailed, CloseDone
<1>9. DoneMeansGone'
  BY AbortDone
<1> QED BY <1>1, <1>2, <1>3, <1>4, <1>5, <1>6, <1>7, <1>8, <1>9 DEF IInv

LEMMA WaitHealthyIInv == ASSUME IInv, WaitHealthy PROVE IInv'
<1>1. ShutdownIsFinal' /\ FailedUnspawned' /\ DoneMeansGone' /\ NothingAfterShutdown'
  BY DEF IInv, ShutdownIsFinal, NeverRelaxed, FailedUnspawned, DoneMeansGone,
     NothingAfterShutdown, WaitHealthy, stopVars, handleVars, guardVars
<1>2. TypeOK'
  BY DEF IInv, TypeOK, WaitHealthy, stopVars, handleVars, guardVars
<1>3. StoppedMeansGone'
  BY SupervisorAssumption DEF IInv, StoppedMeansGone, WaitHealthy, stopVars, handleVars,
     guardVars, NeverRelaxed
<1>4. Installed'
  BY DEF IInv, Installed, WaitHealthy, stopVars, handleVars, guardVars
<1>5. Progress'
  BY DEF IInv, Progress, WaitHealthy, stopVars, handleVars, guardVars
<1>6. GateHolds'
  BY SupervisorAssumption DEF IInv, GateHolds, WaitHealthy, stopVars, handleVars,
     guardVars, SpawnGateHeld
<1>7. StopsInOrder'
  BY SupervisorAssumption DEF IInv, StopsInOrder, WaitHealthy, stopVars, handleVars,
     guardVars, NeverRelaxed
<1>8. Untouched'
  BY DEF IInv, Untouched, WaitHealthy, stopVars, handleVars, guardVars
<1> QED BY <1>1, <1>2, <1>3, <1>4, <1>5, <1>6, <1>7, <1>8 DEF IInv

LEMMA MarkReadyIInv == ASSUME IInv, MarkReady PROVE IInv'
<1>1. ShutdownIsFinal' /\ FailedUnspawned' /\ DoneMeansGone' /\ NothingAfterShutdown'
  BY DEF IInv, ShutdownIsFinal, NeverRelaxed, FailedUnspawned, DoneMeansGone,
     NothingAfterShutdown, MarkReady, stopVars, guardVars
<1>2. TypeOK'
  BY DEF IInv, TypeOK, MarkReady, stopVars, guardVars
<1>3. StoppedMeansGone'
  BY SupervisorAssumption DEF IInv, StoppedMeansGone, MarkReady, guardVars, Terminal,
     NeverRelaxed, TypeOK
<1>4. Installed'
  BY SupervisorAssumption DEF IInv, Installed, MarkReady, stopVars, guardVars, Terminal,
     TypeOK
<1>5. Progress'
  BY SupervisorAssumption DEF IInv, Progress, MarkReady, stopVars, guardVars, Handles,
     TypeOK
<1>6. GateHolds'
  BY SupervisorAssumption DEF IInv, GateHolds, MarkReady, stopVars, guardVars,
     SpawnGateHeld, TypeOK
<1>7. StopsInOrder'
  BY SupervisorAssumption DEF IInv, StopsInOrder, MarkReady, stopVars, guardVars,
     Stoppers, NeverRelaxed
<1>8. Untouched'
  BY DEF IInv, Untouched, MarkReady, stopVars, guardVars
<1> QED BY <1>1, <1>2, <1>3, <1>4, <1>5, <1>6, <1>7, <1>8 DEF IInv

LEMMA ReturnUnhealthyIInv == ASSUME IInv, ReturnUnhealthy PROVE IInv'
<1>1. DoneMeansGone'
  BY DEF IInv, DoneMeansGone, NeverRelaxed, ReturnUnhealthy, handleVars, guardVars
<1>2. TypeOK'
  BY DEF IInv, TypeOK, ReturnUnhealthy, handleVars, guardVars
<1>3. StoppedMeansGone'
  BY SupervisorAssumption DEF IInv, StoppedMeansGone, ReturnUnhealthy, handleVars,
     guardVars, Terminal, NeverRelaxed
<1>4. ShutdownIsFinal'
  BY SupervisorAssumption DEF IInv, ShutdownIsFinal, ReturnUnhealthy, handleVars,
     guardVars, NeverRelaxed, Handles
<1>5. Installed'
  BY DEF IInv, Installed, ReturnUnhealthy, handleVars, guardVars
<1>6. Progress'
  BY DEF IInv, Progress, ReturnUnhealthy, handleVars, guardVars
<1>7. GateHolds'
  BY SupervisorAssumption DEF IInv, GateHolds, ReturnUnhealthy, handleVars, guardVars,
     SpawnGateHeld, TypeOK
<1>8. StopsInOrder'
  BY SupervisorAssumption DEF IInv, StopsInOrder, ReturnUnhealthy, handleVars,
     guardVars, Stoppers, NeverRelaxed, TypeOK
<1>9. FailedUnspawned'
  BY SupervisorAssumption DEF IInv, FailedUnspawned, ReturnUnhealthy, handleVars,
     guardVars, Stoppers, NeverRelaxed
<1>10. Untouched'
  BY DEF IInv, Untouched, ReturnUnhealthy, handleVars, guardVars
<1>11. NothingAfterShutdown'
  BY SupervisorAssumption DEF IInv, NothingAfterShutdown, ReturnUnhealthy, handleVars,
     guardVars, NeverRelaxed, Handles
<1> QED BY <1>1, <1>2, <1>3, <1>4, <1>5, <1>6, <1>7, <1>8, <1>9, <1>10, <1>11 DEF IInv

LEMMA ExitIInv == ASSUME IInv, NEW h \in Handles, Exit(h) PROVE IInv'
<1>1. GateHolds' /\ StopsInOrder' /\ Untouched'
  BY DEF IInv, GateHolds, SpawnGateHeld, StopsInOrder, NeverRelaxed, Untouched, Quiet,
     Exit, stopVars, startVars, guardVars
<1>2. TypeOK'
  BY DEF IInv, TypeOK, Exit, stopVars, startVars, guardVars
<1>3. StoppedMeansGone'
  BY SupervisorAssumption DEF IInv, StoppedMeansGone, Exit, stopVars, startVars,
     guardVars, NeverRelaxed
<1>4. ShutdownIsFinal'
  BY SupervisorAssumption DEF IInv, ShutdownIsFinal, Exit, stopVars, startVars,
     guardVars, NeverRelaxed
<1>5. Installed'
  BY DEF IInv, Installed, Exit, stopVars, startVars, guardVars
<1>6. Progress'
  BY DEF IInv, Progress, Exit, stopVars, startVars, guardVars
<1>7. FailedUnspawned'
  BY SupervisorAssumption DEF IInv, FailedUnspawned, Exit, stopVars, startVars,
     guardVars, NeverRelaxed
<1>8. DoneMeansGone'
  BY SupervisorAssumption DEF IInv, DoneMeansGone, Exit, stopVars, startVars, guardVars,
     NeverRelaxed
<1>9. NothingAfterShutdown'
  BY SupervisorAssumption DEF IInv, NothingAfterShutdown, Exit, stopVars, startVars,
     guardVars, NeverRelaxed
<1> QED BY <1>1, <1>2, <1>3, <1>4, <1>5, <1>6, <1>7, <1>8, <1>9 DEF IInv

LEMMA WatchWriteIInv == ASSUME IInv, NEW h \in Handles, WatchWrite(h) PROVE IInv'
<1>1. ShutdownIsFinal' /\ GateHolds' /\ StopsInOrder' /\ FailedUnspawned' /\
   DoneMeansGone' /\ NothingAfterShutdown'
  BY DEF IInv, ShutdownIsFinal, NeverRelaxed, GateHolds, SpawnGateHeld, StopsInOrder,
     FailedUnspawned, DoneMeansGone, NothingAfterShutdown, WatchWrite, stopVars,
     startVars, guardVars
<1>2. TypeOK'
  BY SupervisorAssumption DEF IInv, TypeOK, WatchWrite, stopVars, startVars, guardVars,
     Terminal, Handles, Installed
<1>3. StoppedMeansGone'
  BY SupervisorAssumption DEF IInv, StoppedMeansGone, WatchWrite, stopVars, startVars,
     guardVars, NeverRelaxed
<1>4. Installed'
  BY SupervisorAssumption DEF IInv, Installed, WatchWrite, stopVars, startVars,
     Terminal, TypeOK
<1>5. Progress'
  BY SupervisorAssumption DEF IInv, Progress, WatchWrite, stopVars, startVars,
     guardVars, Handles, TypeOK, Installed, StopsInOrder, Terminal, Stoppers
<1>6. Untouched'
  BY SupervisorAssumption DEF IInv, Untouched, WatchWrite, startVars, guardVars, Quiet,
     NeverRelaxed, Progress
<1> QED BY <1>1, <1>2, <1>3, <1>4, <1>5, <1>6 DEF IInv

LEMMA WatchCloseIInv == ASSUME IInv, NEW h \in Handles, WatchClose(h) PROVE IInv'
<1>1. ShutdownIsFinal' /\ GateHolds' /\ StopsInOrder' /\ FailedUnspawned' /\
   NothingAfterShutdown'
  BY DEF IInv, ShutdownIsFinal, NeverRelaxed, GateHolds, SpawnGateHeld, StopsInOrder,
     FailedUnspawned, NothingAfterShutdown, WatchClose, stopVars, startVars, guardVars
<1>2. TypeOK'
  BY DEF IInv, TypeOK, WatchClose, stopVars, startVars, guardVars
<1>3. StoppedMeansGone'
  BY SupervisorAssumption DEF IInv, StoppedMeansGone, WatchClose, stopVars, startVars,
     guardVars, NeverRelaxed
<1>4. Installed'
  BY DEF IInv, Installed, WatchClose, stopVars, startVars, guardVars
<1>5. Progress'
  BY DEF IInv, Progress, WatchClose, stopVars, startVars, guardVars
<1>6. Untouched'
  BY SupervisorAssumption DEF IInv, Untouched, WatchClose, startVars, guardVars, Quiet,
     NeverRelaxed, Progress
<1>7. DoneMeansGone'
  BY SupervisorAssumption DEF IInv, DoneMeansGone, WatchClose, stopVars, guardVars,
     NeverRelaxed, Progress
<1> QED BY <1>1, <1>2, <1>3, <1>4, <1>5, <1>6, <1>7 DEF IInv

LEMMA CaptureIInv == ASSUME IInv, NEW s \in Stoppers, Capture(s) PROVE IInv'
<1>1. Progress' /\ GateHolds' /\ Untouched' /\ DoneMeansGone'
  BY DEF IInv, Progress, GateHolds, SpawnGateHeld, Untouched, Quiet, NeverRelaxed,
     DoneMeansGone, Capture, startVars, handleVars, guardVars
<1>2. TypeOK'
  BY DEF IInv, TypeOK, Capture, startVars, handleVars, guardVars, GotoStop
<1>3. StoppedMeansGone'
  BY SupervisorAssumption DEF IInv, StoppedMeansGone, Capture, startVars, handleVars,
     guardVars, NeverRelaxed
<1>4. ShutdownIsFinal'
  BY SupervisorAssumption DEF IInv, ShutdownIsFinal, Capture, startVars, handleVars,
     guardVars, GotoStop, NeverRelaxed, Handles, MayStop, TypeOK, Installed, Progress,
     StopsInOrder, Terminal
<1>5. Installed'
  BY DEF IInv, Installed, Capture, startVars, handleVars, guardVars, GotoStop
<1>6. StopsInOrder'
  BY CaptureStops
<1>7. FailedUnspawned'
  BY SupervisorAssumption DEF IInv, FailedUnspawned, Capture, handleVars, guardVars,
     GotoStop, NeverRelaxed
<1>8. NothingAfterShutdown'
  BY SupervisorAssumption DEF IInv, NothingAfterShutdown, Capture, startVars,
     handleVars, guardVars, GotoStop, NeverRelaxed, Handles, TypeOK, Installed
<1> QED BY <1>1, <1>2, <1>3, <1>4, <1>5, <1>6, <1>7, <1>8 DEF IInv

LEMMA MarkIInv == ASSUME IInv, NEW s \in Stoppers, Mark(s) PROVE IInv'
<1>1. GateHolds' /\ DoneMeansGone'
  BY DEF IInv, GateHolds, SpawnGateHeld, DoneMeansGone, NeverRelaxed, Mark, startVars,
     guardVars
<1>2. TypeOK'
  BY MarkType
<1>3. StoppedMeansGone'
  BY SupervisorAssumption DEF IInv, StoppedMeansGone, Mark, guardVars, Terminal,
     NeverRelaxed, TypeOK
<1>4. ShutdownIsFinal'
  BY SupervisorAssumption DEF IInv, ShutdownIsFinal, Mark, startVars, guardVars,
     GotoStop, NeverRelaxed, Handles, Terminal, TypeOK, Installed, Progress, Stoppers,
     StoppedMeansGone, NothingAfterShutdown
<1>5. Installed'
  BY SupervisorAssumption DEF IInv, Installed, Mark, startVars, guardVars, GotoStop,
     TypeOK
<1>6. Progress'
  BY SupervisorAssumption DEF IInv, Progress, Mark, startVars, Handles, TypeOK,
     Installed
<1>7. StopsInOrder'
  BY SupervisorAssumption DEF IInv, StopsInOrder, Mark, startVars, guardVars, GotoStop,
     Stoppers, NeverRelaxed, TypeOK
<1>8. FailedUnspawned'
  BY SupervisorAssumption DEF IInv, FailedUnspawned, Mark, startVars, guardVars,
     GotoStop, Stoppers, NeverRelaxed, Terminal, TypeOK, Installed, Progress,
     StopsInOrder, Handles
<1>9. Untouched'
  BY SupervisorAssumption DEF IInv, Untouched, Mark, startVars, guardVars, GotoStop,
     Quiet, NeverRelaxed, Terminal, TypeOK, Installed, Progress, StopsInOrder, Stoppers
<1>10. NothingAfterShutdown'
  BY SupervisorAssumption DEF IInv, NothingAfterShutdown, Mark, startVars, guardVars,
     GotoStop, NeverRelaxed, Handles, Terminal, TypeOK, Installed, Progress, Stoppers
<1> QED BY <1>1, <1>2, <1>3, <1>4, <1>5, <1>6, <1>7, <1>8, <1>9, <1>10 DEF IInv

LEMMA SignalIInv == ASSUME IInv, NEW s \in Stoppers, Signal(s) PROVE IInv'
<1>1. Progress' /\ GateHolds' /\ Untouched' /\ DoneMeansGone'
  BY DEF IInv, Progress, GateHolds, SpawnGateHeld, Untouched, Quiet, NeverRelaxed,
     DoneMeansGone, Signal, startVars, guardVars
<1>2. TypeOK'
  BY SignalType
<1>3. StoppedMeansGone'
  BY SupervisorAssumption DEF IInv, StoppedMeansGone, Signal, startVars, guardVars,
     GotoStop, NeverRelaxed
<1>4. ShutdownIsFinal'
  BY SupervisorAssumption DEF IInv, ShutdownIsFinal, Signal, startVars, guardVars,
     GotoStop, NeverRelaxed, Handles, TypeOK, Installed, Progress, StopsInOrder,
     Stoppers
<1>5. Installed'
  BY DEF IInv, Installed, Signal, startVars, guardVars, GotoStop
<1>6. StopsInOrder'
  BY SupervisorAssumption DEF IInv, StopsInOrder, Signal, startVars, guardVars,
     GotoStop, Stoppers, NeverRelaxed, TypeOK
<1>7. FailedUnspawned'
  BY SupervisorAssumption DEF IInv, FailedUnspawned, Signal, guardVars, GotoStop,
     NeverRelaxed, TypeOK
<1>8. NothingAfterShutdown'
  BY SupervisorAssumption DEF IInv, NothingAfterShutdown, Signal, startVars, guardVars,
     GotoStop, NeverRelaxed, Handles, TypeOK, Installed, Progress, StopsInOrder,
     Stoppers
<1> QED BY <1>1, <1>2, <1>3, <1>4, <1>5, <1>6, <1>7, <1>8 DEF IInv

LEMMA FailTargetIInv == ASSUME IInv, NEW s \in Stoppers, FailTarget(s) PROVE IInv'
<1>1. GateHolds'
  BY DEF IInv, GateHolds, SpawnGateHeld, FailTarget, startVars, guardVars, WriteFailed
<1>2. TypeOK'
  BY FailTargetType
<1>3. StoppedMeansGone'
  BY SupervisorAssumption DEF IInv, StoppedMeansGone, FailTarget, startVars, guardVars,
     WriteFailed, GotoStop, CloseDone, Terminal, NeverRelaxed, Handles, TypeOK,
     Installed, Progress, FailedUnspawned
<1>4. ShutdownIsFinal'
  BY SupervisorAssumption DEF IInv, ShutdownIsFinal, FailTarget, startVars, guardVars,
     WriteFailed, GotoStop, CloseDone, NeverRelaxed, Handles, TypeOK, Installed,
     Progress, StopsInOrder, Stoppers, StoppedMeansGone, FailedUnspawned,
     NothingAfterShutdown
<1>5. Installed'
  BY SupervisorAssumption DEF IInv, Installed, FailTarget, WriteFailed, CloseDone,
     Terminal, TypeOK, StopsInOrder
<1>6. Progress'
  BY SupervisorAssumption DEF IInv, Progress, FailTarget, startVars, WriteFailed,
     CloseDone, Handles, TypeOK, Installed
<1>7. StopsInOrder'
  BY SupervisorAssumption DEF IInv, StopsInOrder, FailTarget, startVars, guardVars,
     WriteFailed, GotoStop, CloseDone, Stoppers, NeverRelaxed, TypeOK
<1>8. FailedUnspawned'
  BY SupervisorAssumption DEF IInv, FailedUnspawned, FailTarget, guardVars, WriteFailed,
     GotoStop, CloseDone, NeverRelaxed, TypeOK
<1>9. Untouched'
  BY SupervisorAssumption DEF IInv, Untouched, FailTarget, startVars, guardVars,
     WriteFailed, GotoStop, CloseDone, Quiet, NeverRelaxed, TypeOK, Installed, Progress,
     StopsInOrder, Stoppers
<1>10. DoneMeansGone'
  BY FailTargetDone
<1>11. NothingAfterShutdown'
  BY SupervisorAssumption DEF IInv, NothingAfterShutdown, FailTarget, startVars,
     guardVars, WriteFailed, GotoStop, CloseDone, NeverRelaxed, Handles, TypeOK,
     Installed, Progress, StopsInOrder, Stoppers
<1> QED BY <1>1, <1>2, <1>3, <1>4, <1>5, <1>6, <1>7, <1>8, <1>9, <1>10, <1>11 DEF IInv

LEMMA EscalateIInv == ASSUME IInv, NEW s \in Stoppers, Escalate(s) PROVE IInv'
<1>1. Progress' /\ GateHolds' /\ Untouched' /\ DoneMeansGone'
  BY DEF IInv, Progress, GateHolds, SpawnGateHeld, Untouched, Quiet, NeverRelaxed,
     DoneMeansGone, Escalate, startVars, guardVars
<1>2. TypeOK'
  BY EscalateType
<1>3. StoppedMeansGone'
  BY SupervisorAssumption DEF IInv, StoppedMeansGone, Escalate, startVars, guardVars,
     GotoStop, NeverRelaxed
<1>4. ShutdownIsFinal'
  BY SupervisorAssumption DEF IInv, ShutdownIsFinal, Escalate, startVars, guardVars,
     GotoStop, NeverRelaxed
<1>5. Installed'
  BY DEF IInv, Installed, Escalate, startVars, guardVars, GotoStop
<1>6. StopsInOrder'
  BY SupervisorAssumption DEF IInv, StopsInOrder, Escalate, startVars, guardVars,
     GotoStop, NeverRelaxed
<1>7. FailedUnspawned'
  BY SupervisorAssumption DEF IInv, FailedUnspawned, Escalate, startVars, guardVars,
     GotoStop, NeverRelaxed
<1>8. NothingAfterShutdown'
  BY SupervisorAssumption DEF IInv, NothingAfterShutdown, Escalate, startVars,
     guardVars, GotoStop, NeverRelaxed
<1> QED BY <1>1, <1>2, <1>3, <1>4, <1>5, <1>6, <1>7, <1>8 DEF IInv

LEMMA ConfirmIInv == ASSUME IInv, NEW s \in Stoppers, Confirm(s) PROVE IInv'
<1>1. Progress' /\ GateHolds' /\ Untouched' /\ DoneMeansGone'
  BY DEF IInv, Progress, GateHolds, SpawnGateHeld, Untouched, Quiet, NeverRelaxed,
     DoneMeansGone, Confirm, startVars, handleVars, guardVars
<1>2. TypeOK'
  BY DEF IInv, TypeOK, Confirm, startVars, handleVars, guardVars, GotoStop
<1>3. StoppedMeansGone'
  BY SupervisorAssumption DEF IInv, StoppedMeansGone, Confirm, startVars, handleVars,
     guardVars, NeverRelaxed
<1>4. ShutdownIsFinal'
  BY SupervisorAssumption DEF IInv, ShutdownIsFinal, Confirm, startVars, handleVars,
     guardVars, GotoStop, NeverRelaxed, Handles, TypeOK, Installed, Progress,
     StopsInOrder, Stoppers, StoppedMeansGone, DoneMeansGone, NothingAfterShutdown
<1>5. Installed'
  BY DEF IInv, Installed, Confirm, startVars, handleVars, guardVars, GotoStop
<1>6. StopsInOrder'
  BY SupervisorAssumption DEF IInv, StopsInOrder, Confirm, startVars, handleVars,
     guardVars, GotoStop, Stoppers, NeverRelaxed, TypeOK
<1>7. FailedUnspawned'
  BY SupervisorAssumption DEF IInv, FailedUnspawned, Confirm, handleVars, guardVars,
     GotoStop, NeverRelaxed, TypeOK
<1>8. NothingAfterShutdown'
  BY SupervisorAssumption DEF IInv, NothingAfterShutdown, Confirm, startVars,
     handleVars, guardVars, GotoStop, NeverRelaxed, Handles, TypeOK, Installed,
     Progress, StopsInOrder, Stoppers
<1> QED BY <1>1, <1>2, <1>3, <1>4, <1>5, <1>6, <1>7, <1>8 DEF IInv

LEMMA ReturnIInv == ASSUME IInv, NEW s \in Stoppers, Return(s) PROVE IInv'
<1>1. Progress' /\ GateHolds' /\ Untouched' /\ DoneMeansGone'
  BY DEF IInv, Progress, GateHolds, SpawnGateHeld, Untouched, Quiet, NeverRelaxed,
     DoneMeansGone, Return, startVars, handleVars, guardVars
<1>2. TypeOK'
  BY SupervisorAssumption DEF IInv, TypeOK, Return, startVars, handleVars, guardVars,
     GotoStop
<1>3. StoppedMeansGone'
  BY SupervisorAssumption DEF IInv, StoppedMeansGone, Return, startVars, handleVars,
     guardVars, NeverRelaxed
<1>4. ShutdownIsFinal'
  BY SupervisorAssumption DEF IInv, ShutdownIsFinal, Return, handleVars, guardVars,
     GotoStop, NeverRelaxed
<1>5. Installed'
  BY DEF IInv, Installed, Return, startVars, handleVars, guardVars, GotoStop
<1>6. StopsInOrder'
  BY SupervisorAssumption DEF IInv, StopsInOrder, Return, startVars, handleVars,
     guardVars, GotoStop, NeverRelaxed, TypeOK
<1>7. FailedUnspawned'
  BY SupervisorAssumption DEF IInv, FailedUnspawned, Return, handleVars, guardVars,
     GotoStop, NeverRelaxed
<1>8. NothingAfterShutdown'
  BY SupervisorAssumption DEF IInv, NothingAfterShutdown, Return, handleVars, guardVars,
     GotoStop, NeverRelaxed
<1> QED BY <1>1, <1>2, <1>3, <1>4, <1>5, <1>6, <1>7, <1>8 DEF IInv

LEMMA SetGuardIInv == ASSUME IInv, SetGuard PROVE IInv'
<1>1. Progress'
  BY DEF IInv, Progress, SetGuard, stopVars, startVars, handleVars
<1>2. TypeOK'
  BY SupervisorAssumption DEF IInv, TypeOK, SetGuard, stopVars, startVars, handleVars,
     Terminal
<1>3. StoppedMeansGone'
  BY SupervisorAssumption DEF IInv, StoppedMeansGone, SetGuard, stopVars, handleVars,
     NeverRelaxed, TypeOK
<1>4. ShutdownIsFinal'
  BY SupervisorAssumption DEF IInv, ShutdownIsFinal, SetGuard, stopVars, handleVars,
     NeverRelaxed, TypeOK
<1>5. Installed'
  BY DEF IInv, Installed, SetGuard, stopVars, startVars, handleVars
<1>6. GateHolds'
  BY SupervisorAssumption DEF IInv, GateHolds, SetGuard, stopVars, startVars,
     handleVars, SpawnGateHeld
<1>7. StopsInOrder'
  BY SupervisorAssumption DEF IInv, StopsInOrder, SetGuard, stopVars, startVars,
     handleVars, NeverRelaxed, TypeOK
<1>8. FailedUnspawned'
  BY SupervisorAssumption DEF IInv, FailedUnspawned, SetGuard, stopVars, handleVars,
     NeverRelaxed, TypeOK
<1>9. Untouched'
  BY SupervisorAssumption DEF IInv, Untouched, SetGuard, stopVars, Quiet, NeverRelaxed,
     TypeOK
<1>10. DoneMeansGone'
  BY SupervisorAssumption DEF IInv, DoneMeansGone, SetGuard, stopVars, handleVars,
     NeverRelaxed, TypeOK
<1>11. NothingAfterShutdown'
  BY SupervisorAssumption DEF IInv, NothingAfterShutdown, SetGuard, stopVars,
     handleVars, NeverRelaxed, TypeOK
<1> QED BY <1>1, <1>2, <1>3, <1>4, <1>5, <1>6, <1>7, <1>8, <1>9, <1>10, <1>11 DEF IInv

LEMMA BeginShutdownIInv == ASSUME IInv, BeginShutdown PROVE IInv'
<1>1. ShutdownIsFinal' /\ Progress' /\ FailedUnspawned' /\ DoneMeansGone' /\
   NothingAfterShutdown'
  BY DEF IInv, ShutdownIsFinal, NeverRelaxed, Progress, FailedUnspawned, DoneMeansGone,
     NothingAfterShutdown, BeginShutdown, stopVars, startVars, handleVars
<1>2. TypeOK'
  BY DEF IInv, TypeOK, BeginShutdown, stopVars, startVars, handleVars
<1>3. StoppedMeansGone'
  BY SupervisorAssumption DEF IInv, StoppedMeansGone, BeginShutdown, stopVars,
     startVars, handleVars, NeverRelaxed
<1>4. Installed'
  BY DEF IInv, Installed, BeginShutdown, stopVars, startVars, handleVars
<1>5. GateHolds'
  BY SupervisorAssumption DEF IInv, GateHolds, BeginShutdown, stopVars, startVars,
     handleVars, SpawnGateHeld
<1>6. StopsInOrder'
  BY SupervisorAssumption DEF IInv, StopsInOrder, BeginShutdown, stopVars, startVars,
     handleVars, NeverRelaxed
<1>7. Untouched'
  BY SupervisorAssumption DEF IInv, Untouched, BeginShutdown, stopVars, startVars,
     handleVars, Quiet
<1> QED BY <1>1, <1>2, <1>3, <1>4, <1>5, <1>6, <1>7 DEF IInv

LEMMA InitIInv == Init => IInv
<1> SUFFICES ASSUME Init PROVE IInv
  OBVIOUS
<1>0. MaxHandles \in Nat /\ MaxRelaxations \in Nat /\ \A h \in Handles : h \in Nat /\ h > 0
  BY SupervisorAssumption DEF Handles
<1>1. TypeOK
  <2>1. /\ state \in [Handles -> {"none", "queued", "starting", "ready", "draining"} \cup Terminal]
        /\ process \in [Handles -> {"none", "alive", "dead"}]
        /\ override \in [Handles -> Terminal \cup {"none"}]
        /\ watch \in [Handles -> {"none", "waiting", "written", "finished"}]
    BY DEF Init
  <2>2. /\ stopping \in [Stoppers -> {"idle", "captured", "marked", "failing", "closing",
                           "signalled", "killed", "confirmed", "unconfirmed"}]
        /\ target \in [Stoppers -> 0..MaxHandles]
    BY <1>0 DEF Init
  <2>3. current \in 0..MaxHandles /\ \A h \in Handles : state[h] = "none" <=> h > current
    BY <1>0 DEF Init
  <2>4. done \subseteq Handles /\ killed \subseteq Handles /\ relaxations \in 0..MaxRelaxations
    BY <1>0 DEF Init
  <2>5. /\ pc \in {"idle", "preparing", "admitting", "spawning", "binding", "bound",
                   "aborting", "closing", "health", "healthy", "unhealthy"}
        /\ ctxDone \in BOOLEAN /\ shuttingDown \in BOOLEAN /\ guard \in {"normal", "emergency"}
    BY DEF Init
  <2> QED BY <2>1, <2>2, <2>3, <2>4, <2>5 DEF TypeOK
<1>2. Installed /\ Progress /\ GateHolds
  BY <1>0 DEF Init, Installed, Progress, GateHolds, SpawnGateHeld
<1>3. StopsInOrder /\ FailedUnspawned
  BY DEF Init, StopsInOrder, FailedUnspawned, Stoppers
<1>4. StoppedMeansGone /\ ShutdownIsFinal /\ DoneMeansGone /\ NothingAfterShutdown /\ Untouched
  BY DEF Init, StoppedMeansGone, ShutdownIsFinal, DoneMeansGone, NothingAfterShutdown,
     Untouched, Stoppers
<1> QED BY <1>1, <1>2, <1>3, <1>4 DEF IInv

LEMMA StutterIInv == ASSUME IInv, UNCHANGED vars PROVE IInv'
<1>1. TypeOK' /\ StoppedMeansGone' /\ ShutdownIsFinal'
  BY DEF IInv, TypeOK, StoppedMeansGone, ShutdownIsFinal, NeverRelaxed, vars,
     handleVars, guardVars, startVars, stopVars
<1>2. Installed' /\ Progress' /\ GateHolds' /\ StopsInOrder'
  BY DEF IInv, Installed, Progress, GateHolds, SpawnGateHeld, StopsInOrder,
     NeverRelaxed, vars, handleVars, guardVars, startVars, stopVars
<1>3. FailedUnspawned' /\ Untouched' /\ DoneMeansGone' /\ NothingAfterShutdown'
  BY DEF IInv, FailedUnspawned, Untouched, Quiet, DoneMeansGone, NothingAfterShutdown,
     NeverRelaxed, vars, handleVars, guardVars, startVars, stopVars
<1> QED BY <1>1, <1>2, <1>3 DEF IInv

LEMMA NextIInv == IInv /\ [Next]_vars => IInv'
<1> SUFFICES ASSUME IInv, [Next]_vars PROVE IInv'
  OBVIOUS
<1>1. CASE Start \/ CancelStart
  BY <1>1, StartIInv, CancelStartIInv
<1>2. CASE StarterStep
  BY <1>2, PrepareIInv, AdmitIInv, SpawnIInv, BindIInv, AbortIInv, WaitHealthyIInv,
     MarkReadyIInv, ReturnUnhealthyIInv DEF StarterStep
<1>3. CASE \E h \in Handles : Exit(h) \/ WatchWrite(h) \/ WatchClose(h)
  BY <1>3, ExitIInv, WatchWriteIInv, WatchCloseIInv
<1>4. CASE \E s \in Stoppers : Capture(s) \/ Return(s)
  BY <1>4, CaptureIInv, ReturnIInv
<1>5. CASE \E s \in Stoppers : StopStep(s)
  BY <1>5, MarkIInv, SignalIInv, FailTargetIInv, EscalateIInv, ConfirmIInv DEF StopStep
<1>6. CASE SetGuard \/ BeginShutdown
  BY <1>6, SetGuardIInv, BeginShutdownIInv
<1>7. CASE UNCHANGED vars
  BY <1>7, StutterIInv
<1> QED BY <1>1, <1>2, <1>3, <1>4, <1>5, <1>6, <1>7 DEF Next

\* IInv holds in every reachable state of every instance.
THEOREM Invariance == Spec => []IInv
BY InitIInv, NextIInv, PTL DEF Spec

\* The types of the variables, and which handles are installed.
THEOREM TypeCorrect == Spec => []TypeOK
<1>1. IInv => TypeOK
  BY DEF IInv
<1> QED BY <1>1, Invariance, PTL

\* Until the guard leaves an emergency, a handle that is reported as stopped or failed
\* (supervisor.go, stopWithTerminal and watch) has no live worker.
THEOREM StoppedIsGone == Spec => []StoppedMeansGone
<1>1. IInv => StoppedMeansGone
  BY DEF IInv
<1> QED BY <1>1, Invariance, PTL

\* Until the guard leaves an emergency, an instance has one live worker at most: a
\* replaced handle is terminal (supervisor.go, Start).
THEOREM AtMostOneWorker == Spec => []OneWorker
<1>1. IInv => OneWorker
  <2> SUFFICES ASSUME IInv, NeverRelaxed, NEW g \in Handles, NEW h \in Handles,
                      process[g] = "alive", process[h] = "alive"
               PROVE  g = h
    BY DEF OneWorker
  <2>1. g <= current /\ h <= current
    BY DEF IInv, Installed
  <2>2. state[g] \notin Terminal /\ state[h] \notin Terminal
    BY DEF IInv, StoppedMeansGone
  <2>3. ~(g < current) /\ ~(h < current)
    BY <2>2 DEF IInv, Installed
  <2> QED BY <2>1, <2>3 DEF IInv, TypeOK, Handles
<1> QED BY <1>1, Invariance, PTL

\* Until the guard leaves an emergency, a confirmed shutdown (supervisor.go, Shutdown)
\* leaves no worker behind.
THEOREM ShutdownLeavesNone == Spec => []ShutdownIsFinal
<1>1. IInv => ShutdownIsFinal
  BY DEF IInv
<1> QED BY <1>1, Invariance, PTL

\* The spawn gate (spawn_gate.go) keeps the admission valid until the process is there.
THEOREM SpawnIsAdmitted == Spec => NoSpawnUnderGuard
<1>1. ASSUME IInv, [Next]_vars, NEW h \in Handles,
             process[h] = "none", process'[h] = "alive"
      PROVE  guard = "normal" /\ ~shuttingDown
  <2>1. process' # process
    BY <1>1
  <2>2. Spawn \/ Bind \/ \E x \in Handles : Exit(x)
    <3>1. process' = process \/ StarterStep \/ \E x \in Handles : Exit(x)
      BY <1>1 DEF Next, Start, CancelStart, WatchWrite, WatchClose, Capture, StopStep,
         Mark, Signal, FailTarget, WriteFailed, CloseDone, Escalate, Confirm, Return,
         SetGuard, BeginShutdown, vars, handleVars
    <3>2. StarterStep => process' = process \/ Spawn \/ Bind
      BY DEF StarterStep, Prepare, Admit, Abort, WriteFailed, CloseDone, WaitHealthy,
         MarkReady, ReturnUnhealthy, handleVars
    <3> QED BY <2>1, <3>1, <3>2
  <2>3. ASSUME NEW x \in Handles, Exit(x) PROVE FALSE
    BY <1>1, <2>3 DEF Exit, IInv, TypeOK
  <2>4. CASE Bind
    BY <1>1, <2>4 DEF Bind, IInv, TypeOK
  <2>5. CASE Spawn
    BY <1>1, <2>5 DEF Spawn, IInv, GateHolds, SpawnGateHeld
  <2> QED BY <2>2, <2>3, <2>4, <2>5
<1>2. IInv /\ [Next]_vars =>
        [\A h \in Handles : process[h] = "none" /\ process'[h] = "alive"
                              => guard = "normal" /\ ~shuttingDown]_vars
  BY <1>1
<1> QED BY <1>2, Invariance, PTL DEF Spec, NoSpawnUnderGuard
-----------------------------------------------------------------------------
(* The workers that the engine sees: Supervisor implements WorkerHandles.  *)

\* What is known of a stop by the override that it leaves in its handle: a quiet start
\* has none before its spawn, a stop that has marked its handle has left one, and a
\* handle that is terminal without a process is never spawned.
EndsKnown ==
  /\ \A h \in Handles : override[h] # "none" => h <= current
  /\ Quiet /\ pc \in {"preparing", "admitting", "spawning"} => override[current] = "none"
  /\ \A s \in Stoppers :
       stopping[s] \in {"marked", "failing", "closing"} => override[target[s]] # "none"
  /\ \A h \in Handles : state[h] \in Terminal /\ process[h] = "none" => Over(h)

\* A start changes nothing of what is known of the others.
LEMMA StartEnds == ASSUME IInv, EndsKnown, Start PROVE EndsKnown'
<1>1. current + 1 \in Handles /\ current \in Nat
  BY SupervisorAssumption DEF IInv, TypeOK, Start, Handles
<1>2. /\ override' = override /\ process' = process /\ done' = done /\ current' = current + 1
      /\ stopping' = stopping /\ target' = target
      /\ \A h \in Handles : state'[h] = IF h = current + 1 THEN "queued" ELSE state[h]
  BY <1>1 DEF IInv, TypeOK, Start, stopVars
<1>3. \A h \in Handles : override[h] # "none" => h <= current /\ h <= current + 1 /\ h # current + 1
  BY <1>1 DEF EndsKnown, Handles
<1>4. override'[current'] = "none"
  BY <1>1, <1>2, <1>3
<1>5. ASSUME NEW h \in Handles, state'[h] \in Terminal, process'[h] = "none"
      PROVE  Over(h)'
  <2>1. Over(h) /\ pc = "idle"
    BY <1>2, <1>5 DEF EndsKnown, Terminal, Start
  <2> QED BY <1>2, <2>1 DEF Over
<1> QED BY <1>2, <1>3, <1>4, <1>5 DEF EndsKnown

\* The steps of a start: it leaves no override, and a start that ends without a
\* process is over.
LEMMA StarterEnds == ASSUME IInv, EndsKnown, StarterStep PROVE EndsKnown'
<1>1. /\ current \in Handles /\ current' = current /\ override' = override /\ target' = target
      /\ UNCHANGED <<guard, shuttingDown, relaxations>>
  BY SupervisorAssumption DEF IInv, TypeOK, Installed, Handles, StarterStep, Prepare, Admit, Spawn,
     Bind, Abort, WriteFailed, CloseDone, WaitHealthy, MarkReady, ReturnUnhealthy, guardVars,
     stopVars, handleVars
<1>2. \A s \in Stoppers : stopping'[s] = stopping[s] \/ stopping'[s] = "idle"
  BY DEF IInv, TypeOK, StarterStep, Prepare, Admit, Spawn, Bind, Abort, WaitHealthy, MarkReady,
     ReturnUnhealthy, stopVars
<1>3. pc' \in {"preparing", "admitting", "spawning"} => pc \in {"preparing", "admitting", "spawning"}
  BY DEF StarterStep, Prepare, Admit, Spawn, Bind, Abort, WaitHealthy, MarkReady, ReturnUnhealthy
<1>4. ASSUME NEW h \in Handles, state'[h] \in Terminal, process'[h] = "none"
      PROVE  Over(h)'
  <2>1. process[h] = "none" /\ (h \in done => h \in done')
    BY <1>1, <1>4 DEF IInv, TypeOK, StarterStep, Prepare, Admit, Spawn, Bind, Abort, WriteFailed,
       CloseDone, WaitHealthy, MarkReady, ReturnUnhealthy, handleVars
  <2>2. CASE h # current
    <3>1. state[h] \in Terminal
      BY <1>1, <1>4, <2>2 DEF IInv, TypeOK, StarterStep, Prepare, Admit, Spawn, Bind, Abort,
         WriteFailed, CloseDone, WaitHealthy, MarkReady, ReturnUnhealthy, handleVars
    <3>2. Over(h)
      BY <2>1, <3>1 DEF EndsKnown
    <3> QED BY <1>1, <1>4, <2>1, <2>2, <3>2 DEF Over
  <2>3. CASE h = current
    <3>1. CASE Abort
      <4>1. pc' = "closing" \/ h \in done'
        BY <2>3, <3>1 DEF Abort, CloseDone
      <4> QED BY <1>1, <1>4, <2>3, <4>1 DEF Over
    <3>2. CASE ~Abort
      <4>1. state[h] \in Terminal
        BY <1>1, <1>4, <2>3, <3>2 DEF IInv, TypeOK, StarterStep, Prepare, Admit, Spawn, Bind,
           WaitHealthy, MarkReady, ReturnUnhealthy, handleVars, Terminal
      <4>2. Over(h)
        BY <2>1, <4>1 DEF EndsKnown
      <4>3. pc \notin {"aborting", "closing"}
        BY <3>2 DEF StarterStep, Prepare, Admit, Spawn, Bind, WaitHealthy, MarkReady,
           ReturnUnhealthy
      <4> QED BY <1>1, <1>4, <2>1, <4>2, <4>3 DEF Over
    <3> QED BY <3>1, <3>2
  <2> QED BY <2>2, <2>3
<1>5. Quiet' => Quiet
  BY <1>1 DEF Quiet, NeverRelaxed
<1>6. \A s \in Stoppers :
        stopping'[s] \in {"marked", "failing", "closing"} => override'[target'[s]] # "none"
  BY <1>1, <1>2 DEF EndsKnown
<1> QED BY <1>1, <1>3, <1>4, <1>5, <1>6 DEF EndsKnown

\* The steps of a stop: only a marked handle is failed, and a quiet start is not marked.
LEMMA StopEnds ==
  ASSUME IInv, EndsKnown, NEW s \in Stoppers, Capture(s) \/ StopStep(s) \/ Return(s)
  PROVE  EndsKnown'
<1>1. /\ current' = current /\ process' = process /\ done \subseteq done'
      /\ UNCHANGED <<guard, shuttingDown, relaxations, pc>>
      /\ Quiet' <=> Quiet
  BY DEF Capture, StopStep, Mark, Signal, FailTarget, WriteFailed, CloseDone, Escalate, Confirm,
     Return, guardVars, startVars, handleVars, Quiet, NeverRelaxed
<1>2. CASE Capture(s) \/ Return(s)
  <2>1. /\ UNCHANGED <<override, state, done>>
        /\ \A x \in Stoppers :
             stopping'[x] \in {"marked", "failing", "closing"}
               => stopping'[x] = stopping[x] /\ target'[x] = target[x]
    BY <1>2 DEF IInv, TypeOK, Capture, Return, GotoStop, handleVars
  <2>2. \A h \in Handles : Over(h)' <=> Over(h)
    BY <1>1, <2>1 DEF Over
  <2> QED BY <1>1, <2>1, <2>2 DEF EndsKnown
<1>3. CASE StopStep(s)
  <2>1. target[s] \in Handles /\ target[s] <= current /\ target' = target
    BY <1>3, TargetInstalled DEF StopStep, Mark, Signal, FailTarget, Escalate, Confirm
  <2>2. ASSUME Mark(s) PROVE EndsKnown'
    <3>1. /\ \A h \in Handles : override'[h] # "none" => override[h] # "none" \/ h = target[s]
          /\ \A h \in Handles : override[h] # "none" => override'[h] # "none"
          /\ \A x \in Stoppers \ {s} : stopping'[x] = stopping[x]
          /\ stopping'[s] # "confirmed" => override'[target[s]] # "none"
          /\ \A h \in Handles : state'[h] \in Terminal => state[h] \in Terminal
          /\ done' = done
      BY <2>1, <2>2 DEF IInv, TypeOK, Mark, GotoStop, Terminal
    <3>2. \A h \in Handles : Over(h) => Over(h)'
      BY <1>1, <3>1 DEF Over
    <3>3. ASSUME Quiet, pc \in {"preparing", "admitting", "spawning"}, NEW h \in Handles
          PROVE  FALSE
      <4>1. stopping[s] # "idle"
        BY <2>2 DEF Mark
      <4> QED BY <3>3, <4>1 DEF IInv, StopsInOrder, Quiet, Stoppers
    <3>4. \A x \in Stoppers :
            stopping'[x] \in {"marked", "failing", "closing"} => override'[target'[x]] # "none"
      <4>1. \A x \in Stoppers : stopping[x] \in {"marked", "failing", "closing"} => target[x] \in Handles
        BY TargetInstalled
      <4> QED BY <2>1, <3>1, <4>1 DEF EndsKnown
    <3>5. current \in Nat /\ target[s] \in Handles
      BY <2>1 DEF IInv, TypeOK
    <3> QED BY <1>1, <2>1, <3>1, <3>2, <3>3, <3>4, <3>5 DEF EndsKnown
  <2>3. ASSUME ~Mark(s) PROVE EndsKnown'
    <3>1. /\ override' = override
          /\ \A x \in Stoppers \ {s} : stopping'[x] = stopping[x]
          /\ stopping'[s] \in {"failing", "closing"} => stopping[s] \in {"marked", "failing"}
          /\ stopping'[s] # "marked"
      BY <1>3, <2>3 DEF IInv, TypeOK, StopStep, Signal, FailTarget, WriteFailed, CloseDone,
         Escalate, Confirm, GotoStop, handleVars
    <3>2. \A h \in Handles : state'[h] \in Terminal => state[h] \in Terminal \/ (h = target[s] /\ stopping[s] = "failing")
      BY <1>3, <2>1, <2>3 DEF IInv, TypeOK, StopStep, Signal, FailTarget, WriteFailed, CloseDone,
         Escalate, Confirm, handleVars
    <3>3. \A h \in Handles : Over(h) => Over(h)'
      BY <1>1, <3>1 DEF Over
    <3>4. ASSUME NEW h \in Handles, state'[h] \in Terminal, process'[h] = "none" PROVE Over(h)'
      <4>1. CASE h = target[s] /\ stopping[s] = "failing"
        BY <1>1, <3>1, <3>4, <4>1 DEF EndsKnown, Over
      <4>2. CASE state[h] \in Terminal
        BY <1>1, <3>3, <3>4, <4>2 DEF EndsKnown
      <4> QED BY <3>2, <3>4, <4>1, <4>2
    <3> QED BY <1>1, <2>1, <3>1, <3>4 DEF EndsKnown
  <2> QED BY <2>2, <2>3
<1> QED BY <1>2, <1>3

\* The processes, their watch goroutines and the engine.
LEMMA OtherEnds ==
  ASSUME IInv, EndsKnown,
         \/ CancelStart \/ SetGuard \/ BeginShutdown \/ UNCHANGED vars
         \/ \E h \in Handles : Exit(h) \/ WatchWrite(h) \/ WatchClose(h)
  PROVE  EndsKnown'
<1>1. /\ UNCHANGED <<current, override, pc, stopping, target>> /\ done \subseteq done'
  BY DEF CancelStart, SetGuard, BeginShutdown, Exit, WatchWrite, WatchClose, vars, handleVars,
     startVars, stopVars
<1>2. \A h \in Handles : process'[h] = process[h] \/ process'[h] = "dead"
  BY DEF IInv, TypeOK, CancelStart, SetGuard, BeginShutdown, Exit, WatchWrite, WatchClose, vars,
     handleVars
<1>3. \A h \in Handles : state'[h] = state[h] \/ process[h] = "dead"
  BY DEF IInv, TypeOK, CancelStart, SetGuard, BeginShutdown, Exit, WatchWrite, WatchClose, vars,
     handleVars
<1>4. Quiet' /\ pc \in {"preparing", "admitting", "spawning"} => override[current] = "none"
  <2>1. CASE Quiet
    BY <2>1 DEF EndsKnown
  <2>2. CASE ~Quiet /\ Quiet'
    <3>1. SetGuard
      BY <2>2 DEF Quiet, NeverRelaxed, CancelStart, BeginShutdown, Exit, WatchWrite, WatchClose,
         vars, guardVars
    <3>2. relaxations' # 0
      BY <2>2, <3>1, SupervisorAssumption DEF SetGuard, Quiet, NeverRelaxed, IInv, TypeOK
    <3> QED BY <2>2, <3>2 DEF Quiet, NeverRelaxed
  <2> QED BY <2>1, <2>2
<1>5. \A h \in Handles : Over(h) => Over(h)'
  BY <1>1, <1>2 DEF Over
<1>6. ASSUME NEW h \in Handles, state'[h] \in Terminal, process'[h] = "none" PROVE Over(h)'
  <2>1. process[h] = "none" /\ state[h] \in Terminal
    BY <1>2, <1>3, <1>6
  <2> QED BY <1>5, <2>1 DEF EndsKnown
<1> QED BY <1>1, <1>4, <1>6 DEF EndsKnown

\* Who is over, and who is not: at most one handle more is over after a step.
LEMMA OneLess ==
  ASSUME IInv, current' = current, NEW x \in Handles, Over(x) => Over(x)',
         \A h \in Handles \ {x} : Over(h)' <=> Over(h)
  PROVE  /\ liveHandles' = liveHandles \/ liveHandles' = liveHandles \ {x}
         /\ liveHandles' # liveHandles => x \in 1..current
<1>1. 1..current \subseteq Handles
  BY SupervisorAssumption DEF IInv, TypeOK, Handles
<1> QED BY <1>1 DEF liveHandles

LEMMA SameLive ==
  ASSUME IInv, current' = current, \A h \in Handles : Over(h)' <=> Over(h)
  PROVE  liveHandles' = liveHandles
<1>1. 1..current \subseteq Handles
  BY SupervisorAssumption DEF IInv, TypeOK, Handles
<1> QED BY <1>1 DEF liveHandles

\* A new handle is the only one more that may get a worker.
LEMMA StartWorkers == ASSUME IInv, EndsKnown, NeverRelaxed, Start PROVE Workers!Install
<1>1. /\ current \in Nat /\ current + 1 \in Handles /\ current' = current + 1
      /\ override' = override /\ process' = process /\ done' = done
      /\ stopping' = stopping /\ target' = target
      /\ pc = "idle" /\ pc' = "preparing"
  BY SupervisorAssumption DEF IInv, TypeOK, Start, Handles, stopVars
<1>2. \A h \in Handles : Over(h)' <=> Over(h)
  BY <1>1 DEF Over
<1>3. ~Over(current + 1)
  BY <1>1 DEF Over, IInv, Installed, EndsKnown
<1>4. liveHandles' = liveHandles \cup {current + 1}
  BY <1>1, <1>2, <1>3, SupervisorAssumption DEF liveHandles, Handles
<1>5. current \notin liveHandles
  <2> SUFFICES ASSUME current > 0 PROVE Over(current)
    BY <1>1 DEF liveHandles
  <2>1. current \in Handles /\ state[current] \in Terminal
    BY <1>1, SupervisorAssumption DEF Start, Handles
  <2>2. process[current] # "alive"
    BY <2>1 DEF IInv, StoppedMeansGone
  <2> QED BY <2>1, <2>2 DEF EndsKnown, Over, IInv, TypeOK
<1>6. confirmedHandles' = confirmedHandles
  BY <1>1 DEF confirmedHandles
<1> QED BY <1>1, <1>4, <1>5, <1>6 DEF Workers!Install

\* A start that ends is over, and one that is over is not spawned.
LEMMA StarterWorkers ==
  ASSUME IInv, EndsKnown, NeverRelaxed, StarterStep
  PROVE  [Workers!Next]_(Workers!vars)
<1>1. /\ current \in Handles /\ current' = current /\ override' = override /\ target' = target
  BY SupervisorAssumption DEF IInv, TypeOK, Installed, Handles, StarterStep, Prepare, Admit, Spawn,
     Bind, Abort, WriteFailed, CloseDone, WaitHealthy, MarkReady, ReturnUnhealthy,
     stopVars, handleVars
<1>2. \A h \in Handles \ {current} : Over(h)' <=> Over(h)
  <2>1. \A h \in Handles \ {current} : process'[h] = process[h] /\ (h \in done' <=> h \in done)
    BY DEF IInv, TypeOK, StarterStep, Prepare, Admit, Spawn, Bind, Abort, WriteFailed, CloseDone,
       WaitHealthy, MarkReady, ReturnUnhealthy, handleVars
  <2> QED BY <1>1, <2>1 DEF Over
<1>3. Over(current) => Over(current)'
  <2>1. CASE Spawn
    <3>1. current \notin done /\ override[current] = "none" /\ process[current] = "none"
      BY <2>1 DEF Spawn, IInv, EndsKnown, GateHolds, SpawnGateHeld, Untouched, Progress, Quiet
    <3> QED BY <2>1, <3>1 DEF Over, Spawn
  <2>2. CASE ~Spawn
    <3>1. /\ process'[current] = process[current] \/ process'[current] = "dead"
          /\ done \subseteq done'
          /\ pc \in {"aborting", "closing"} => pc' \in {"aborting", "closing"} \/ current \in done'
      BY <1>1, <2>2 DEF IInv, TypeOK, StarterStep, Prepare, Admit, Bind, Abort, WriteFailed,
         CloseDone, WaitHealthy, MarkReady, ReturnUnhealthy, handleVars
    <3> QED BY <1>1, <3>1 DEF Over
  <2> QED BY <2>1, <2>2
<1>4. /\ liveHandles' = liveHandles \/ liveHandles' = liveHandles \ {current}
      /\ liveHandles' # liveHandles => current \in 1..current
  BY <1>1, <1>2, <1>3, OneLess
<1>5. CASE ReturnUnhealthy
  <2>1. confirmedHandles' \subseteq confirmedHandles
    BY <1>5 DEF confirmedHandles, ReturnUnhealthy, IInv, TypeOK
  <2>2. \A h \in Handles : Over(h)' <=> Over(h)
    BY <1>5 DEF Over, ReturnUnhealthy, handleVars
  <2>3. liveHandles' = liveHandles
    BY <1>1, <2>2, SameLive
  <2> QED BY <1>1, <2>1, <2>3 DEF Workers!Next, Workers!Forget
<1>6. CASE ~ReturnUnhealthy
  <2>1. UNCHANGED <<stopping, target>>
    BY <1>6 DEF StarterStep, Prepare, Admit, Spawn, Bind, Abort, WaitHealthy, MarkReady, stopVars
  <2>2. confirmedHandles' = confirmedHandles
    BY <2>1 DEF confirmedHandles
  <2> QED BY <1>1, <1>4, <2>2 DEF Workers!Next, Workers!End, Workers!vars
<1> QED BY <1>5, <1>6

\* A stop answers that its handle is gone only when it is over.
LEMMA ConfirmedIsOver ==
  ASSUME IInv, EndsKnown, NeverRelaxed, NEW s \in Stoppers, StopStep(s), stopping'[s] = "confirmed"
  PROVE  target[s] \in Handles /\ target[s] \in 1..current /\ Over(target[s])'
<1>1. /\ target[s] \in Handles /\ target[s] <= current /\ target' = target
      /\ current' = current /\ process' = process /\ pc' = pc /\ done \subseteq done'
  BY TargetInstalled DEF StopStep, Mark, Signal, FailTarget, WriteFailed, CloseDone, Escalate,
     Confirm, handleVars, startVars
<1>2. target[s] \in 1..current
  BY <1>1 DEF Handles, IInv, TypeOK
<1>3. CASE Mark(s)
  <2>1. state[target[s]] \in Terminal /\ override' = override
    BY <1>1, <1>3 DEF Mark, GotoStop, IInv, TypeOK
  <2>2. process[target[s]] # "alive"
    BY <1>1, <2>1 DEF IInv, StoppedMeansGone
  <2>3. Over(target[s])
    BY <1>1, <2>1, <2>2 DEF EndsKnown, Over, IInv, TypeOK
  <2> QED BY <1>1, <1>2, <2>1, <2>3 DEF Over
<1>4. CASE ~Mark(s)
  <2>1. target[s] \in done'
    BY <1>4 DEF StopStep, Signal, FailTarget, WriteFailed, CloseDone, Escalate, Confirm, GotoStop,
       handleVars, IInv, TypeOK
  <2>2. process[target[s]] # "alive"
    BY <1>1, <1>4 DEF StopStep, Signal, FailTarget, WriteFailed, CloseDone, Escalate, Confirm,
       GotoStop, handleVars, IInv, TypeOK, DoneMeansGone, FailedUnspawned
  <2> QED BY <1>1, <1>2, <2>1, <2>2 DEF Over, IInv, TypeOK
<1> QED BY <1>3, <1>4

\* A stop ends a handle that has no process yet by its override, and nothing else.
LEMMA StopWorkers ==
  ASSUME IInv, EndsKnown, NeverRelaxed, NEW s \in Stoppers,
         Capture(s) \/ StopStep(s) \/ Return(s)
  PROVE  [Workers!Next]_(Workers!vars)
<1>1. current' = current /\ process' = process /\ pc' = pc /\ done \subseteq done'
  BY DEF Capture, StopStep, Mark, Signal, FailTarget, WriteFailed, CloseDone, Escalate, Confirm,
     Return, startVars, handleVars
<1>2. CASE Capture(s) \/ Return(s)
  <2>1. /\ UNCHANGED <<override, done>>
        /\ \A x \in Stoppers : stopping'[x] = "confirmed" =>
             \/ stopping[x] = "confirmed" /\ target'[x] = target[x]
             \/ target'[x] = 0
    BY <1>2 DEF IInv, TypeOK, Capture, Return, GotoStop, handleVars
  <2>2. \A h \in Handles : Over(h)' <=> Over(h)
    BY <1>1, <2>1 DEF Over
  <2>3. liveHandles' = liveHandles
    BY <1>1, <2>2, SameLive
  <2>4. confirmedHandles' \subseteq confirmedHandles
    BY <2>1 DEF confirmedHandles
  <2> QED BY <1>1, <2>3, <2>4 DEF Workers!Next, Workers!Forget
<1>3. CASE StopStep(s)
  <2>1. /\ target[s] \in Handles /\ target' = target /\ stopping[s] # "confirmed"
        /\ \A x \in Stoppers \ {s} : stopping'[x] = stopping[x]
    BY <1>3, TargetInstalled DEF StopStep, Mark, Signal, FailTarget, Escalate, Confirm, GotoStop,
       IInv, TypeOK
  <2>2. Over(target[s]) => Over(target[s])'
    <3>1. override[target[s]] # "none" => override'[target[s]] # "none"
      BY <1>3, <2>1 DEF StopStep, Mark, Signal, FailTarget, WriteFailed, CloseDone, Escalate,
         Confirm, handleVars, IInv, TypeOK, Terminal
    <3> QED BY <1>1, <2>1, <3>1 DEF Over
  <2>3. \A h \in Handles \ {target[s]} : Over(h)' <=> Over(h)
    <3>1. \A h \in Handles \ {target[s]} : override'[h] = override[h] /\ (h \in done' <=> h \in done)
      BY <1>3, <2>1 DEF StopStep, Mark, Signal, FailTarget, WriteFailed, CloseDone, Escalate,
         Confirm, handleVars, IInv, TypeOK
    <3> QED BY <1>1, <3>1 DEF Over
  <2>4. /\ liveHandles' = liveHandles \/ liveHandles' = liveHandles \ {target[s]}
        /\ liveHandles' # liveHandles => target[s] \in 1..current
    BY <1>1, <2>1, <2>2, <2>3, OneLess
  <2>5. CASE stopping'[s] = "confirmed"
    <3>1. target[s] \in 1..current /\ Over(target[s])'
      BY <1>3, <2>5, ConfirmedIsOver
    <3>2. liveHandles' = liveHandles \ {target[s]}
      BY <1>1, <2>1, <2>4, <3>1 DEF liveHandles
    <3>3. confirmedHandles' = confirmedHandles \cup {target[s]}
      BY <2>1, <2>5, <3>1 DEF confirmedHandles
    <3> QED BY <1>1, <3>1, <3>2, <3>3 DEF Workers!Next, Workers!Confirm
  <2>6. CASE stopping'[s] # "confirmed"
    <3>1. confirmedHandles' = confirmedHandles
      BY <2>1, <2>6 DEF confirmedHandles
    <3> QED BY <1>1, <2>4, <3>1 DEF Workers!Next, Workers!End, Workers!vars
  <2> QED BY <2>5, <2>6
<1> QED BY <1>2, <1>3

\* A process that ends is over; the rest is not seen.
LEMMA OtherWorkers ==
  ASSUME IInv,
         \/ CancelStart \/ SetGuard \/ BeginShutdown \/ UNCHANGED vars
         \/ \E h \in Handles : Exit(h) \/ WatchWrite(h) \/ WatchClose(h)
  PROVE  [Workers!Next]_(Workers!vars)
<1>1. UNCHANGED <<current, override, pc, stopping, target>>
  BY DEF CancelStart, SetGuard, BeginShutdown, Exit, WatchWrite, WatchClose, vars, handleVars,
     startVars, stopVars
<1>2. confirmedHandles' = confirmedHandles
  BY <1>1 DEF confirmedHandles
<1>3. ASSUME NEW x \in Handles, Exit(x)
      PROVE  [Workers!Next]_(Workers!vars)
  <2>1. \A h \in Handles \ {x} : Over(h)' <=> Over(h)
    BY <1>1, <1>3 DEF Exit, Over, IInv, TypeOK
  <2>2. Over(x) => Over(x)'
    BY <1>3 DEF Exit, Over, IInv, TypeOK
  <2>3. /\ liveHandles' = liveHandles \/ liveHandles' = liveHandles \ {x}
        /\ liveHandles' # liveHandles => x \in 1..current
    BY <1>1, <2>1, <2>2, OneLess
  <2> QED BY <1>1, <1>2, <2>3 DEF Workers!Next, Workers!End, Workers!vars
<1>4. CASE ~\E x \in Handles : Exit(x)
  <2>1. process' = process
    BY <1>4 DEF CancelStart, SetGuard, BeginShutdown, WatchWrite, WatchClose, vars, handleVars
  <2>2. \A h \in Handles : h \in done' => h \in done \/ process[h] = "dead"
    BY <1>4 DEF CancelStart, SetGuard, BeginShutdown, WatchWrite, WatchClose, vars, handleVars,
       IInv, Progress
  <2>3. done \subseteq done'
    BY <1>4 DEF CancelStart, SetGuard, BeginShutdown, WatchWrite, WatchClose, vars, handleVars
  <2>4. \A h \in Handles : Over(h)' <=> Over(h)
    BY <1>1, <2>1, <2>2, <2>3 DEF Over
  <2>5. liveHandles' = liveHandles
    BY <1>1, <2>4, SameLive
  <2> QED BY <1>1, <1>2, <2>5 DEF Workers!vars
<1> QED BY <1>3, <1>4

LEMMA NextEnds == IInv /\ EndsKnown /\ [Next]_vars => EndsKnown'
BY StartEnds, StarterEnds, StopEnds, OtherEnds DEF Next

LEMMA InitWorkers == Init => EndsKnown /\ Workers!Init
<1> SUFFICES ASSUME Init PROVE EndsKnown /\ Workers!Init
  OBVIOUS
<1>2. liveHandles = {} /\ confirmedHandles = {}
  BY DEF Init, liveHandles, confirmedHandles
<1>3. EndsKnown
  BY DEF Init, EndsKnown, Terminal
<1> QED BY <1>2, <1>3 DEF Init, Workers!Init

\* Until the guard leaves an emergency, the supervisor (supervisor.go) is what the
\* engine takes it for: nothing that is over is spawned after all, nothing that runs is
\* replaced, and a stop is confirmed only when its worker is over.
THEOREM WorkersRefinement == Spec => ImplementsWorkers
<1>1. Spec => []EndsKnown
  BY InitWorkers, NextEnds, Invariance, PTL DEF Spec
<1>2. Init => Workers!Init
  BY InitWorkers
<1>3. IInv /\ EndsKnown /\ [Next]_vars => [NeverRelaxed' => [Workers!Next]_(Workers!vars)]_vars
  <2> SUFFICES ASSUME IInv, EndsKnown, Next, NeverRelaxed'
               PROVE  [Workers!Next]_(Workers!vars)
    OBVIOUS
  <2>1. NeverRelaxed
    <3>1. relaxations' = relaxations \/ SetGuard
      BY DEF Next, Start, CancelStart, StarterStep, Prepare, Admit, Spawn, Bind, Abort, WaitHealthy,
         MarkReady, ReturnUnhealthy, Exit, WatchWrite, WatchClose, Capture, StopStep, Mark, Signal,
         FailTarget, Escalate, Confirm, Return, BeginShutdown, guardVars
    <3> QED BY <3>1, SupervisorAssumption DEF NeverRelaxed, SetGuard, IInv, TypeOK
  <2> QED BY <2>1, StartWorkers, StarterWorkers, StopWorkers, OtherWorkers DEF Next, Workers!Next
<1> QED BY <1>1, <1>2, <1>3, Invariance, PTL DEF Spec, ImplementsWorkers
=============================================================================

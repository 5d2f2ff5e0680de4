---------------------------- MODULE InferenceGate ----------------------------
(***************************************************************************)
(* Admission of inference requests to one engine instance: the bounded     *)
(* inferenceGate of modules/engine/admission.go and the lease that         *)
(* acquireInference of usage.go builds on it.                              *)
(*                                                                         *)
(* An actor is the goroutine of one request.  It reads the instance under  *)
(* the engine lock, looks its gate up under another, waits at the gate and *)
(* checks the instance again; in between the worker may stop, crash or be  *)
(* replaced.  Every successful start installs a fresh gate, a fresh secret *)
(* and the next worker generation, so gates and secrets are named by their *)
(* generation here.  What happens to the instance is InstanceRouting.tla,  *)
(* with what each step does to the count of its requests.                  *)
(***************************************************************************)
EXTENDS Naturals, FiniteSets, SequencesExt

CONSTANTS Requests,     \* inference requests
          Limit         \* MaxSequences of each worker generation

Generations == DOMAIN Limit
NoSecret == 0

ASSUME GateAssumption ==
  /\ IsFiniteSet(Requests)
  /\ Limit \in Seq(Nat) /\ \A g \in Generations : Limit[g] >= 1

\* 2 * maxSequences, kept within 2..8.
inferenceWaitingLimit(maxSequences) ==
  CHOOSE n \in 2..8 :
    n = 2 * maxSequences \/ (n = 8 /\ 2 * maxSequences > 8)

VARIABLES
  state,           \* instance.State: ready, or closed, for good or not
  generation,      \* instance.workerGeneration, 0 before the first worker
  secret,          \* the generation of instance.WorkerSecret and BaseURL
  saved,           \* the same of the backup a start may put in the instance's place
  activeRequests,  \* instance.ActiveRequests
  savedRequests,   \* the same of that backup
  returned,        \* the instance is a backup put back: its count may be out of date
  emergency,       \* m.guardState = GuardEmergency
  active,          \* gate.active, of each gate
  maxActive,       \* gate.maxActive
  maxWaiting,      \* gate.maxWaiting
  waiting,         \* gate.waiting
  pc,              \* where the goroutine of a request is
  expected,        \* the generation and secret the request has read
  gate,            \* the gate the request has looked up
  granted          \* requests whose waiter is granted and its channel closed

Routing == INSTANCE InstanceRouting

routingVars == <<state, generation, secret, saved>>
instanceVars == <<routingVars, activeRequests, savedRequests, returned, emergency>>
gateVars == <<active, maxActive, maxWaiting, waiting, granted>>
vars == <<instanceVars, gateVars, pc, expected, gate>>

Init ==
  /\ Routing!Init
  /\ activeRequests = 0 /\ savedRequests = 0 /\ returned = FALSE /\ emergency = FALSE
  /\ active = [g \in Generations |-> 0]
  /\ maxActive = [g \in Generations |-> 0]
  /\ maxWaiting = [g \in Generations |-> 0]
  /\ waiting = [g \in Generations |-> <<>>]
  /\ pc = [r \in Requests |-> "new"]
  /\ expected = [r \in Requests |-> 0]
  /\ gate = [r \in Requests |-> 0]
  /\ granted = {}

Goto(r, step) == pc' = [pc EXCEPT ![r] = step]

Serving == state = "ready" /\ secret # NoSecret

-----------------------------------------------------------------------------
(* The gate.                                                               *)

\* Mutant of Release: the freed slot is not handed over.
ReleaseToNobody(g) ==
  /\ active' = [active EXCEPT ![g] = IF @ > 0 THEN @ - 1 ELSE 0]
  /\ UNCHANGED <<granted, waiting, maxActive, maxWaiting>>

\* releaseFunc, through its sync.Once: a slot is freed and at most one waiter
\* takes it.
Release(g) ==
  LET left == IF active[g] > 0 THEN active[g] - 1 ELSE 0
  IN  \/ /\ waiting[g] # <<>> /\ left < maxActive[g]
         /\ active' = [active EXCEPT ![g] = left + 1]
         /\ granted' = granted \cup {Head(waiting[g])}
         /\ waiting' = [waiting EXCEPT ![g] = Tail(@)]
         /\ UNCHANGED <<maxActive, maxWaiting>>
      \/ /\ waiting[g] = <<>> \/ left >= maxActive[g]
         /\ active' = [active EXCEPT ![g] = left]
         /\ UNCHANGED <<granted, waiting, maxActive, maxWaiting>>

\* Mutant of Acquire: a request that meets a full gate takes a slot, not a place in
\* the list.
AcquireBeyondLimit(r) ==
  LET g == gate[r]
      m == Limit[expected[r]]
  IN  /\ pc[r] = "acquiring"
      /\ maxActive' = [maxActive EXCEPT ![g] = m]
      /\ maxWaiting' = [maxWaiting EXCEPT ![g] = inferenceWaitingLimit(m)]
      /\ active[g] <= m
      /\ active' = [active EXCEPT ![g] = @ + 1]
      /\ Goto(r, "holding")
      /\ UNCHANGED <<waiting, instanceVars, granted, expected, gate>>

\* acquire, up to its select: the limits of the caller replace the gate's.
Acquire(r) ==
  LET g == gate[r]
      m == Limit[expected[r]]
  IN  /\ pc[r] = "acquiring"
      /\ maxActive' = [maxActive EXCEPT ![g] = m]
      /\ maxWaiting' = [maxWaiting EXCEPT ![g] = inferenceWaitingLimit(m)]
      /\ \/ /\ active[g] < m /\ waiting[g] = <<>>
            /\ active' = [active EXCEPT ![g] = @ + 1]
            /\ Goto(r, "holding")
            /\ UNCHANGED waiting
         \/ /\ active[g] >= m \/ waiting[g] # <<>>
            /\ Len(waiting[g]) >= inferenceWaitingLimit(m)
            /\ Goto(r, "rejected")
            /\ UNCHANGED <<active, waiting>>
         \/ /\ active[g] >= m \/ waiting[g] # <<>>
            /\ Len(waiting[g]) < inferenceWaitingLimit(m)
            /\ waiting' = [waiting EXCEPT ![g] = Append(@, r)]
            /\ Goto(r, "waiting")
            /\ UNCHANGED active
      /\ UNCHANGED <<instanceVars, granted, expected, gate>>

\* The select of acquire takes the waiter's channel ...
Granted(r) ==
  /\ pc[r] = "waiting" /\ r \in granted
  /\ Goto(r, "holding")
  /\ UNCHANGED <<instanceVars, gateVars, expected, gate>>

\* ... or the context or the timer, which may be done at any time.
GiveUp(r) ==
  /\ pc[r] = "waiting"
  /\ Goto(r, "removing")
  /\ UNCHANGED <<instanceVars, gateVars, expected, gate>>

\* Mutant of RemoveWaiter: a waiter that gives up is turned away even if a slot was
\* handed to it meanwhile.
RemoveWaiterRegardless(r) ==
  LET g == gate[r]
  IN  /\ pc[r] = "removing"
      /\ waiting' = [waiting EXCEPT ![g] = SelectSeq(@, LAMBDA w : w # r)]
      /\ Goto(r, "rejected")
      /\ UNCHANGED <<instanceVars, active, maxActive, maxWaiting, granted,
                     expected, gate>>

\* Mutant of RemoveWaiter: the waiter stays in the list.
RemoveWaiterFromNowhere(r) ==
  /\ pc[r] = "removing"
  /\ Goto(r, IF r \in granted THEN "holding" ELSE "rejected")
  /\ UNCHANGED <<instanceVars, gateVars, expected, gate>>

\* removeWaiter.  A waiter granted in the meantime keeps its slot: acquire then
\* waits for its channel, which is closed, and returns the release function.
RemoveWaiter(r) ==
  LET g == gate[r]
  IN  /\ pc[r] = "removing"
      /\ \/ /\ r \notin granted
            /\ \E k \in 1..Len(waiting[g]) :
                 /\ waiting[g][k] = r
                 /\ waiting' = [waiting EXCEPT ![g] = RemoveAt(@, k)]
            /\ Goto(r, "rejected")
         \/ /\ r \in granted
            /\ Goto(r, "holding")
            /\ UNCHANGED waiting
      /\ UNCHANGED <<instanceVars, active, maxActive, maxWaiting, granted,
                     expected, gate>>

-----------------------------------------------------------------------------
(* acquireInference and the lease it returns.                              *)

\* The first look at the instance, under the read lock.
Look(r) ==
  /\ pc[r] = "new"
  /\ \/ /\ Serving /\ ~emergency
        /\ expected' = [expected EXCEPT ![r] = generation]
        /\ Goto(r, "looked")
     \/ /\ ~Serving \/ emergency
        /\ Goto(r, "rejected")
        /\ UNCHANGED expected
  /\ UNCHANGED <<instanceVars, gateVars, gate>>

\* m.inferenceGates[instanceID]: the gate of the latest start.
FindGate(r) ==
  /\ pc[r] = "looked"
  /\ gate' = [gate EXCEPT ![r] = generation]
  /\ Goto(r, "acquiring")
  /\ UNCHANGED <<instanceVars, gateVars, expected>>

\* The second look, under the lock: the lease counts only at the worker the
\* request has looked at.
Recheck(r) ==
  /\ pc[r] = "holding"
  /\ \/ /\ Serving /\ ~emergency
        /\ generation = expected[r] /\ secret = expected[r]
        /\ activeRequests' = activeRequests + 1
        /\ Goto(r, "leased")
     \/ /\ ~(Serving /\ generation = expected[r] /\ secret = expected[r]) \/ emergency
        /\ Goto(r, "giving_back")
        /\ UNCHANGED activeRequests
  /\ UNCHANGED <<routingVars, savedRequests, returned, emergency, gateVars, expected, gate>>

\* A request that failed the second look returns its slot.
GiveBack(r) ==
  /\ pc[r] = "giving_back"
  /\ Release(gate[r])
  /\ Goto(r, "rejected")
  /\ UNCHANGED <<instanceVars, expected, gate>>

\* The lease is released: first the slot ...
ReleaseSlot(r) ==
  /\ pc[r] = "leased"
  /\ Release(gate[r])
  /\ Goto(r, "released")
  /\ UNCHANGED <<instanceVars, expected, gate>>

\* Mutant of ReleaseLease: the count is decremented whatever it is and whoever's.
ReleaseLeaseOfAnyWorker(r) ==
  /\ pc[r] = "released"
  /\ activeRequests' = activeRequests - 1
  /\ Goto(r, "finished")
  /\ UNCHANGED <<routingVars, savedRequests, returned, emergency, gateVars, expected, gate>>

\* Mutant of ReleaseLease: a lease of an earlier worker is subtracted from the
\* present one.
ReleaseLeaseOfLaterWorker(r) ==
  /\ pc[r] = "released"
  /\ activeRequests' = IF activeRequests > 0 THEN activeRequests - 1 ELSE 0
  /\ Goto(r, "finished")
  /\ UNCHANGED <<routingVars, savedRequests, returned, emergency, gateVars, expected, gate>>

\* ... then the request count, of the same worker only.
ReleaseLease(r) ==
  /\ pc[r] = "released"
  /\ activeRequests' =
       IF generation = expected[r] /\ secret = expected[r] /\ activeRequests > 0
       THEN activeRequests - 1 ELSE activeRequests
  /\ Goto(r, "finished")
  /\ UNCHANGED <<routingVars, savedRequests, returned, emergency, gateVars, expected, gate>>

-----------------------------------------------------------------------------
(* What happens to the instance meanwhile.                                 *)

\* startOne commits a worker: the next generation and a gate of its own.
Commit ==
  /\ Routing!Commit /\ generation + 1 \in Generations
  /\ activeRequests' = 0 /\ savedRequests' = 0 /\ returned' = FALSE
  /\ UNCHANGED <<emergency, gateVars, pc, expected, gate>>

\* A restart drains the instance ...
Pause ==
  /\ Routing!Pause
  /\ UNCHANGED <<activeRequests, savedRequests, returned, emergency, gateVars,
                 pc, expected, gate>>

\* ... and reopens it when it is given up (mergeLiveWorkerRollback).
Reopen ==
  /\ Routing!Reopen
  /\ UNCHANGED <<activeRequests, savedRequests, returned, emergency, gateVars,
                 pc, expected, gate>>

\* A stop, deletion, eviction or emergency closes the instance, or the worker ends;
\* some of them clear the routing, and some of these the count as well.
Close ==
  /\ Routing!Close
  /\ activeRequests' \in {activeRequests, IF secret' = NoSecret THEN 0 ELSE activeRequests}
  /\ savedRequests' = IF saved' = NoSecret THEN 0 ELSE savedRequests
  /\ UNCHANGED <<returned, emergency, gateVars, pc, expected, gate>>

\* scheduleStartForModel of an instance that is not ready keeps a copy of it ...
Save ==
  /\ Routing!Save
  /\ savedRequests' = IF secret = NoSecret THEN 0 ELSE activeRequests
  /\ UNCHANGED <<activeRequests, returned, emergency, gateVars, pc, expected, gate>>

\* ... which, when it leaves the queue, replaces the instance, count and all.
Return ==
  /\ Routing!Return
  /\ activeRequests' = savedRequests /\ savedRequests' = 0 /\ returned' = TRUE
  /\ UNCHANGED <<emergency, gateVars, pc, expected, gate>>

\* setGuardState enters or leaves the emergency.
GuardChange ==
  /\ emergency' = ~emergency
  /\ UNCHANGED <<routingVars, activeRequests, savedRequests, returned, gateVars,
                 pc, expected, gate>>

-----------------------------------------------------------------------------
Progress(r) ==
  \/ Look(r) \/ FindGate(r) \/ Acquire(r)
  \/ Granted(r) \/ RemoveWaiter(r)
  \/ Recheck(r) \/ GiveBack(r)
  \/ ReleaseSlot(r) \/ ReleaseLease(r)

Next ==
  \/ \E r \in Requests : Progress(r) \/ GiveUp(r)
  \/ Commit \/ Pause \/ Reopen \/ Close \/ Save \/ Return
  \/ GuardChange

Spec == Init /\ [][Next]_vars

\* A request that can go on goes on, and one that has its answer releases its
\* lease; nobody is counted on to give up waiting.
FairSpec == Spec /\ \A r \in Requests : WF_vars(Progress(r))

-----------------------------------------------------------------------------
(* Properties.                                                             *)

Holding(g) ==
  {r \in Requests : /\ gate[r] = g
                    /\ \/ pc[r] \in {"holding", "leased", "giving_back"}
                       \/ pc[r] \in {"waiting", "removing"} /\ r \in granted}

Leases(g) == {r \in Requests : expected[r] = g /\ pc[r] \in {"leased", "released"}}

TypeOK ==
  /\ state \in {"closed", "ready", "paused"}
  /\ generation \in 0..Len(Limit) /\ secret \in 0..Len(Limit) /\ saved \in 0..Len(Limit)
  /\ activeRequests \in 0..Cardinality(Requests)
  /\ savedRequests \in 0..Cardinality(Requests)
  /\ returned \in BOOLEAN /\ emergency \in BOOLEAN
  /\ active \in [Generations -> 0..Cardinality(Requests)]
  /\ maxActive \in [Generations -> Nat]
  /\ maxWaiting \in [Generations -> 0..8]
  /\ waiting \in [Generations -> Seq(Requests)]
  /\ pc \in [Requests -> {"new", "looked", "acquiring", "waiting", "removing",
               "holding", "leased", "giving_back", "released", "rejected", "finished"}]
  /\ expected \in [Requests -> 0..Len(Limit)]
  /\ gate \in [Requests -> 0..Len(Limit)]
  /\ granted \subseteq Requests

\* No slot is lost or invented: the count of a gate is the number of requests
\* that hold or have been handed one of its slots, also when a waiter is granted
\* while its context or its timer fires.
SlotsAccounted ==
  \A g \in Generations : active[g] = Cardinality(Holding(g))

\* Nobody waits at a gate whose slots are all free (a slot is only handed over by
\* a release), and a waiter is in the list exactly until it is granted.
WaitersAreListed ==
  \A g \in Generations :
    /\ waiting[g] # <<>> => active[g] > 0
    /\ IsInjective(waiting[g])
    /\ Range(waiting[g]) = {r \in Requests : /\ gate[r] = g /\ r \notin granted
                                             /\ pc[r] \in {"waiting", "removing"}}

\* While the routing of a worker stands, a drain waits for every open lease of it: no
\* lease is missed and none of an earlier worker is subtracted.  It waits for nothing
\* else, unless a backup was put back with the count it was taken with.
DrainSeesLeases ==
  secret # NoSecret =>
    /\ activeRequests >= Cardinality(Leases(generation))
    /\ ~returned => activeRequests = Cardinality(Leases(generation))

\* The requests that have brought the limit of the worker they read to this gate.
Callers(g) == {r \in Requests : gate[r] = g /\ pc[r] \notin {"looked", "acquiring"}}

\* A gate never gives out more slots than the largest limit its callers have
\* brought along.  (It may exceed the limit of its own worker: a request that
\* looked at the previous worker brings the previous limit.)
GateIsBounded ==
  \A g \in Generations :
    active[g] > 0 => \E r \in Callers(g) : active[g] <= Limit[expected[r]]

\* A request that waits at a gate, even at the gate of a replaced worker, leaves
\* it without the help of its timeout.
WaitersAreServed ==
  \A r \in Requests : pc[r] = "waiting" ~> pc[r] \in {"finished", "rejected"}
=============================================================================

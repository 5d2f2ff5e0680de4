----------------------------- MODULE StartQueue -----------------------------
(***************************************************************************)
(* The start admission queue of the engine (modules/engine/admission.go):  *)
(* at most one plan transaction at a time may start workers, the others    *)
(* wait in priority order, and the queue is paused while the resource      *)
(* guard is not normal.                                                    *)
(*                                                                         *)
(* An actor of the model is the goroutine of one start operation           *)
(* (executePlanTransaction: enqueue, wait, run, done), or one of the two   *)
(* goroutines that publish a guard state (the maintenance loop and the     *)
(* runtime prewarm loop, both through setGuardState).  Every critical      *)
(* section of the queue mutex is one action.  Operation ids are fresh      *)
(* random strings, so an operation is enqueued once.  The positions map    *)
(* the methods return is a report and is left out.                         *)
(***************************************************************************)
EXTENDS Naturals, SequencesExt

CONSTANTS Ops,          \* start operations, identified by their id
          Names,        \* priority names the starts carry
          GuardStates,  \* resource guard states, with "normal" among them
          NoOp          \* the nil of q.active

\* Mutant of startPriority: pinned starts get a rank of their own above the scale.
startPriorityUnscaled == [pinned |-> 4, high |-> 4, normal |-> 2, low |-> 1]

\* startPriority maps the names an instance may carry to a rank.
startPriority == [pinned |-> 3, high |-> 3, normal |-> 2, low |-> 1]

ASSUME StartQueueAssumption ==
  /\ NoOp \notin Ops
  /\ Names \subseteq DOMAIN startPriority
  /\ "normal" \in GuardStates
  /\ "idle" \notin GuardStates

\* The goroutines that call setGuardState.
Setters == {"maintenance", "prewarm"}

VARIABLES
  entries,   \* q.entries: the operations the queue knows
  active,    \* q.active
  waiting,   \* q.waiting, head first
  next,      \* q.next
  paused,    \* q.paused
  priority,  \* entry.priority of a known operation, else 0
  sequence,  \* entry.sequence of a known operation, else 0
  ready,     \* known operations whose entry.ready channel is closed
  ctxDone,   \* operations whose wait context is done while they wait
  pc,        \* where the goroutine of an operation is
  guard,     \* m.guardState
  setter     \* the guard state a setter has committed but not yet passed on

queueVars == <<entries, active, waiting, next, paused, priority, sequence, ready>>
vars == <<queueVars, ctxDone, pc, guard, setter>>

Steps == {"new", "waiting", "withdrawing", "running", "rejected", "finished"}

Init ==
  /\ entries = {} /\ active = NoOp /\ waiting = <<>> /\ next = 0
  /\ paused = FALSE
  /\ priority = [o \in Ops |-> 0]
  /\ sequence = [o \in Ops |-> 0]
  /\ ready = {}
  /\ ctxDone = {}
  /\ pc = [o \in Ops |-> "new"]
  /\ guard = "normal"
  /\ setter = [s \in Setters |-> "idle"]

-----------------------------------------------------------------------------
(* The queue's own operations.                                             *)

\* Mutant of StaysAhead: the tie on the sequence number is forgotten.
StaysAheadByRank(left, p, n) == priority[left] > p

\* The waiting entry `left` keeps its place in front of a newcomer of rank p
\* and sequence number n.
StaysAhead(left, p, n) ==
  \/ priority[left] > p
  \/ priority[left] = p /\ sequence[left] < n

\* The insertion walks from the tail past every entry that does not stay ahead.
InsertWaiting(o, p, n) ==
  \E k \in 0..Len(waiting) :
    /\ k > 0 => StaysAhead(waiting[k], p, n)
    /\ \A j \in (k + 1)..Len(waiting) : ~StaysAhead(waiting[j], p, n)
    /\ waiting' = InsertAt(waiting, k + 1, o)

\* Mutant of promoteLocked: the pause flag is not looked at.
promoteLockedPaused(a, p, r) ==
  \/ /\ a = NoOp /\ waiting # <<>>
     /\ active' = Head(waiting)
     /\ waiting' = Tail(waiting)
     /\ ready' = r \cup {Head(waiting)}
  \/ /\ a # NoOp \/ waiting = <<>>
     /\ active' = a
     /\ ready' = r
     /\ UNCHANGED waiting

\* promoteLocked, on the active entry a, the pause flag p and the closed channels
\* r its caller leaves: the head becomes active and its channel is closed.
promoteLocked(a, p, r) ==
  \/ /\ ~p /\ a = NoOp /\ waiting # <<>>
     /\ active' = Head(waiting)
     /\ waiting' = Tail(waiting)
     /\ ready' = r \cup {Head(waiting)}
  \/ /\ p \/ a # NoOp \/ waiting = <<>>
     /\ active' = a
     /\ ready' = r
     /\ UNCHANGED waiting

\* delete(q.entries, id): the entry is gone with its fields.
Forget(o) ==
  /\ entries' = entries \ {o}
  /\ priority' = [priority EXCEPT ![o] = 0]
  /\ sequence' = [sequence EXCEPT ![o] = 0]

\* Mutant of Withdraw: the entry leaves the map, but not the list.
WithdrawFromMap(o) == Forget(o) /\ UNCHANGED <<waiting, ready, active, next, paused>>

\* A waiting entry leaves the queue; nothing is promoted, for the slot it did not
\* hold is not freed.
Withdraw(o) ==
  /\ Forget(o)
  /\ \E k \in 1..Len(waiting) :
       waiting[k] = o /\ waiting' = RemoveAt(waiting, k)
  /\ ready' = ready \ {o}
  /\ UNCHANGED <<active, next, paused>>

-----------------------------------------------------------------------------
(* The goroutine of a start operation.                                     *)

\* enqueue, called under the engine lock when the operation is created.
Enqueue(o, name) ==
  /\ pc[o] = "new"
  /\ next' = next + 1
  /\ entries' = entries \cup {o}
  /\ priority' = [priority EXCEPT ![o] = startPriority[name]]
  /\ sequence' = [sequence EXCEPT ![o] = next + 1]
  /\ \/ /\ active = NoOp /\ ~paused
        /\ active' = o
        /\ ready' = ready \cup {o}
        /\ UNCHANGED waiting
     \/ /\ active # NoOp \/ paused
        /\ InsertWaiting(o, startPriority[name], next + 1)
        /\ UNCHANGED <<active, ready>>
  /\ pc' = [pc EXCEPT ![o] = "waiting"]
  /\ UNCHANGED <<paused, ctxDone, guard, setter>>

\* cancelOperation, or the queue timeout: the wait context is done.
ContextDone(o) ==
  /\ pc[o] = "waiting"
  /\ ctxDone' = ctxDone \cup {o}
  /\ UNCHANGED <<queueVars, pc, guard, setter>>

\* wait: the select takes the ready channel ...
WaitReady(o) ==
  /\ pc[o] = "waiting" /\ o \in ready
  /\ pc' = [pc EXCEPT ![o] = "running"]
  /\ ctxDone' = ctxDone \ {o}
  /\ UNCHANGED <<queueVars, guard, setter>>

\* ... or the context, even when both are ready; the lock is taken afterwards.
WaitContextDone(o) ==
  /\ pc[o] = "waiting" /\ o \in ctxDone
  /\ pc' = [pc EXCEPT ![o] = "withdrawing"]
  /\ ctxDone' = ctxDone \ {o}
  /\ UNCHANGED <<queueVars, guard, setter>>

\* Mutant of WaitWithdraw: the promotion that came before the lock is overlooked.
WaitWithdrawUnchecked(o) ==
  /\ pc[o] = "withdrawing"
  /\ \/ /\ active = o
        /\ Forget(o)
        /\ UNCHANGED <<waiting, ready, active, next, paused>>
     \/ /\ active # o
        /\ Withdraw(o)
  /\ pc' = [pc EXCEPT ![o] = "rejected"]
  /\ UNCHANGED <<ctxDone, guard, setter>>

\* wait, under the lock again: an entry promoted in the meantime is granted all
\* the same, any other leaves the queue and wait returns the context's error.
WaitWithdraw(o) ==
  /\ pc[o] = "withdrawing"
  /\ \/ /\ active = o
        /\ pc' = [pc EXCEPT ![o] = "running"]
        /\ UNCHANGED queueVars
     \/ /\ active # o
        /\ Withdraw(o)
        /\ pc' = [pc EXCEPT ![o] = "rejected"]
  /\ UNCHANGED <<ctxDone, guard, setter>>

\* executePlanTransaction calls cancel after a failed wait, and nothing else does:
\* the entry is unknown by then and cancel returns at once.
Cancel(o) ==
  /\ pc[o] = "rejected" /\ o \notin entries
  /\ pc' = [pc EXCEPT ![o] = "finished"]
  /\ UNCHANGED <<queueVars, ctxDone, guard, setter>>

\* done, deferred by the transaction that was granted.
Done(o) ==
  /\ pc[o] = "running"
  /\ Forget(o)
  /\ promoteLocked(IF active = o THEN NoOp ELSE active, paused, ready \ {o})
  /\ pc' = [pc EXCEPT ![o] = "finished"]
  /\ UNCHANGED <<next, paused, ctxDone, guard, setter>>

-----------------------------------------------------------------------------
(* The guard state and the pause flag.                                     *)

\* setGuardState under its three mutexes; an unchanged state returns early.  The
\* prewarm loop only reports pressure it has measured itself.
SetGuard(s, g) ==
  /\ setter[s] = "idle" /\ guard # g
  /\ s = "prewarm" => g # "normal"
  /\ guard' = g
  /\ setter' = [setter EXCEPT ![s] = g]
  /\ UNCHANGED <<queueVars, ctxDone, pc>>

\* Mutant of SetPaused: a queue that is unpaused does not promote.
SetPausedOnly(s) ==
  /\ setter[s] # "idle"
  /\ paused' = (setter[s] # "normal")
  /\ setter' = [setter EXCEPT ![s] = "idle"]
  /\ UNCHANGED <<entries, active, waiting, next, priority, sequence, ready, ctxDone,
                 pc, guard>>

\* setPaused, called after the mutexes are released.
SetPaused(s) ==
  /\ setter[s] # "idle"
  /\ paused' = (setter[s] # "normal")
  /\ promoteLocked(active, setter[s] # "normal", ready)
  /\ setter' = [setter EXCEPT ![s] = "idle"]
  /\ UNCHANGED <<entries, next, priority, sequence, ctxDone, pc, guard>>

-----------------------------------------------------------------------------
OperationStep(o) ==
  \/ \E name \in Names : Enqueue(o, name)
  \/ ContextDone(o)
  \/ WaitReady(o)
  \/ WaitContextDone(o)
  \/ WaitWithdraw(o)
  \/ Cancel(o)
  \/ Done(o)

SetterStep(s) ==
  \/ \E g \in GuardStates : SetGuard(s, g)
  \/ SetPaused(s)

Next ==
  \/ \E o \in Ops : OperationStep(o)
  \/ \E s \in Setters : SetterStep(s)

Spec == Init /\ [][Next]_vars

\* A goroutine that can take its next step takes it.  A granted transaction
\* returns (every wait it makes has a timeout) and so calls done.  Neither a
\* cancellation nor the ten minutes of the queue timeout is counted on.
Fairness ==
  /\ \A o \in Ops :
       WF_vars(WaitReady(o) \/ WaitContextDone(o) \/ WaitWithdraw(o)
                 \/ Cancel(o) \/ Done(o))
  /\ \A s \in Setters : WF_vars(SetPaused(s))

FairSpec == Spec /\ Fairness

-----------------------------------------------------------------------------
(* Properties.                                                             *)

\* Every variable has its type.
TypeOK ==
  /\ entries \in SUBSET Ops
  /\ active \in Ops \cup {NoOp}
  /\ waiting \in Seq(Ops)
  /\ next \in Nat
  /\ paused \in BOOLEAN
  /\ priority \in [Ops -> 0..3]
  /\ sequence \in [Ops -> Nat]
  /\ ready \in SUBSET Ops
  /\ ctxDone \in SUBSET Ops
  /\ pc \in [Ops -> Steps]
  /\ guard \in GuardStates
  /\ setter \in [Setters -> GuardStates \cup {"idle"}]

\* The slot is never lost and never shared: a transaction past its wait holds
\* it, and whoever holds it has a goroutine that will still call done, whichever
\* of the ready channel and the done context its select took.
SlotOwned ==
  /\ \A o \in Ops : pc[o] = "running" => active = o
  /\ active # NoOp => pc[active] \in {"waiting", "withdrawing", "running"}

\* The queue never idles: while starts wait and the queue is not paused, one of
\* them holds the slot.
WorkConserving == ~paused /\ waiting # <<>> => active # NoOp

\* The list, the slot and the map agree: exactly the operations that wait or run
\* are known, none of them twice.
NoStrandedEntry ==
  /\ entries = Range(waiting) \cup ({active} \ {NoOp})
  /\ active \notin Range(waiting)
  /\ IsInjective(waiting)
  /\ entries = {o \in Ops : pc[o] \in {"waiting", "withdrawing", "running"}}

\* A start that takes the slot overtakes nobody of its rank who came earlier and
\* nobody of a higher rank.
PriorityOrder ==
  [][\A o, other \in Ops :
       /\ active # o /\ active' = o
       /\ other \in Range(waiting)
       /\ other # o
       => \/ priority[o] > priority[other]
          \/ priority[o] = priority[other] /\ sequence[o] < sequence[other]]_vars

\* The requests of the abstract slot: the waiting entries, without their order.
Standing ==
  {[client |-> o, rank |-> priority[o], number |-> sequence[o]] : o \in Range(waiting)}

Slot == INSTANCE StartSlot
        WITH Clients <- Ops, Ranks <- {startPriority[name] : name \in Names},
             Nobody <- NoOp, holder <- active, requests <- Standing, arrivals <- next,
             closed <- paused

\* The queue implements the slot it stands for: list, entry map, channels and the
\* races of wait are not seen from outside, one lock section at a time.
ImplementsSlot == Slot!Spec

\* A queue that is unpaused again and again starts everyone in it, without the
\* help of the queue timeout.
UnpausedQueueDrains ==
  []<>~paused =>
    \A o \in Ops : pc[o] = "waiting" ~> pc[o] \in {"running", "finished"}

\* What the error text of resource_guard.go:335 says: while the guard is raised
\* (and no setter is between its commit and setPaused) new starts are paused.
PausedUnderGuard ==
  (\A s \in Setters : setter[s] = "idle") /\ guard # "normal" => paused
=============================================================================

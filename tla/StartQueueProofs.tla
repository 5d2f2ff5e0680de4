-------------------------- MODULE StartQueueProofs --------------------------
(***************************************************************************)
(* Proofs about the start admission queue, for every set of operations,    *)
(* priority names and guard states.  The inductive invariant adds to the   *)
(* properties of StartQueue that exactly the active entry has its channel  *)
(* closed and that the waiting list is in order.                           *)
(***************************************************************************)
EXTENDS StartQueue, ListProofs

-----------------------------------------------------------------------------
(* What the three list operations do to the order.                        *)

\* In the order of the queue a comes before b: a higher rank, or the same rank
\* and an earlier arrival.
Precedes(p, q, a, b) == p[a] > p[b] \/ (p[a] = p[b] /\ q[a] < q[b])

InOrder(s, p, q) ==
  \A i, j \in 1..Len(s) : i < j => Precedes(p, q, s[i], s[j])

LEMMA InsertInOrder ==
  ASSUME NEW S, NEW s \in Seq(S), NEW k \in 1..(Len(s) + 1), NEW e \in S,
         NEW p, NEW q,
         InOrder(s, p, q),
         \A j \in 1..(k - 1) : Precedes(p, q, s[j], e),
         \A j \in k..Len(s) : Precedes(p, q, e, s[j])
  PROVE  InOrder(InsertAt(s, k, e), p, q)
<1> DEFINE t == InsertAt(s, k, e)
           prec(a, b) == Precedes(p, q, a, b)
<1>1. /\ Len(t) = Len(s) + 1 /\ Len(s) \in Nat
      /\ \A j \in 1..(Len(s) + 1) :
           t[j] = IF j < k THEN s[j] ELSE IF j = k THEN e ELSE s[j - 1]
  BY InsertPointwise, LenProperties
<1>2. /\ \A i, j \in 1..Len(s) : i < j => prec(s[i], s[j])
      /\ \A j \in 1..(k - 1) : prec(s[j], e)
      /\ \A j \in k..Len(s) : prec(e, s[j])
  BY DEF InOrder
<1> SUFFICES ASSUME NEW i \in 1..(Len(s) + 1), NEW j \in 1..(Len(s) + 1), i < j
             PROVE  prec(t[i], t[j])
  BY <1>1 DEF InOrder
<1> HIDE DEF t, prec
<1>3. CASE j < k
  BY <1>1, <1>2, <1>3
<1>4. CASE j = k
  <2>1. i \in 1..(k - 1) /\ t[i] = s[i] /\ t[j] = e
    BY <1>1, <1>4
  <2> QED BY <1>2, <2>1
<1>5. CASE j > k
  <2>1. t[j] = s[j - 1] /\ j - 1 \in k..Len(s)
    BY <1>1, <1>5
  <2>2. CASE i < k
    BY <1>1, <1>2, <2>1, <2>2
  <2>3. CASE i = k
    BY <1>1, <1>2, <2>1, <2>3
  <2>4. CASE i > k
    <3>1. t[i] = s[i - 1] /\ i - 1 \in 1..Len(s) /\ i - 1 < j - 1
      BY <1>1, <2>4
    <3> QED BY <1>1, <1>2, <2>1, <3>1
  <2> QED BY <1>1, <2>2, <2>3, <2>4
<1> QED BY <1>1, <1>3, <1>4, <1>5

LEMMA RemoveInOrder ==
  ASSUME NEW S, NEW s \in Seq(S), NEW k \in 1..Len(s), NEW p, NEW q,
         InOrder(s, p, q)
  PROVE  InOrder(RemoveAt(s, k), p, q)
<1> DEFINE t == RemoveAt(s, k)
<1>1. /\ Len(t) = Len(s) - 1 /\ Len(s) \in Nat
      /\ \A j \in 1..(Len(s) - 1) : t[j] = IF j < k THEN s[j] ELSE s[j + 1]
  BY RemovePointwise, LenProperties
<1> SUFFICES ASSUME NEW i \in 1..(Len(s) - 1), NEW j \in 1..(Len(s) - 1), i < j
             PROVE  Precedes(p, q, t[i], t[j])
  BY <1>1 DEF InOrder
<1> HIDE DEF t
<1>2. PICK x, y \in 1..Len(s) : t[i] = s[x] /\ t[j] = s[y] /\ x < y
  <2>1. /\ i \in 1..Len(s) /\ i + 1 \in 1..Len(s)
        /\ j \in 1..Len(s) /\ j + 1 \in 1..Len(s)
    BY <1>1
  <2>2. CASE j < k
    <3>1. t[i] = s[i] /\ t[j] = s[j]
      BY <1>1, <2>2
    <3> QED BY <2>1, <3>1
  <2>3. CASE i < k /\ j >= k
    <3>1. t[i] = s[i] /\ t[j] = s[j + 1] /\ i < j + 1
      BY <1>1, <2>3
    <3> QED BY <2>1, <3>1
  <2>4. CASE i >= k
    <3>1. t[i] = s[i + 1] /\ t[j] = s[j + 1] /\ i + 1 < j + 1
      BY <1>1, <2>4
    <3> QED BY <2>1, <3>1
  <2> QED BY <1>1, <2>2, <2>3, <2>4
<1> QED BY <1>2 DEF InOrder

LEMMA TailInOrder ==
  ASSUME NEW S, NEW s \in Seq(S), s # <<>>, NEW p, NEW q, InOrder(s, p, q)
  PROVE  /\ InOrder(Tail(s), p, q)
         /\ \A x \in Range(s) : x # Head(s) => Precedes(p, q, Head(s), x)
<1> DEFINE t == Tail(s)
<1>1. /\ Len(t) = Len(s) - 1 /\ Len(s) \in Nat \ {0}
      /\ \A j \in 1..(Len(s) - 1) : t[j] = s[j + 1]
      /\ Head(s) = s[1]
      /\ Range(s) = {s[j] : j \in 1..Len(s)}
  BY HeadTailProperties, LenProperties, EmptySeq, RangeEquality
<1> HIDE DEF t
<1>2. InOrder(t, p, q)
  <2> SUFFICES ASSUME NEW i \in 1..(Len(s) - 1), NEW j \in 1..(Len(s) - 1), i < j
               PROVE  Precedes(p, q, t[i], t[j])
    BY <1>1 DEF InOrder
  <2>1. i + 1 \in 1..Len(s) /\ j + 1 \in 1..Len(s) /\ i + 1 < j + 1
    BY <1>1
  <2> QED BY <1>1, <2>1 DEF InOrder
<1>3. ASSUME NEW x \in Range(s), x # Head(s)
      PROVE  Precedes(p, q, Head(s), x)
  <2>1. PICK j \in 1..Len(s) : x = s[j]
    BY <1>1
  <2>2. 1 \in 1..Len(s) /\ 1 < j
    BY <1>1, <1>3, <2>1
  <2> QED BY <1>1, <2>1, <2>2 DEF InOrder
<1> QED BY <1>2, <1>3 DEF t

-----------------------------------------------------------------------------
(* The inductive invariant.                                                *)

\* The channel of the active entry is closed, and no other one.
ReadyIsActive == ready = {active} \ {NoOp}

\* The list is in the order of ranks and arrivals, and a newcomer's sequence
\* number exceeds every number in it.
WaitingInOrder ==
  /\ InOrder(waiting, priority, sequence)
  /\ \A o \in Ops : sequence[o] <= next

IInv ==
  /\ TypeOK
  /\ SlotOwned
  /\ WorkConserving
  /\ NoStrandedEntry
  /\ ReadyIsActive
  /\ WaitingInOrder

\* promoteLocked keeps the members of the queue, frees no slot and fills an
\* empty one; it takes the head of the list.
LEMMA PromoteKeepsMembers ==
  ASSUME waiting \in Seq(Ops), IsInjective(waiting),
         NEW a \in Ops \cup {NoOp}, a \notin Range(waiting),
         NEW p \in BOOLEAN, NEW r, r = {a} \ {NoOp},
         promoteLocked(a, p, r), NoOp \notin Ops
  PROVE  /\ active' \in Ops \cup {NoOp}
         /\ waiting' \in Seq(Ops)
         /\ IsInjective(waiting')
         /\ ready' = {active'} \ {NoOp}
         /\ active' \notin Range(waiting')
         /\ Range(waiting') \cup ({active'} \ {NoOp})
              = Range(waiting) \cup ({a} \ {NoOp})
         /\ Range(waiting') \subseteq Range(waiting)
         /\ active' = a \/ (active' \in Range(waiting) /\ a = NoOp)
         /\ ~p /\ waiting' # <<>> => active' # NoOp
         /\ a # NoOp => active' = a
<1>1. CASE ~p /\ a = NoOp /\ waiting # <<>>
  <2>1. /\ active' = Head(waiting)
        /\ waiting' = Tail(waiting)
        /\ ready' = r \cup {Head(waiting)}
    BY <1>1 DEF promoteLocked
  <2>2. /\ Head(waiting) \in Range(waiting) /\ Head(waiting) \in Ops
        /\ Tail(waiting) \in Seq(Ops)
        /\ Range(Tail(waiting)) = Range(waiting) \ {Head(waiting)}
        /\ IsInjective(Tail(waiting))
    BY <1>1, TailMembers
  <2> QED BY <1>1, <2>1, <2>2
<1>2. CASE p \/ a # NoOp \/ waiting = <<>>
  <2>1. active' = a /\ ready' = r /\ waiting' = waiting
    BY <1>2 DEF promoteLocked
  <2> QED BY <1>2, <2>1
<1> QED BY <1>1, <1>2

\* The order survives a promotion, and the one who is promoted comes first.
LEMMA PromoteKeepsOrder ==
  ASSUME waiting \in Seq(Ops), NEW a, NEW p \in BOOLEAN, NEW r,
         promoteLocked(a, p, r), NEW f, NEW g, InOrder(waiting, f, g)
  PROVE  /\ InOrder(waiting', f, g)
         /\ active' # a =>
              \A x \in Range(waiting) : x # active' => Precedes(f, g, active', x)
<1>1. CASE ~p /\ a = NoOp /\ waiting # <<>>
  <2>1. active' = Head(waiting) /\ waiting' = Tail(waiting)
    BY <1>1 DEF promoteLocked
  <2> QED BY <1>1, <2>1, TailInOrder
<1>2. CASE p \/ a # NoOp \/ waiting = <<>>
  BY <1>2 DEF promoteLocked
<1> QED BY <1>1, <1>2

-----------------------------------------------------------------------------
(* The invariant holds initially and every action preserves it.            *)

LEMMA InitIInv == Init => IInv
<1> SUFFICES ASSUME Init PROVE IInv
  OBVIOUS
<1> USE StartQueueAssumption
<1>1. TypeOK
  <2>1. waiting \in Seq(Ops)
    BY EmptySeq DEF Init
  <2>2. setter \in [Setters -> GuardStates \cup {"idle"}]
    BY DEF Init
  <2>3. /\ pc \in [Ops -> Steps]
        /\ priority \in [Ops -> 0..3] /\ sequence \in [Ops -> Nat]
    BY DEF Init, Steps
  <2> QED BY <2>1, <2>2, <2>3 DEF Init, TypeOK
<1>2. SlotOwned /\ WorkConserving /\ ReadyIsActive
  BY DEF Init, SlotOwned, WorkConserving, ReadyIsActive
<1>3. Range(waiting) = {} /\ IsInjective(waiting)
  BY DEF Init, Range, IsInjective
<1>4. NoStrandedEntry
  BY <1>3 DEF Init, NoStrandedEntry
<1>5. WaitingInOrder
  <2>1. InOrder(waiting, priority, sequence)
    BY DEF Init, InOrder
  <2> QED BY <2>1 DEF Init, WaitingInOrder
<1> QED BY <1>1, <1>2, <1>4, <1>5 DEF IInv

\* A rank is one of 0..3, the rank of a newcomer is not 0.
LEMMA PriorityRange ==
  \A name \in Names : startPriority[name] \in 0..3
BY StartQueueAssumption DEF startPriority

LEMMA EnqueueIInv ==
  ASSUME IInv, NEW o \in Ops, NEW name \in Names, Enqueue(o, name)
  PROVE  IInv'
<1> DEFINE p == startPriority[name]
<1>0. p \in 0..3
  BY PriorityRange
<1> HIDE DEF p
<1>1. /\ TypeOK /\ SlotOwned /\ WorkConserving /\ NoStrandedEntry
      /\ ReadyIsActive /\ WaitingInOrder
  BY DEF IInv
<1>2. /\ pc[o] = "new" /\ o \notin entries /\ o \notin Range(waiting)
      /\ o # active /\ o # NoOp
  BY <1>1, StartQueueAssumption DEF Enqueue, NoStrandedEntry
<1>3. /\ next' = next + 1
      /\ entries' = entries \cup {o}
      /\ priority' = [priority EXCEPT ![o] = p]
      /\ sequence' = [sequence EXCEPT ![o] = next + 1]
      /\ pc' = [pc EXCEPT ![o] = "waiting"]
      /\ UNCHANGED <<paused, ctxDone, guard, setter>>
  BY DEF Enqueue, p
<1>4. \A x \in Range(waiting) :
        x \in Ops /\ x # o /\ priority'[x] = priority[x] /\ sequence'[x] = sequence[x]
  BY <1>1, <1>2, <1>3, RangeOfSeq DEF TypeOK
<1>5. InOrder(waiting, priority', sequence')
  <2>1. \A j \in 1..Len(waiting) : waiting[j] \in Range(waiting)
    BY <1>1, RangeEquality DEF TypeOK
  <2> QED BY <1>1, <1>4, <2>1 DEF InOrder, Precedes, WaitingInOrder
<1>6. /\ \A x \in Ops : sequence'[x] <= next'
      /\ priority' \in [Ops -> 0..3] /\ sequence' \in [Ops -> Nat] /\ next' \in Nat
  BY <1>0, <1>1, <1>3 DEF TypeOK, WaitingInOrder
<1>7. CASE active = NoOp /\ ~paused /\ active' = o /\ ready' = ready \cup {o}
           /\ waiting' = waiting
  <2>1. waiting = <<>>
    BY <1>1, <1>7 DEF WorkConserving
  <2>2. Range(waiting) = {}
    BY <2>1 DEF Range
  <2>3. TypeOK'
    BY <1>1, <1>3, <1>6, <1>7 DEF TypeOK, Steps
  <2>4. SlotOwned' /\ WorkConserving' /\ ReadyIsActive'
    BY <1>1, <1>2, <1>3, <1>7, <2>1, StartQueueAssumption
       DEF SlotOwned, WorkConserving, ReadyIsActive, TypeOK
  <2>5. NoStrandedEntry'
    BY <1>1, <1>2, <1>3, <1>7, <2>2 DEF NoStrandedEntry, TypeOK
  <2>6. WaitingInOrder'
    BY <1>5, <1>6, <1>7 DEF WaitingInOrder
  <2> QED BY <2>3, <2>4, <2>5, <2>6 DEF IInv
<1>8. CASE (active # NoOp \/ paused) /\ InsertWaiting(o, p, next + 1)
           /\ UNCHANGED <<active, ready>>
  <2>1. PICK k \in 0..Len(waiting) :
          /\ k > 0 => StaysAhead(waiting[k], p, next + 1)
          /\ \A j \in (k + 1)..Len(waiting) : ~StaysAhead(waiting[j], p, next + 1)
          /\ waiting' = InsertAt(waiting, k + 1, o)
    BY <1>8 DEF InsertWaiting
  <2>2. waiting \in Seq(Ops) /\ Len(waiting) \in Nat /\ IsInjective(waiting)
    BY <1>1, LenProperties DEF TypeOK, NoStrandedEntry
  <2>3. k + 1 \in 1..(Len(waiting) + 1)
    BY <2>2
  <2>4. /\ waiting' \in Seq(Ops)
        /\ Range(waiting') = Range(waiting) \cup {o}
        /\ IsInjective(waiting')
    <3>1. InsertAt(waiting, k + 1, o) \in Seq(Ops)
      BY <2>2, <2>3, InsertPointwise
    <3>2. /\ Range(InsertAt(waiting, k + 1, o)) = Range(waiting) \cup {o}
          /\ IsInjective(InsertAt(waiting, k + 1, o))
      BY <1>2, <2>2, <2>3, InsertMembers
    <3> QED BY <2>1, <3>1, <3>2
  <2>5. /\ \A j \in 1..Len(waiting) : waiting[j] \in Range(waiting)
        /\ \A j \in 1..Len(waiting) : waiting[j] \in Ops
    BY <1>4, <2>2, RangeEquality
  <2>6. ASSUME NEW j \in 1..(k + 1 - 1)
        PROVE  Precedes(priority', sequence', waiting[j], o)
    <3>1. k \in 1..Len(waiting) /\ j \in 1..Len(waiting) /\ j <= k
      BY <2>2
    <3> DEFINE pj == priority[waiting[j]]
               pk == priority[waiting[k]]
    <3>2. pj \in 0..3 /\ pk \in 0..3
      BY <1>1, <2>5, <3>1 DEF TypeOK
    <3>3. j < k => pj > pk \/ pj = pk
      BY <1>1, <3>1 DEF WaitingInOrder, InOrder, Precedes
    <3>4. pj >= p
      <4>1. pk > p \/ pk = p
        BY <2>1, <3>1 DEF StaysAhead
      <4>2. j = k => pj = pk
        OBVIOUS
      <4> HIDE DEF pj, pk
      <4> QED BY <1>0, <3>1, <3>2, <3>3, <4>1, <4>2
    <3>5. sequence[waiting[j]] < next + 1
      BY <1>1, <2>5, <3>1 DEF WaitingInOrder, TypeOK
    <3>6. /\ priority'[waiting[j]] = priority[waiting[j]]
          /\ sequence'[waiting[j]] = sequence[waiting[j]]
      BY <1>4, <2>5, <3>1
    <3>7. priority'[o] = p /\ sequence'[o] = next + 1
      BY <1>1, <1>3 DEF TypeOK
    <3>8. priority[waiting[j]] \in 0..3 /\ sequence[waiting[j]] \in Nat
      BY <1>1, <2>5, <3>1 DEF TypeOK
    <3> QED BY <1>0, <3>4, <3>5, <3>6, <3>7, <3>8 DEF Precedes, pj
  <2>7. ASSUME NEW j \in (k + 1)..Len(waiting)
        PROVE  Precedes(priority', sequence', o, waiting[j])
    <3>1. j \in 1..Len(waiting) /\ ~StaysAhead(waiting[j], p, next + 1)
      BY <2>1, <2>2
    <3>2. priority[waiting[j]] \in 0..3 /\ sequence[waiting[j]] <= next
          /\ sequence[waiting[j]] \in Nat /\ next \in Nat
      BY <1>1, <2>5, <3>1 DEF WaitingInOrder, TypeOK
    <3>3. priority[waiting[j]] < p
      BY <1>0, <3>1, <3>2 DEF StaysAhead
    <3>4. priority'[waiting[j]] = priority[waiting[j]] /\ priority'[o] = p
      BY <1>1, <1>3, <1>4, <2>5, <3>1 DEF TypeOK
    <3> QED BY <1>0, <3>2, <3>3, <3>4 DEF Precedes
  <2>8. InOrder(waiting', priority', sequence')
    BY <1>5, <2>1, <2>2, <2>3, <2>6, <2>7, InsertInOrder
  <2>9. TypeOK'
    BY <1>1, <1>3, <1>6, <1>8, <2>4 DEF TypeOK, Steps
  <2>10. SlotOwned' /\ WorkConserving' /\ ReadyIsActive'
    BY <1>1, <1>2, <1>3, <1>8 DEF SlotOwned, WorkConserving, ReadyIsActive, TypeOK
  <2>11. NoStrandedEntry'
    BY <1>1, <1>2, <1>3, <1>8, <2>4 DEF NoStrandedEntry, TypeOK
  <2>12. WaitingInOrder'
    BY <1>6, <2>8 DEF WaitingInOrder
  <2> QED BY <2>9, <2>10, <2>11, <2>12 DEF IInv
<1> QED BY <1>7, <1>8 DEF Enqueue, p

LEMMA WithdrawIInv ==
  ASSUME IInv, NEW o \in Ops, WaitWithdraw(o)
  PROVE  IInv'
<1>1. /\ TypeOK /\ SlotOwned /\ WorkConserving /\ NoStrandedEntry
      /\ ReadyIsActive /\ WaitingInOrder
  BY DEF IInv
<1>2. pc[o] = "withdrawing" /\ UNCHANGED <<ctxDone, guard, setter>>
  BY DEF WaitWithdraw
<1>3. CASE active = o /\ pc' = [pc EXCEPT ![o] = "running"] /\ UNCHANGED queueVars
  <2>1. TypeOK'
    BY <1>1, <1>2, <1>3 DEF TypeOK, Steps, queueVars
  <2>2. SlotOwned'
    BY <1>1, <1>3 DEF SlotOwned, TypeOK, queueVars
  <2>3. WorkConserving' /\ ReadyIsActive' /\ WaitingInOrder'
    BY <1>1, <1>3 DEF WorkConserving, ReadyIsActive, WaitingInOrder, queueVars
  <2>4. NoStrandedEntry'
    BY <1>1, <1>2, <1>3 DEF NoStrandedEntry, TypeOK, queueVars
  <2> QED BY <2>1, <2>2, <2>3, <2>4 DEF IInv
<1>4. CASE active # o /\ Withdraw(o) /\ pc' = [pc EXCEPT ![o] = "rejected"]
  <2>1. PICK k \in 1..Len(waiting) :
          waiting[k] = o /\ waiting' = RemoveAt(waiting, k)
    BY <1>4 DEF Withdraw
  <2>2. /\ entries' = entries \ {o}
        /\ priority' = [priority EXCEPT ![o] = 0]
        /\ sequence' = [sequence EXCEPT ![o] = 0]
        /\ ready' = ready \ {o}
        /\ UNCHANGED <<active, next, paused>>
    BY <1>4 DEF Withdraw, Forget
  <2>3. waiting \in Seq(Ops) /\ IsInjective(waiting)
    BY <1>1 DEF TypeOK, NoStrandedEntry
  <2>4. /\ waiting' \in Seq(Ops)
        /\ Range(waiting') = Range(waiting) \ {o}
        /\ IsInjective(waiting')
    BY <2>1, <2>3, RemovePointwise, RemoveMembers
  <2>5. TypeOK'
    BY <1>1, <1>2, <1>4, <2>2, <2>4 DEF TypeOK, Steps
  <2>6. SlotOwned'
    BY <1>1, <1>4, <2>2 DEF SlotOwned, TypeOK
  <2>7. WorkConserving'
    <3>1. waiting # <<>>
      BY <2>1, <2>3, LenProperties
    <3> QED BY <1>1, <2>2, <3>1 DEF WorkConserving
  <2>8. ReadyIsActive'
    BY <1>1, <1>4, <2>2 DEF ReadyIsActive
  <2>9. NoStrandedEntry'
    BY <1>1, <1>4, <2>2, <2>4 DEF NoStrandedEntry, TypeOK
  <2>10. WaitingInOrder'
    <3>1. InOrder(waiting', priority, sequence)
      BY <1>1, <2>1, <2>3, RemoveInOrder DEF WaitingInOrder
    <3>2. \A j \in 1..Len(waiting') : waiting'[j] \in Range(waiting')
      BY <2>4, RangeEquality
    <3>3. \A x \in Range(waiting') :
            priority'[x] = priority[x] /\ sequence'[x] = sequence[x]
      BY <1>1, <2>2, <2>4, RangeOfSeq DEF TypeOK
    <3>4. InOrder(waiting', priority', sequence')
      BY <3>1, <3>2, <3>3 DEF InOrder, Precedes
    <3>5. \A x \in Ops : sequence'[x] <= next'
      BY <1>1, <2>2 DEF WaitingInOrder, TypeOK
    <3> QED BY <3>4, <3>5 DEF WaitingInOrder
  <2> QED BY <2>5, <2>6, <2>7, <2>8, <2>9, <2>10 DEF IInv
<1> QED BY <1>3, <1>4 DEF WaitWithdraw

LEMMA DoneIInv ==
  ASSUME IInv, NEW o \in Ops, Done(o)
  PROVE  IInv'
<1>1. /\ TypeOK /\ SlotOwned /\ WorkConserving /\ NoStrandedEntry
      /\ ReadyIsActive /\ WaitingInOrder
  BY DEF IInv
<1>2. /\ pc[o] = "running" /\ active = o /\ o \notin Range(waiting)
      /\ pc' = [pc EXCEPT ![o] = "finished"]
      /\ entries' = entries \ {o}
      /\ priority' = [priority EXCEPT ![o] = 0]
      /\ sequence' = [sequence EXCEPT ![o] = 0]
      /\ UNCHANGED <<next, paused, ctxDone, guard, setter>>
  BY <1>1 DEF Done, Forget, SlotOwned, NoStrandedEntry
<1>3. promoteLocked(NoOp, paused, {})
  BY <1>1, <1>2 DEF Done, ReadyIsActive
<1>4. /\ waiting \in Seq(Ops) /\ IsInjective(waiting) /\ paused \in BOOLEAN
      /\ Range(waiting) \subseteq Ops /\ NoOp \notin Ops
  BY <1>1, RangeOfSeq, StartQueueAssumption DEF TypeOK, NoStrandedEntry
<1>5. /\ active' \in Ops \cup {NoOp}
      /\ waiting' \in Seq(Ops)
      /\ IsInjective(waiting')
      /\ ready' = {active'} \ {NoOp}
      /\ active' \notin Range(waiting')
      /\ Range(waiting') \cup ({active'} \ {NoOp}) = Range(waiting)
      /\ Range(waiting') \subseteq Range(waiting)
      /\ active' = NoOp \/ active' \in Range(waiting)
      /\ ~paused /\ waiting' # <<>> => active' # NoOp
  BY <1>3, <1>4, PromoteKeepsMembers
<1>6. TypeOK'
  BY <1>1, <1>2, <1>4, <1>5 DEF TypeOK, Steps
<1>7. SlotOwned'
  <2>1. \A x \in Ops : x # o => pc[x] # "running"
    BY <1>1, <1>2 DEF SlotOwned
  <2>2. \A x \in Range(waiting) : pc[x] \in {"waiting", "withdrawing"}
    BY <1>1, <1>2, <1>4, <2>1 DEF NoStrandedEntry
  <2> QED BY <1>1, <1>2, <1>4, <1>5, <2>1, <2>2 DEF SlotOwned, TypeOK
<1>8. WorkConserving' /\ ReadyIsActive'
  BY <1>2, <1>5 DEF WorkConserving, ReadyIsActive
<1>9. NoStrandedEntry'
  BY <1>1, <1>2, <1>4, <1>5 DEF NoStrandedEntry, TypeOK
<1>10. WaitingInOrder'
  <2>1. InOrder(waiting', priority, sequence)
    BY <1>1, <1>3, <1>4, PromoteKeepsOrder DEF WaitingInOrder
  <2>2. \A j \in 1..Len(waiting') : waiting'[j] \in Range(waiting')
    BY <1>5, RangeEquality
  <2>3. \A x \in Range(waiting') :
          priority'[x] = priority[x] /\ sequence'[x] = sequence[x]
    BY <1>1, <1>2, <1>4, <1>5 DEF TypeOK
  <2>4. InOrder(waiting', priority', sequence')
    BY <2>1, <2>2, <2>3 DEF InOrder, Precedes
  <2>5. \A x \in Ops : sequence'[x] <= next'
    BY <1>1, <1>2 DEF WaitingInOrder, TypeOK
  <2> QED BY <2>4, <2>5 DEF WaitingInOrder
<1> QED BY <1>6, <1>7, <1>8, <1>9, <1>10 DEF IInv

LEMMA SetPausedIInv ==
  ASSUME IInv, NEW s \in Setters, SetPaused(s)
  PROVE  IInv'
<1>1. /\ TypeOK /\ SlotOwned /\ WorkConserving /\ NoStrandedEntry
      /\ ReadyIsActive /\ WaitingInOrder
  BY DEF IInv
<1> DEFINE p == setter[s] # "normal"
<1>2. /\ paused' = p
      /\ promoteLocked(active, p, ready)
      /\ setter' = [setter EXCEPT ![s] = "idle"]
      /\ UNCHANGED <<entries, next, priority, sequence, ctxDone, pc, guard>>
  BY DEF SetPaused
<1>3. p \in BOOLEAN
  OBVIOUS
<1> HIDE DEF p
<1>4. /\ waiting \in Seq(Ops) /\ IsInjective(waiting)
      /\ Range(waiting) \subseteq Ops /\ NoOp \notin Ops
      /\ active \in Ops \cup {NoOp} /\ active \notin Range(waiting)
      /\ ready = {active} \ {NoOp}
  BY <1>1, RangeOfSeq, StartQueueAssumption
     DEF TypeOK, NoStrandedEntry, ReadyIsActive
<1>5. /\ active' \in Ops \cup {NoOp}
      /\ waiting' \in Seq(Ops)
      /\ IsInjective(waiting')
      /\ ready' = {active'} \ {NoOp}
      /\ active' \notin Range(waiting')
      /\ Range(waiting') \cup ({active'} \ {NoOp})
           = Range(waiting) \cup ({active} \ {NoOp})
      /\ active' = active \/ (active' \in Range(waiting) /\ active = NoOp)
      /\ ~p /\ waiting' # <<>> => active' # NoOp
  BY <1>2, <1>3, <1>4, PromoteKeepsMembers
<1>6. TypeOK'
  BY <1>1, <1>2, <1>3, <1>4, <1>5 DEF TypeOK
<1>7. SlotOwned'
  <2>1. CASE active' = active
    BY <1>1, <1>2, <2>1 DEF SlotOwned
  <2>2. CASE active' \in Range(waiting) /\ active = NoOp
    <3>1. \A x \in Ops : pc[x] # "running"
      BY <1>1, <1>4, <2>2 DEF SlotOwned
    <3>2. pc[active'] \in {"waiting", "withdrawing", "running"}
      BY <1>1, <1>4, <2>2 DEF NoStrandedEntry
    <3> QED BY <1>2, <3>1, <3>2 DEF SlotOwned
  <2> QED BY <1>5, <2>1, <2>2
<1>8. WorkConserving' /\ ReadyIsActive'
  BY <1>2, <1>5 DEF WorkConserving, ReadyIsActive
<1>9. NoStrandedEntry'
  BY <1>1, <1>2, <1>5 DEF NoStrandedEntry
<1>10. WaitingInOrder'
  <2>1. InOrder(waiting', priority, sequence)
    BY <1>1, <1>2, <1>3, <1>4, PromoteKeepsOrder DEF WaitingInOrder
  <2> QED BY <1>1, <1>2, <2>1 DEF WaitingInOrder
<1> QED BY <1>6, <1>7, <1>8, <1>9, <1>10 DEF IInv

\* The steps that leave the queue alone and move one goroutine or one setter.
LEMMA OtherIInv ==
  ASSUME IInv, UNCHANGED queueVars,
         ctxDone' \in SUBSET Ops, guard' \in GuardStates,
         setter' \in [Setters -> GuardStates \cup {"idle"}],
         pc' \in [Ops -> Steps],
         \A o \in Ops : pc'[o] = "running" => active = o,
         \A o \in Ops : (pc[o] \in {"waiting", "withdrawing", "running"})
                          <=> (pc'[o] \in {"waiting", "withdrawing", "running"})
  PROVE  IInv'
<1>1. TypeOK'
  BY DEF IInv, TypeOK, queueVars
<1>2. SlotOwned'
  BY DEF IInv, SlotOwned, TypeOK, queueVars
<1>3. WorkConserving' /\ ReadyIsActive' /\ WaitingInOrder'
  BY DEF IInv, WorkConserving, ReadyIsActive, WaitingInOrder, queueVars
<1>4. NoStrandedEntry'
  BY DEF IInv, NoStrandedEntry, queueVars
<1> QED BY <1>1, <1>2, <1>3, <1>4 DEF IInv

\* Every step preserves IInv.
LEMMA Inductive == IInv /\ [Next]_vars => IInv'
<1> SUFFICES ASSUME IInv, [Next]_vars PROVE IInv'
  OBVIOUS
<1>0. TypeOK /\ SlotOwned /\ NoStrandedEntry /\ ReadyIsActive
  BY DEF IInv
<1>1. ASSUME NEW o \in Ops, NEW name \in Names, Enqueue(o, name) PROVE IInv'
  BY <1>1, EnqueueIInv
<1>2. ASSUME NEW o \in Ops, ContextDone(o) PROVE IInv'
  BY <1>0, <1>2, OtherIInv DEF ContextDone, TypeOK, SlotOwned
<1>3. ASSUME NEW o \in Ops, WaitReady(o) PROVE IInv'
  <2>1. o = active
    BY <1>0, <1>3 DEF WaitReady, ReadyIsActive
  <2>2. /\ pc' \in [Ops -> Steps]
        /\ \A x \in Ops : x # o => pc'[x] = pc[x]
        /\ pc[o] = "waiting" /\ pc'[o] = "running"
        /\ UNCHANGED queueVars
        /\ ctxDone' \in SUBSET Ops /\ UNCHANGED <<guard, setter>>
    BY <1>0, <1>3 DEF WaitReady, TypeOK, Steps
  <2> QED BY <1>0, <2>1, <2>2, OtherIInv DEF TypeOK, SlotOwned
<1>4. ASSUME NEW o \in Ops, WaitContextDone(o) PROVE IInv'
  <2>1. /\ pc' \in [Ops -> Steps]
        /\ \A x \in Ops : x # o => pc'[x] = pc[x]
        /\ pc[o] = "waiting" /\ pc'[o] = "withdrawing"
        /\ UNCHANGED queueVars
        /\ ctxDone' \in SUBSET Ops /\ UNCHANGED <<guard, setter>>
    BY <1>0, <1>4 DEF WaitContextDone, TypeOK, Steps
  <2> QED BY <1>0, <2>1, OtherIInv DEF TypeOK, SlotOwned
<1>5. ASSUME NEW o \in Ops, WaitWithdraw(o) PROVE IInv'
  BY <1>5, WithdrawIInv
<1>6. ASSUME NEW o \in Ops, Cancel(o) PROVE IInv'
  <2>1. /\ pc' \in [Ops -> Steps]
        /\ \A x \in Ops : x # o => pc'[x] = pc[x]
        /\ pc[o] = "rejected" /\ pc'[o] = "finished"
        /\ UNCHANGED queueVars
        /\ UNCHANGED <<ctxDone, guard, setter>>
    BY <1>0, <1>6 DEF Cancel, TypeOK, Steps
  <2> QED BY <1>0, <2>1, OtherIInv DEF TypeOK, SlotOwned
<1>7. ASSUME NEW o \in Ops, Done(o) PROVE IInv'
  BY <1>7, DoneIInv
<1>8. ASSUME NEW s \in Setters, NEW g \in GuardStates, SetGuard(s, g) PROVE IInv'
  <2>1. /\ UNCHANGED <<queueVars, ctxDone, pc>>
        /\ guard' \in GuardStates
        /\ setter' \in [Setters -> GuardStates \cup {"idle"}]
    BY <1>0, <1>8 DEF SetGuard, TypeOK
  <2> QED BY <1>0, <2>1, OtherIInv DEF TypeOK, SlotOwned
<1>9. ASSUME NEW s \in Setters, SetPaused(s) PROVE IInv'
  BY <1>9, SetPausedIInv
<1>10. CASE UNCHANGED vars
  BY <1>0, <1>10, OtherIInv DEF vars, TypeOK, SlotOwned
<1> QED
  BY <1>1, <1>2, <1>3, <1>4, <1>5, <1>6, <1>7, <1>8, <1>9, <1>10
     DEF Next, OperationStep, SetterStep

-----------------------------------------------------------------------------
(* The theorems.                                                           *)

\* IInv holds in every reachable state of every instance.
THEOREM InvariantHolds == Spec => []IInv
<1>1. Init => IInv
  BY InitIInv
<1>2. IInv /\ [Next]_vars => IInv'
  BY Inductive
<1> QED BY <1>1, <1>2, PTL DEF Spec

\* Every variable keeps its type.
THEOREM TypeCorrect == Spec => []TypeOK
<1>1. IInv => TypeOK
  BY DEF IInv
<1> QED BY <1>1, InvariantHolds, PTL

\* wait and done never lose or share the slot, however the ready channel, the
\* cancelled context, the pause flag and the promotions race.
THEOREM SlotIsOwned == Spec => []SlotOwned
<1>1. IInv => SlotOwned
  BY DEF IInv
<1> QED BY <1>1, InvariantHolds, PTL

\* enqueue, wait, done and setPaused leave the slot empty only when the queue is
\* paused or empty.
THEOREM QueueWorks == Spec => []WorkConserving
<1>1. IInv => WorkConserving
  BY DEF IInv
<1> QED BY <1>1, InvariantHolds, PTL

\* The list, the slot and the entry map always agree.
THEOREM NothingStranded == Spec => []NoStrandedEntry
<1>1. IInv => NoStrandedEntry
  BY DEF IInv
<1> QED BY <1>1, InvariantHolds, PTL

\* One step never lets a start overtake an equal that came earlier or a superior.
LEMMA StepInOrder ==
  ASSUME IInv, [Next]_vars, NEW o \in Ops, NEW other \in Range(waiting),
         active # o, active' = o, other # o
  PROVE  Precedes(priority, sequence, o, other)
<1>1. /\ TypeOK /\ SlotOwned /\ WorkConserving /\ NoStrandedEntry
      /\ ReadyIsActive /\ WaitingInOrder
  BY DEF IInv
<1>2. waiting \in Seq(Ops) /\ InOrder(waiting, priority, sequence)
  BY <1>1 DEF TypeOK, WaitingInOrder
<1>3. ASSUME NEW a, NEW p \in BOOLEAN, NEW r, promoteLocked(a, p, r), a # o
      PROVE  Precedes(priority, sequence, o, other)
  BY <1>2, <1>3, PromoteKeepsOrder
<1>4. ASSUME NEW x \in Ops, NEW name \in Names, Enqueue(x, name) PROVE FALSE
  <2>1. active = NoOp /\ ~paused
    BY <1>4 DEF Enqueue
  <2>2. waiting = <<>>
    BY <1>1, <2>1 DEF WorkConserving
  <2> QED BY <2>2 DEF Range
<1>5. ASSUME NEW x \in Ops, Done(x)
      PROVE  Precedes(priority, sequence, o, other)
  <2>1. promoteLocked(NoOp, paused, ready \ {x}) /\ paused \in BOOLEAN
    BY <1>1, <1>5 DEF Done, SlotOwned, TypeOK
  <2> QED BY <1>3, <2>1, StartQueueAssumption
<1>6. ASSUME NEW s \in Setters, SetPaused(s)
      PROVE  Precedes(priority, sequence, o, other)
  <2>1. promoteLocked(active, setter[s] # "normal", ready)
    BY <1>6 DEF SetPaused
  <2> DEFINE p == setter[s] # "normal"
  <2>2. p \in BOOLEAN
    OBVIOUS
  <2> QED BY <1>3, <2>1, <2>2
<1>7. ASSUME NEW x \in Ops,
             ContextDone(x) \/ WaitReady(x) \/ WaitContextDone(x)
               \/ WaitWithdraw(x) \/ Cancel(x)
      PROVE  FALSE
  BY <1>7 DEF ContextDone, WaitReady, WaitContextDone, WaitWithdraw, Withdraw,
              Cancel, queueVars
<1>8. ASSUME NEW s \in Setters, NEW g \in GuardStates, SetGuard(s, g) PROVE FALSE
  BY <1>8 DEF SetGuard, queueVars
<1>9. CASE UNCHANGED vars
  BY <1>9 DEF vars, queueVars
<1> QED BY <1>4, <1>5, <1>6, <1>7, <1>8, <1>9 DEF Next, OperationStep, SetterStep

\* The slot goes by rank, and among equals by arrival.
THEOREM OrderKept == Spec => PriorityOrder
<1>1. IInv /\ [Next]_vars =>
        [\A o, other \in Ops :
           /\ active # o /\ active' = o
           /\ other \in Range(waiting)
           /\ other # o
           => \/ priority[o] > priority[other]
              \/ priority[o] = priority[other] /\ sequence[o] < sequence[other]]_vars
  BY StepInOrder DEF Precedes
<1> QED BY <1>1, InvariantHolds, PTL DEF Spec, PriorityOrder

-----------------------------------------------------------------------------
(* The queue implements the abstract slot.                                 *)

\* promoteLocked gives the slot to the request the abstract slot would take.
LEMMA PromoteSettles ==
  ASSUME waiting \in Seq(Ops), IsInjective(waiting), NEW a, NEW p \in BOOLEAN, NEW r,
         promoteLocked(a, p, r), InOrder(waiting, priority, sequence),
         \A x \in Range(waiting') : priority'[x] = priority[x] /\ sequence'[x] = sequence[x]
  PROVE  Slot!Settle(a, Standing, p)
<1> DEFINE Req(o) == [client |-> o, rank |-> priority[o], number |-> sequence[o]]
<1>1. Standing = {Req(o) : o \in Range(waiting)}
  BY DEF Standing
<1>2. Standing' = {Req(o) : o \in Range(waiting')}
  BY DEF Standing
<1>3. CASE ~p /\ a = NoOp /\ waiting # <<>>
  <2> DEFINE h == Head(waiting)
  <2>1. active' = h /\ waiting' = Tail(waiting)
    BY <1>3 DEF promoteLocked
  <2>2. h \in Range(waiting) /\ Range(waiting') = Range(waiting) \ {h}
    BY <1>3, <2>1, TailMembers
  <2>3. \A x \in Range(waiting) : x # h => Precedes(priority, sequence, h, x)
    BY <1>3, TailInOrder
  <2> HIDE DEF h
  <2>4. Req(h) \in Standing
    BY <1>1, <2>2
  <2>5. ASSUME NEW q \in Standing \ {Req(h)} PROVE Slot!Before(Req(h), q)
    <3>1. PICK x \in Range(waiting) : q = Req(x)
      BY <1>1
    <3>2. Precedes(priority, sequence, h, x)
      BY <2>3, <2>5, <3>1
    <3> QED BY <3>1, <3>2 DEF Slot!Before, Precedes
  <2>6. Standing' = Standing \ {Req(h)}
    <3>1. \A x \in Range(waiting) : Req(x) = Req(h) => x = h
      OBVIOUS
    <3> QED BY <1>1, <1>2, <2>2, <3>1
  <2>7. active' = Req(h).client
    BY <2>1
  <2> QED BY <1>3, <2>4, <2>5, <2>6, <2>7 DEF Slot!Settle
<1>4. CASE p \/ a # NoOp \/ waiting = <<>>
  <2>1. active' = a /\ waiting' = waiting
    BY <1>4 DEF promoteLocked
  <2>2. Standing' = Standing
    BY <1>1, <1>2, <2>1
  <2>3. waiting = <<>> => Standing = {}
    BY <1>1 DEF Range
  <2> QED BY <1>4, <2>1, <2>2, <2>3 DEF Slot!Settle
<1> QED BY <1>3, <1>4

\* A list, a set of names and a set of requests say the same of who stands.
LEMMA EnqueueAsks ==
  ASSUME IInv, NEW o \in Ops, NEW name \in Names, Enqueue(o, name), IInv'
  PROVE  Slot!Ask(o, startPriority[name])
<1> DEFINE p == startPriority[name]
           Req(x) == [client |-> x, rank |-> priority[x], number |-> sequence[x]]
           new == [client |-> o, rank |-> p, number |-> next + 1]
<1>1. /\ TypeOK /\ SlotOwned /\ WorkConserving /\ NoStrandedEntry
      /\ TypeOK' /\ NoStrandedEntry'
  BY DEF IInv
<1>2. /\ pc[o] = "new" /\ o \notin entries /\ o \notin Range(waiting)
      /\ o # active /\ o # NoOp
  BY <1>1, StartQueueAssumption DEF Enqueue, NoStrandedEntry
<1>3. /\ next' = next + 1
      /\ priority' = [priority EXCEPT ![o] = p]
      /\ sequence' = [sequence EXCEPT ![o] = next + 1]
      /\ entries' = entries \cup {o}
      /\ UNCHANGED paused
  BY DEF Enqueue
<1>4. Range(waiting) \subseteq Ops /\ NoOp \notin Ops
  BY <1>1, RangeOfSeq, StartQueueAssumption DEF TypeOK
<1> HIDE DEF p
<1>5. \A x \in Range(waiting) : priority'[x] = priority[x] /\ sequence'[x] = sequence[x]
  BY <1>1, <1>2, <1>3, <1>4 DEF TypeOK
<1>6. priority'[o] = p /\ sequence'[o] = next + 1
  BY <1>1, <1>3 DEF TypeOK
<1>7. Standing = {Req(x) : x \in Range(waiting)}
  BY DEF Standing
<1>8. \A r \in Standing : r.client # o
  BY <1>2, <1>7
<1>9. Slot!Settle(active, Standing \cup {new}, paused)
  <2>1. CASE active = NoOp /\ ~paused /\ active' = o /\ UNCHANGED waiting
    <3>1. Range(waiting) = {}
      BY <1>1, <2>1 DEF WorkConserving, Range
    <3>2. Standing = {} /\ Standing' = {}
      BY <2>1, <3>1 DEF Standing
    <3>3. new \in Standing \cup {new} /\ new.client = o
          /\ (Standing \cup {new}) \ {new} = {}
      BY <3>2
    <3> QED BY <2>1, <3>2, <3>3 DEF Slot!Settle
  <2>2. CASE (active # NoOp \/ paused) /\ UNCHANGED active
    <3>1. Range(waiting') = Range(waiting) \cup {o}
      <4>1. active \notin Range(waiting) /\ active \notin Range(waiting')
        BY <1>1, <2>2 DEF NoStrandedEntry
      <4>2. /\ Range(waiting) \cup ({active} \ {NoOp}) = entries
            /\ Range(waiting') \cup ({active} \ {NoOp}) = entries \cup {o}
        BY <1>1, <1>3, <2>2 DEF NoStrandedEntry
      <4>3. active = NoOp => active \notin Range(waiting')
        BY <4>1
      <4> QED BY <1>2, <4>1, <4>2, <4>3
    <3>2. Standing' = {[client |-> x, rank |-> priority'[x], number |-> sequence'[x]]
                         : x \in Range(waiting) \cup {o}}
      BY <3>1 DEF Standing
    <3>3. Standing' = {Req(x) : x \in Range(waiting)} \cup {new}
      BY <1>5, <1>6, <3>2
    <3> QED BY <1>7, <2>2, <3>3 DEF Slot!Settle
  <2> QED BY <2>1, <2>2 DEF Enqueue
<1> QED BY <1>2, <1>3, <1>8, <1>9 DEF Slot!Ask, p

\* Every step of the queue is a step of the slot, or leaves it as it is.
LEMMA StepImplements ==
  ASSUME IInv, [Next]_vars, IInv'
  PROVE  [Slot!Next]_(Slot!slotVars)
<1>1. /\ TypeOK /\ SlotOwned /\ WorkConserving /\ NoStrandedEntry
      /\ ReadyIsActive /\ WaitingInOrder
  BY DEF IInv
<1>2. /\ waiting \in Seq(Ops) /\ IsInjective(waiting) /\ Range(waiting) \subseteq Ops
      /\ InOrder(waiting, priority, sequence) /\ NoOp \notin Ops /\ paused \in BOOLEAN
  BY <1>1, RangeOfSeq, StartQueueAssumption DEF TypeOK, NoStrandedEntry, WaitingInOrder
<1>3. ASSUME NEW o \in Ops, NEW name \in Names, Enqueue(o, name) PROVE Slot!Next
  <2>1. Slot!Ask(o, startPriority[name])
    BY <1>3, EnqueueAsks
  <2> QED BY <2>1 DEF Slot!Next
<1>4. ASSUME NEW o \in Ops, WaitWithdraw(o), active # o PROVE Slot!Next
  <2> DEFINE Req(x) == [client |-> x, rank |-> priority[x], number |-> sequence[x]]
  <2>1. Forget(o) /\ UNCHANGED <<active, next, paused>>
    BY <1>4 DEF WaitWithdraw, Withdraw
  <2>2. PICK k \in 1..Len(waiting) : waiting[k] = o /\ waiting' = RemoveAt(waiting, k)
    BY <1>4 DEF WaitWithdraw, Withdraw
  <2>3. o \in Range(waiting) /\ Range(waiting') = Range(waiting) \ {o}
    BY <1>2, <2>2, RemoveMembers DEF Range
  <2>4. \A x \in Range(waiting') : priority'[x] = priority[x] /\ sequence'[x] = sequence[x]
    BY <1>1, <1>2, <2>1, <2>3 DEF Forget, TypeOK
  <2>5. Standing' = {Req(x) : x \in Range(waiting) \ {o}}
    BY <2>3, <2>4 DEF Standing
  <2>6. Standing = {Req(x) : x \in Range(waiting)}
    BY DEF Standing
  <2>7. \A x \in Range(waiting) : Req(x) = Req(o) => x = o
    OBVIOUS
  <2>8. Standing' = Standing \ {Req(o)} /\ Req(o) \in Standing
    BY <2>3, <2>5, <2>6, <2>7
  <2>9. Slot!GiveUp(Req(o))
    BY <2>1, <2>8 DEF Slot!GiveUp
  <2> QED BY <2>8, <2>9 DEF Slot!Next
<1>5. ASSUME NEW o \in Ops, Done(o) PROVE Slot!Next
  <2>1. active = o /\ o \notin Range(waiting) /\ o # NoOp
    BY <1>1, <1>2, <1>5 DEF Done, SlotOwned, NoStrandedEntry
  <2>2. promoteLocked(NoOp, paused, ready \ {o}) /\ Forget(o) /\ UNCHANGED <<next, paused>>
    BY <1>5, <2>1 DEF Done
  <2>3. Range(waiting') \subseteq Range(waiting)
    BY <1>2, <2>2, TailMembers DEF promoteLocked
  <2>4. \A x \in Range(waiting') : priority'[x] = priority[x] /\ sequence'[x] = sequence[x]
    BY <1>1, <1>2, <2>1, <2>2, <2>3 DEF Forget, TypeOK
  <2>5. Slot!Settle(NoOp, Standing, paused)
    BY <1>2, <2>2, <2>4, PromoteSettles
  <2> QED BY <2>1, <2>2, <2>5 DEF Slot!Next, Slot!Release
<1>6. ASSUME NEW s \in Setters, SetPaused(s) PROVE Slot!Next
  <2> DEFINE c == setter[s] # "normal"
  <2>1. /\ paused' = c /\ promoteLocked(active, c, ready)
        /\ UNCHANGED <<next, priority, sequence>>
    BY <1>6 DEF SetPaused
  <2>2. c \in BOOLEAN
    OBVIOUS
  <2> HIDE DEF c
  <2>3. Slot!Settle(active, Standing, c)
    BY <1>2, <2>1, <2>2, PromoteSettles
  <2>4. Slot!SetClosed(c)
    BY <2>1, <2>3 DEF Slot!SetClosed
  <2> QED BY <2>2, <2>4 DEF Slot!Next
<1>7. ASSUME UNCHANGED queueVars PROVE UNCHANGED Slot!slotVars
  BY <1>7 DEF queueVars, Slot!slotVars, Standing
<1>8. ASSUME NEW o \in Ops,
             ContextDone(o) \/ WaitReady(o) \/ WaitContextDone(o) \/ Cancel(o)
               \/ (WaitWithdraw(o) /\ active = o)
      PROVE  UNCHANGED Slot!slotVars
  BY <1>7, <1>8 DEF ContextDone, WaitReady, WaitContextDone, WaitWithdraw, Cancel
<1>9. ASSUME NEW s \in Setters, NEW g \in GuardStates, SetGuard(s, g)
      PROVE  UNCHANGED Slot!slotVars
  BY <1>7, <1>9 DEF SetGuard
<1>10. CASE UNCHANGED vars
  BY <1>7, <1>10 DEF vars
<1> QED BY <1>3, <1>4, <1>5, <1>6, <1>8, <1>9, <1>10
        DEF Next, OperationStep, SetterStep

\* enqueue, wait, done and setPaused implement the slot that goes to the first by rank
\* and arrival as soon as it is free and open.
THEOREM QueueImplementsSlot == Spec => ImplementsSlot
<1>1. Init => Slot!Init
  BY DEF Init, Slot!Init, Standing, Range
<1>2. IInv /\ [Next]_vars /\ IInv' => [Slot!Next]_(Slot!slotVars)
  BY StepImplements
<1> QED BY <1>1, <1>2, InvariantHolds, PTL DEF Spec, ImplementsSlot, Slot!Spec

=============================================================================

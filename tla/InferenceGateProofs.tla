------------------------- MODULE InferenceGateProofs -------------------------
(***************************************************************************)
(* Proofs about the inference gates, for any finite set of requests and    *)
(* any limits.  The inductive invariant adds to the properties of          *)
(* InferenceGate which workers a request can have met.                     *)
(***************************************************************************)
EXTENDS InferenceGate, ListProofs, FiniteSetTheorems

\* The workers a request has met: it read one before it looked its gate up, and
\* only a request at a gate has been granted a slot.
WorkersMet ==
  /\ secret \in {NoSecret, generation}
  /\ \A r \in Requests :
       /\ expected[r] <= generation
       /\ pc[r] \in {"new", "looked"} => gate[r] = 0
       /\ pc[r] \notin {"new", "rejected"} => expected[r] >= 1
       /\ pc[r] \notin {"new", "looked", "rejected"} => gate[r] \in expected[r]..generation
       /\ r \in granted => pc[r] \notin {"new", "looked", "acquiring"}

\* A gate that has given out a slot has a limit.
LimitKnown == \A g \in Generations : active[g] > 0 => maxActive[g] >= 1

\* A backup that can be put back is of the worker of the instance, and its count misses
\* no lease that is still open; an open instance is no such backup, and has none.
BackupCounts ==
  /\ saved \in {NoSecret, generation}
  /\ state # "closed" => saved = NoSecret /\ ~returned
  /\ saved # NoSecret => savedRequests >= Cardinality(Leases(generation))

\* A gate keeps to the limit of a worker that one of its callers has read.
Bounded(g) ==
  active[g] > 0 =>
    \E r \in Callers(g) : expected[r] \in Generations /\ active[g] <= Limit[expected[r]]

IInv ==
  /\ TypeOK /\ WorkersMet /\ LimitKnown /\ BackupCounts
  /\ SlotsAccounted /\ WaitersAreListed /\ DrainSeesLeases
  /\ \A g \in Generations : Bounded(g)

-----------------------------------------------------------------------------
(* Types, counts and lists.                                                *)

LEMMA LimitTypes ==
  /\ Generations = 1..Len(Limit) /\ Len(Limit) \in Nat
  /\ \A g \in Generations : Limit[g] \in Nat /\ Limit[g] >= 1
BY GateAssumption, LenProperties, ElementOfSeq DEF Generations

LEMMA WaitingLimit ==
  ASSUME NEW n \in Nat, n >= 1 PROVE inferenceWaitingLimit(n) \in 2..8
<1>1. \E k \in 2..8 : k = 2 * n \/ (k = 8 /\ 2 * n > 8)
  <2>1. CASE 2 * n <= 8
    BY <2>1
  <2>2. CASE 2 * n > 8
    BY <2>2
  <2> QED BY <2>1, <2>2
<1> QED BY <1>1 DEF inferenceWaitingLimit

LEMMA Counts ==
  ASSUME NEW S \in SUBSET Requests
  PROVE  /\ IsFiniteSet(S) /\ Cardinality(S) \in 0..Cardinality(Requests)
         /\ Cardinality(S) = 0 => S = {}
         /\ \A r \in S : Cardinality(S \ {r}) = Cardinality(S) - 1 /\ Cardinality(S) >= 1
         /\ \A r \in Requests \ S : Cardinality(S \cup {r}) = Cardinality(S) + 1
<1>1. IsFiniteSet(Requests) /\ Cardinality(Requests) \in Nat
  BY GateAssumption, FS_CardinalityType
<1>2. IsFiniteSet(S) /\ Cardinality(S) <= Cardinality(Requests)
  BY <1>1, FS_Subset
<1>3. Cardinality(S) \in Nat
  BY <1>2, FS_CardinalityType
<1>4. Cardinality(S) = 0 => S = {}
  BY <1>2, FS_EmptySet
<1>5. \A r \in S : Cardinality(S \ {r}) = Cardinality(S) - 1
  BY <1>2, FS_RemoveElement
<1>6. \A r \in Requests \ S : Cardinality(S \cup {r}) = Cardinality(S) + 1
  BY <1>2, FS_AddElement
<1>7. S # {} => Cardinality(S) >= 1
  BY <1>3, <1>4
<1> QED BY <1>1, <1>2, <1>3, <1>4, <1>5, <1>6, <1>7

-----------------------------------------------------------------------------
(* The requests at a gate.                                                 *)

Waiters(g) ==
  {r \in Requests : gate[r] = g /\ r \notin granted /\ pc[r] \in {"waiting", "removing"}}

\* What IInv says of one gate.
AtGate(g) ==
  /\ active[g] = Cardinality(Holding(g))
  /\ active[g] > 0 => maxActive[g] >= 1
  /\ waiting[g] # <<>> => active[g] > 0
  /\ IsInjective(waiting[g])
  /\ Range(waiting[g]) = Waiters(g)
  /\ Bounded(g)

LEMMA GateInvariants ==
  LimitKnown /\ SlotsAccounted /\ WaitersAreListed /\ (\A g \in Generations : Bounded(g))
    <=> \A g \in Generations : AtGate(g)
BY DEF LimitKnown, SlotsAccounted, WaitersAreListed, AtGate, Waiters

\* The bound of a gate stays while its callers do and it gives out no further slot.
LEMMA BoundStays ==
  ASSUME NEW g \in Generations, Bounded(g),
         active[g] \in Nat, active'[g] \in Nat, active'[g] <= active[g],
         \A q \in Callers(g) : q \in Callers(g)' /\ expected'[q] = expected[q]
  PROVE  Bounded(g)'
<1>1. SUFFICES ASSUME active'[g] > 0
               PROVE  \E q \in Callers(g)' : /\ expected'[q] \in Generations
                                             /\ active'[g] <= Limit[expected'[q]]
  BY DEF Bounded
<1>2. PICK q \in Callers(g) : expected[q] \in Generations /\ active[g] <= Limit[expected[q]]
  BY <1>1 DEF Bounded
<1>3. Limit[expected[q]] \in Nat
  BY <1>2, LimitTypes
<1> QED BY <1>2, <1>3

\* Nothing changes for a gate of which nobody takes, waits for or returns a slot.
LEMMA GateUntouched ==
  ASSUME NEW g \in Generations, AtGate(g),
         active'[g] = active[g], maxActive'[g] = maxActive[g], waiting'[g] = waiting[g],
         Holding(g)' = Holding(g), Waiters(g)' = Waiters(g), active[g] \in Nat,
         \A q \in Callers(g) : q \in Callers(g)' /\ expected'[q] = expected[q]
  PROVE  AtGate(g)'
<1>1. AtGate(g)' <=>
        /\ active'[g] = Cardinality(Holding(g)')
        /\ active'[g] > 0 => maxActive'[g] >= 1
        /\ waiting'[g] # <<>> => active'[g] > 0
        /\ IsInjective(waiting'[g])
        /\ Range(waiting'[g]) = Waiters(g)'
        /\ Bounded(g)'
  BY DEF AtGate
<1>2. Bounded(g)'
  BY BoundStays DEF AtGate
<1> QED BY <1>1, <1>2 DEF AtGate

LEMMA ActiveType ==
  ASSUME active' = [g \in Generations |-> active'[g]], \A g \in Generations : AtGate(g)'
  PROVE  active' \in [Generations -> 0..Cardinality(Requests)]
<1>1. ASSUME NEW g \in Generations PROVE active'[g] \in 0..Cardinality(Requests)
  <2>1. active'[g] = Cardinality(Holding(g)')
    BY DEF AtGate
  <2>2. Holding(g)' \subseteq Requests
    BY DEF Holding
  <2> QED BY <2>1, <2>2, Counts
<1> QED BY <1>1

\* A request outside the gates or between two steps that hold its slot leaves every
\* gate as it is.
LEMMA Elsewhere ==
  ASSUME IInv, NEW r \in Requests, NEW step, pc' = [pc EXCEPT ![r] = step],
         UNCHANGED gateVars,
         \/ /\ pc[r] \in {"new", "looked"} /\ step \in {"looked", "rejected", "acquiring"}
            /\ \A q \in Requests : q # r => gate'[q] = gate[q] /\ expected'[q] = expected[q]
         \/ /\ pc[r] = "released" /\ step = "finished" /\ gate' = gate
         \/ /\ pc[r] = "waiting" /\ step = "removing" /\ gate' = gate
         \/ /\ pc[r] \in {"waiting", "removing"} /\ r \in granted
            /\ step = "holding" /\ gate' = gate
         \/ /\ pc[r] = "holding" /\ step \in {"leased", "giving_back"} /\ gate' = gate,
         pc[r] \notin {"new", "looked"} => expected' = expected
  PROVE  \A g \in Generations : AtGate(g)'
<1>1. pc \in [Requests -> {"new", "looked", "acquiring", "waiting", "removing",
        "holding", "leased", "giving_back", "released", "rejected", "finished"}]
  BY DEF IInv, TypeOK
<1>2. \A q \in Requests : q # r => pc'[q] = pc[q] /\ gate'[q] = gate[q]
  BY <1>1
<1>3. pc'[r] = step /\ granted' = granted
  BY <1>1 DEF gateVars
<1>4. ASSUME NEW g \in Generations PROVE Holding(g)' = Holding(g) /\ Waiters(g)' = Waiters(g)
  <2>1. r \in Holding(g)' <=> r \in Holding(g)
    BY <1>3 DEF Holding, IInv, WorkersMet
  <2>2. r \in Waiters(g)' <=> r \in Waiters(g)
    BY <1>3 DEF Waiters
  <2>3. \A q \in Requests : q # r => (q \in Holding(g)' <=> q \in Holding(g))
    BY <1>2, <1>3 DEF Holding
  <2>4. \A q \in Requests : q # r => (q \in Waiters(g)' <=> q \in Waiters(g))
    BY <1>2, <1>3 DEF Waiters
  <2>5. /\ Holding(g)' \subseteq Requests /\ Holding(g) \subseteq Requests
        /\ Waiters(g)' \subseteq Requests /\ Waiters(g) \subseteq Requests
    BY DEF Holding, Waiters
  <2> QED BY <2>1, <2>2, <2>3, <2>4, <2>5
<1>5. \A g \in Generations : AtGate(g)
  BY GateInvariants DEF IInv
<1>6. ASSUME NEW g \in Generations, NEW q \in Callers(g)
      PROVE  q \in Callers(g)' /\ expected'[q] = expected[q]
  <2>1. g # 0
    BY LimitTypes
  <2>2. q \in Requests /\ gate[q] = g /\ pc[q] \notin {"looked", "acquiring"}
    BY <1>6 DEF Callers
  <2>3. gate'[q] = g /\ pc'[q] \notin {"looked", "acquiring"} /\ expected'[q] = expected[q]
    BY <1>2, <1>3, <2>1, <2>2 DEF IInv, WorkersMet
  <2> QED BY <2>2, <2>3 DEF Callers
<1>7. \A g \in Generations : active[g] \in Nat
  BY GateAssumption, FS_CardinalityType DEF IInv, TypeOK
<1> QED BY <1>4, <1>5, <1>6, <1>7, GateUntouched DEF gateVars

\* The gate of a request at a gate exists, and so does the worker it has read.
LEMMA GateExists ==
  ASSUME IInv, NEW r \in Requests, pc[r] \notin {"new", "looked", "rejected"}
  PROVE  /\ gate[r] \in Generations /\ expected[r] \in 1..gate[r]
         /\ gate[r] \in Nat /\ gate[r] <= generation
<1>1. generation \in 0..Len(Limit) /\ expected[r] \in 0..Len(Limit) /\ gate[r] \in 0..Len(Limit)
  BY DEF IInv, TypeOK
<1>2. expected[r] >= 1 /\ gate[r] \in expected[r]..generation
  BY DEF IInv, WorkersMet
<1> QED BY <1>1, <1>2, LimitTypes

\* releaseFunc: the slot is freed, or handed to the head of the list.
LEMMA ReleaseAtGate ==
  ASSUME IInv, NEW r \in Requests, NEW step \in {"rejected", "released"},
         pc[r] \in {"giving_back", "leased"}, Release(gate[r]),
         pc' = [pc EXCEPT ![r] = step], gate' = gate, expected' = expected
  PROVE  /\ \A g \in Generations : AtGate(g)'
         /\ gate[r] \in Generations /\ granted \subseteq granted'
         /\ \A q \in granted' \ granted : q \in Waiters(gate[r])
         /\ waiting' \in [Generations -> Seq(Requests)]
<1> DEFINE g == gate[r]
<1>1. /\ pc \in [Requests -> {"new", "looked", "acquiring", "waiting", "removing",
           "holding", "leased", "giving_back", "released", "rejected", "finished"}]
      /\ waiting \in [Generations -> Seq(Requests)]
      /\ active \in [Generations -> 0..Cardinality(Requests)]
      /\ maxActive \in [Generations -> Nat]
      /\ Cardinality(Requests) \in Nat
      /\ granted \subseteq Requests
  BY GateAssumption, FS_CardinalityType DEF IInv, TypeOK
<1>2. g \in Generations
  BY GateExists
<1>3. /\ pc'[r] = step
      /\ \A q \in Requests : q # r => pc'[q] = pc[q]
      /\ gate' = gate
  BY <1>1
<1>4. \A h \in Generations : AtGate(h)
  BY GateInvariants DEF IInv
<1>5. r \in Holding(g)
  BY DEF Holding
<1>6. active[g] = Cardinality(Holding(g)) /\ active[g] >= 1
  <2>1. active[g] = Cardinality(Holding(g)) /\ Holding(g) \subseteq Requests
    BY <1>2, <1>4 DEF AtGate, Holding
  <2> QED BY <1>5, <2>1, Counts
<1>7. /\ maxActive' = maxActive
      /\ \A h \in Generations : active[h] \in Nat
      /\ \A h \in Generations : \A q \in Callers(h) :
           q \in Callers(h)' /\ expected'[q] = expected[q]
  BY <1>1, <1>3 DEF Release, Callers
<1>8. CASE /\ active' = [active EXCEPT ![g] = active[g] - 1]
           /\ waiting[g] = <<>> \/ active[g] - 1 >= maxActive[g]
           /\ granted' = granted /\ waiting' = waiting
  <2>1. Holding(g)' = Holding(g) \ {r} /\ Waiters(g)' = Waiters(g)
    BY <1>3, <1>5, <1>8 DEF Holding, Waiters
  <2>2. active'[g] = Cardinality(Holding(g)') /\ active'[g] = active[g] - 1
    <3>1. Holding(g) \subseteq Requests
      BY DEF Holding
    <3>2. Cardinality(Holding(g) \ {r}) = Cardinality(Holding(g)) - 1
      BY <1>5, <3>1, Counts
    <3> QED BY <1>1, <1>2, <1>6, <1>8, <2>1, <3>2
  <2>3. /\ active'[g] > 0 => maxActive'[g] >= 1
        /\ waiting'[g] # <<>> => active'[g] > 0
        /\ IsInjective(waiting'[g]) /\ Range(waiting'[g]) = Waiters(g)'
    BY <1>1, <1>2, <1>4, <1>6, <1>7, <1>8, <2>1, <2>2 DEF AtGate
  <2>4. Bounded(g)'
    <3>1. active[g] \in Nat /\ active'[g] \in Nat /\ active'[g] <= active[g]
      BY <1>2, <1>6, <1>7, <2>2
    <3>2. Bounded(g)
      BY <1>2, <1>4 DEF AtGate
    <3> QED BY <1>2, <1>7, <3>1, <3>2, BoundStays
  <2>5. AtGate(g)'
    BY <2>2, <2>3, <2>4 DEF AtGate
  <2>6. ASSUME NEW h \in Generations, h # g PROVE AtGate(h)'
    <3>1. Holding(h)' = Holding(h) /\ Waiters(h)' = Waiters(h)
      BY <1>3, <1>8, <2>6 DEF Holding, Waiters
    <3>2. active'[h] = active[h] /\ maxActive'[h] = maxActive[h] /\ waiting'[h] = waiting[h]
      BY <1>1, <1>7, <1>8, <2>6
    <3> QED BY <1>4, <1>7, <3>1, <3>2, GateUntouched
  <2> QED BY <1>1, <1>2, <1>8, <2>5, <2>6
<1>9. CASE /\ waiting[g] # <<>> /\ active[g] - 1 < maxActive[g]
           /\ active' = [active EXCEPT ![g] = active[g]]
           /\ granted' = granted \cup {Head(waiting[g])}
           /\ waiting' = [waiting EXCEPT ![g] = Tail(waiting[g])]
  <2> DEFINE w == Head(waiting[g])
  <2>1. /\ w \in Range(waiting[g]) /\ w \in Requests
        /\ Tail(waiting[g]) \in Seq(Requests)
        /\ Range(Tail(waiting[g])) = Range(waiting[g]) \ {w}
        /\ IsInjective(Tail(waiting[g]))
    <3>1. waiting[g] \in Seq(Requests) /\ IsInjective(waiting[g])
      BY <1>1, <1>2, <1>4 DEF AtGate
    <3> QED BY <1>9, <3>1, TailMembers
  <2>2. w \in Waiters(g) /\ w # r
    BY <1>2, <1>4, <2>1 DEF AtGate, Waiters
  <2>3. /\ gate[w] = g /\ w \notin granted /\ pc'[w] \in {"waiting", "removing"}
        /\ w \in granted' /\ \A q \in Requests : q # w => (q \in granted' <=> q \in granted)
    BY <1>3, <1>9, <2>2 DEF Waiters
  <2> HIDE DEF w
  <2>4. Holding(g)' = (Holding(g) \ {r}) \cup {w}
    BY <1>3, <1>5, <2>1, <2>2, <2>3 DEF Holding
  <2>5. Waiters(g)' = Waiters(g) \ {w}
    BY <1>3, <2>1, <2>2, <2>3 DEF Waiters
  <2>6. active'[g] = Cardinality(Holding(g)') /\ active'[g] = active[g]
    <3>1. Holding(g) \subseteq Requests /\ Holding(g) \ {r} \subseteq Requests
      BY DEF Holding
    <3>2. Cardinality(Holding(g) \ {r}) = Cardinality(Holding(g)) - 1
      BY <1>5, <3>1, Counts
    <3>3. w \in Requests \ (Holding(g) \ {r})
      BY <2>1, <2>2 DEF Waiters, Holding
    <3>4. Cardinality((Holding(g) \ {r}) \cup {w}) = Cardinality(Holding(g) \ {r}) + 1
      BY <3>1, <3>3, Counts
    <3> QED BY <1>1, <1>2, <1>6, <1>9, <2>4, <3>2, <3>4
  <2>7. waiting'[g] = Tail(waiting[g])
    BY <1>1, <1>2, <1>9
  <2>8. /\ active'[g] > 0 => maxActive'[g] >= 1
        /\ waiting'[g] # <<>> => active'[g] > 0
    BY <1>1, <1>2, <1>4, <1>6, <1>7, <2>6 DEF AtGate
  <2>9. IsInjective(waiting'[g]) /\ Range(waiting'[g]) = Waiters(g)'
    BY <1>2, <1>4, <2>1, <2>5, <2>7 DEF AtGate
  <2>10. AtGate(g)'
    <3>1. Bounded(g)
      BY <1>2, <1>4 DEF AtGate
    <3>2. active'[g] \in Nat /\ active'[g] <= active[g]
      BY <1>2, <1>7, <2>6
    <3>3. Bounded(g)'
      BY <1>2, <1>7, <3>1, <3>2, BoundStays
    <3> QED BY <2>6, <2>8, <2>9, <3>3 DEF AtGate
  <2>11. ASSUME NEW h \in Generations, h # g PROVE AtGate(h)'
    <3>1. Holding(h)' = Holding(h) /\ Waiters(h)' = Waiters(h)
      BY <1>3, <2>2, <2>3, <2>11 DEF Holding, Waiters
    <3>2. active'[h] = active[h] /\ maxActive'[h] = maxActive[h] /\ waiting'[h] = waiting[h]
      BY <1>1, <1>7, <1>9, <2>11
    <3> QED BY <1>4, <1>7, <3>1, <3>2, GateUntouched
  <2>12. waiting' \in [Generations -> Seq(Requests)]
    BY <1>1, <1>2, <1>9, <2>1
  <2>13. \A q \in granted' \ granted : q = w
    BY <1>9 DEF w
  <2> QED BY <1>2, <1>9, <2>2, <2>10, <2>11, <2>12, <2>13
<1>10. active[g] - 1 + 1 = active[g] /\ (IF active[g] > 0 THEN active[g] - 1 ELSE 0) = active[g] - 1
  BY <1>1, <1>2, <1>6
<1> QED BY <1>8, <1>9, <1>10 DEF Release

\* acquire: a slot is taken, a place in the list, or neither.
LEMMA AcquireAtGate ==
  ASSUME IInv, NEW r \in Requests, Acquire(r)
  PROVE  /\ \A g \in Generations : AtGate(g)'
         /\ waiting' \in [Generations -> Seq(Requests)]
         /\ maxActive' \in [Generations -> Nat] /\ maxWaiting' \in [Generations -> 0..8]
         /\ \E step \in {"holding", "rejected", "waiting"} : Goto(r, step)
<1> DEFINE g == gate[r]
           m == Limit[expected[r]]
<1>1. /\ pc \in [Requests -> {"new", "looked", "acquiring", "waiting", "removing",
           "holding", "leased", "giving_back", "released", "rejected", "finished"}]
      /\ waiting \in [Generations -> Seq(Requests)]
      /\ active \in [Generations -> 0..Cardinality(Requests)]
      /\ maxActive \in [Generations -> Nat] /\ maxWaiting \in [Generations -> 0..8]
      /\ Cardinality(Requests) \in Nat
  BY GateAssumption, FS_CardinalityType DEF IInv, TypeOK
<1>2. /\ pc[r] = "acquiring" /\ gate' = gate /\ granted' = granted /\ r \notin granted
      /\ expected' = expected
  BY DEF Acquire, IInv, WorkersMet
<1>3. g \in Generations /\ expected[r] \in 1..g /\ g \in Nat
  BY <1>2, GateExists
<1>4. m \in Nat /\ m >= 1
  BY <1>3, LimitTypes
<1>5. /\ maxActive' = [maxActive EXCEPT ![g] = m]
      /\ maxWaiting' = [maxWaiting EXCEPT ![g] = inferenceWaitingLimit(m)]
  BY DEF Acquire
<1>6. maxActive' \in [Generations -> Nat] /\ maxWaiting' \in [Generations -> 0..8]
  <2>1. inferenceWaitingLimit(m) \in 0..8
    BY <1>4, WaitingLimit
  <2> QED BY <1>1, <1>3, <1>4, <1>5, <2>1
<1>7. \A h \in Generations : AtGate(h)
  BY GateInvariants DEF IInv
<1>8. \A q \in Requests : q # r => (pc[q] = pc'[q])
  BY <1>1 DEF Acquire, Goto
<1>9. r \notin Holding(g) /\ r \notin Waiters(g)
  BY <1>2 DEF Holding, Waiters
<1>16. ASSUME NEW h \in Generations, NEW q \in Callers(h)
       PROVE  q \in Callers(h)' /\ expected'[q] = expected[q]
  BY <1>2, <1>8, <1>16 DEF Callers
<1>10. ASSUME NEW h \in Generations, h # g,
              active'[h] = active[h], waiting'[h] = waiting[h]
       PROVE  AtGate(h)'
  <2>1. Holding(h)' = Holding(h) /\ Waiters(h)' = Waiters(h)
    BY <1>2, <1>8, <1>10 DEF Holding, Waiters
  <2>2. maxActive'[h] = maxActive[h]
    BY <1>1, <1>5, <1>10
  <2>3. active[h] \in Nat
    BY <1>1
  <2> QED BY <1>7, <1>10, <1>16, <2>1, <2>2, <2>3, GateUntouched
<1>11. maxActive'[g] = m
  BY <1>1, <1>3, <1>5
<1>12. /\ active[g] = Cardinality(Holding(g)) /\ active[g] \in Nat
       /\ waiting[g] # <<>> => active[g] > 0
       /\ IsInjective(waiting[g]) /\ Range(waiting[g]) = Waiters(g)
       /\ Bounded(g)
  <2>1. active[g] \in Nat
    BY <1>1, <1>3
  <2>2. AtGate(g)
    BY <1>3, <1>7
  <2> QED BY <2>1, <2>2 DEF AtGate
<1>13. CASE /\ active[g] < m /\ waiting[g] = <<>>
            /\ active' = [active EXCEPT ![g] = active[g] + 1]
            /\ Goto(r, "holding") /\ waiting' = waiting
  <2>1. pc'[r] = "holding"
    BY <1>1, <1>13 DEF Goto
  <2>2. Holding(g)' = Holding(g) \cup {r} /\ Waiters(g)' = Waiters(g)
    BY <1>2, <1>8, <1>9, <2>1 DEF Holding, Waiters
  <2>3. active'[g] = active[g] + 1 /\ waiting'[g] = waiting[g]
    BY <1>1, <1>3, <1>13
  <2>4. Cardinality(Holding(g) \cup {r}) = Cardinality(Holding(g)) + 1
    <3>1. Holding(g) \subseteq Requests
      BY DEF Holding
    <3> QED BY <1>9, <3>1, Counts
  <2>5. Bounded(g)'
    <3>1. r \in Callers(g)'
      BY <1>2, <2>1 DEF Callers
    <3>2. expected'[r] = expected[r] /\ expected[r] \in Generations
      BY <1>2, <1>3, LimitTypes
    <3>3. active'[g] <= m
      BY <1>4, <1>12, <1>13, <2>3
    <3>4. \E q \in Callers(g)' :
            expected'[q] \in Generations /\ active'[g] <= Limit[expected'[q]]
      BY <3>1, <3>2, <3>3
    <3> QED BY <1>2, <3>4 DEF Bounded
  <2>6. active'[g] = Cardinality(Holding(g)') /\ active'[g] > 0
    BY <1>12, <2>2, <2>3, <2>4
  <2>7. IsInjective(waiting'[g]) /\ Range(waiting'[g]) = Waiters(g)'
    BY <1>12, <2>2, <2>3
  <2>8. AtGate(g)'
    BY <1>2, <1>4, <1>11, <2>5, <2>6, <2>7 DEF AtGate
  <2>9. ASSUME NEW h \in Generations, h # g PROVE AtGate(h)'
    <3>1. active'[h] = active[h] /\ waiting'[h] = waiting[h]
      BY <1>1, <1>13, <2>9
    <3> QED BY <1>10, <2>9, <3>1
  <2> QED BY <1>1, <1>2, <1>6, <1>13, <2>8, <2>9
<1>14. CASE /\ Goto(r, "rejected")
            /\ UNCHANGED <<active, waiting>>
  <2>1. pc'[r] = "rejected"
    BY <1>1, <1>14 DEF Goto
  <2>2. Holding(g)' = Holding(g) /\ Waiters(g)' = Waiters(g)
    BY <1>2, <1>8, <1>9, <2>1 DEF Holding, Waiters
  <2>3. AtGate(g)'
    <3>1. /\ active'[g] = Cardinality(Holding(g)') /\ maxActive'[g] >= 1
          /\ waiting'[g] # <<>> => active'[g] > 0
      BY <1>4, <1>11, <1>12, <1>14, <2>2
    <3>2. IsInjective(waiting'[g]) /\ Range(waiting'[g]) = Waiters(g)'
      BY <1>12, <1>14, <2>2
    <3>3. Bounded(g)'
      <4>1. active'[g] \in Nat /\ active'[g] <= active[g]
        BY <1>12, <1>14
      <4> QED BY <1>2, <1>3, <1>12, <1>16, <4>1, BoundStays
    <3> QED BY <1>2, <3>1, <3>2, <3>3 DEF AtGate
  <2> QED BY <1>1, <1>2, <1>6, <1>10, <1>14, <2>3
<1>15. CASE /\ active[g] >= m \/ waiting[g] # <<>>
            /\ waiting' = [waiting EXCEPT ![g] = Append(waiting[g], r)]
            /\ Goto(r, "waiting") /\ active' = active
  <2>1. pc'[r] = "waiting"
    BY <1>1, <1>15 DEF Goto
  <2>2. Holding(g)' = Holding(g) /\ Waiters(g)' = Waiters(g) \cup {r}
    BY <1>2, <1>8, <1>9, <2>1 DEF Holding, Waiters
  <2>3. /\ Append(waiting[g], r) \in Seq(Requests)
        /\ Range(Append(waiting[g], r)) = Range(waiting[g]) \cup {r}
        /\ IsInjective(Append(waiting[g], r))
    <3>1. waiting[g] \in Seq(Requests) /\ IsInjective(waiting[g]) /\ r \notin Range(waiting[g])
      BY <1>1, <1>3, <1>9, <1>12
    <3> QED BY <3>1, AppendMembers
  <2>4. waiting'[g] = Append(waiting[g], r)
    BY <1>1, <1>3, <1>15
  <2>5. waiting' \in [Generations -> Seq(Requests)]
    BY <1>1, <1>15, <2>3
  <2>6. IsInjective(waiting'[g]) /\ Range(waiting'[g]) = Waiters(g)'
    BY <1>12, <2>2, <2>3, <2>4
  <2>7. active'[g] = Cardinality(Holding(g)') /\ active'[g] > 0
    BY <1>4, <1>12, <1>15, <2>2
  <2>8. Bounded(g)' /\ maxActive'[g] >= 1
    <3>1. active'[g] \in Nat /\ active'[g] <= active[g]
      BY <1>12, <1>15
    <3>2. Bounded(g)'
      BY <1>2, <1>3, <1>12, <1>16, <3>1, BoundStays
    <3> QED BY <1>4, <1>11, <3>2
  <2>9. AtGate(g)'
    BY <1>2, <2>6, <2>7, <2>8 DEF AtGate
  <2>10. ASSUME NEW h \in Generations, h # g PROVE AtGate(h)'
    <3>1. active'[h] = active[h] /\ waiting'[h] = waiting[h]
      BY <1>1, <1>15, <2>10
    <3> QED BY <1>10, <2>10, <3>1
  <2> QED BY <1>2, <1>6, <1>15, <2>5, <2>9, <2>10
<1> QED BY <1>13, <1>14, <1>15 DEF Acquire

\* removeWaiter of a waiter that has not been granted: it leaves the list.
LEMMA RemoveAtGate ==
  ASSUME IInv, NEW r \in Requests, pc[r] = "removing", r \notin granted,
         NEW k \in 1..Len(waiting[gate[r]]), waiting[gate[r]][k] = r,
         waiting' = [waiting EXCEPT ![gate[r]] = RemoveAt(@, k)],
         Goto(r, "rejected"), UNCHANGED <<active, maxActive, granted, expected, gate>>
  PROVE  /\ \A g \in Generations : AtGate(g)'
         /\ waiting' \in [Generations -> Seq(Requests)]
<1> DEFINE g == gate[r]
<1>1. /\ pc \in [Requests -> {"new", "looked", "acquiring", "waiting", "removing",
           "holding", "leased", "giving_back", "released", "rejected", "finished"}]
      /\ waiting \in [Generations -> Seq(Requests)]
  BY DEF IInv, TypeOK
<1>2. g \in Generations
  BY GateExists
<1>3. pc'[r] = "rejected" /\ \A q \in Requests : q # r => (pc[q] = pc'[q])
  BY <1>1 DEF Goto
<1>4. \A h \in Generations : AtGate(h)
  BY GateInvariants DEF IInv
<1>5. /\ RemoveAt(waiting[g], k) \in Seq(Requests)
      /\ Range(RemoveAt(waiting[g], k)) = Range(waiting[g]) \ {r}
      /\ IsInjective(RemoveAt(waiting[g], k))
  <2>1. waiting[g] \in Seq(Requests) /\ IsInjective(waiting[g])
    BY <1>1, <1>2, <1>4 DEF AtGate
  <2> QED BY <2>1, RemovePointwise, RemoveMembers
<1>6. waiting'[g] = RemoveAt(waiting[g], k)
  BY <1>1, <1>2
<1>7. waiting' \in [Generations -> Seq(Requests)]
  BY <1>1, <1>5
<1>8. /\ \A h \in Generations : Holding(h)' = Holding(h)
      /\ \A h \in Generations : \A q \in Callers(h) :
           q \in Callers(h)' /\ expected'[q] = expected[q]
      /\ \A h \in Generations : active[h] \in Nat
  <2>1. \A h \in Generations : active[h] \in Nat
    BY GateAssumption, FS_CardinalityType DEF IInv, TypeOK
  <2> QED BY <1>3, <2>1 DEF Holding, Callers
<1>9. Waiters(g)' = Waiters(g) \ {r}
  BY <1>3 DEF Waiters
<1>10. AtGate(g)'
  <2>1. active[g] > 0
    <3>1. waiting[g] # <<>>
      BY <1>1, <1>2, LenProperties, EmptySeq
    <3> QED BY <1>2, <1>4, <3>1 DEF AtGate
  <2>2. Range(waiting'[g]) = Waiters(g)' /\ IsInjective(waiting'[g])
    BY <1>2, <1>4, <1>5, <1>6, <1>9 DEF AtGate
  <2>3. /\ active'[g] = Cardinality(Holding(g)') /\ maxActive'[g] >= 1 /\ active'[g] > 0
    BY <1>2, <1>4, <1>8, <2>1 DEF AtGate
  <2>4. Bounded(g)'
    BY <1>2, <1>4, <1>8, BoundStays DEF AtGate
  <2> QED BY <2>2, <2>3, <2>4 DEF AtGate
<1>11. ASSUME NEW h \in Generations, h # g PROVE AtGate(h)'
  <2>1. Waiters(h)' = Waiters(h)
    BY <1>3, <1>11 DEF Waiters
  <2>2. waiting'[h] = waiting[h]
    BY <1>1, <1>11
  <2> QED BY <1>4, <1>8, <2>1, <2>2, GateUntouched
<1> QED BY <1>7, <1>10, <1>11

-----------------------------------------------------------------------------
(* The invariant is inductive.                                             *)

LEMMA Assemble ==
  ASSUME TypeOK', WorkersMet', DrainSeesLeases', BackupCounts', \A g \in Generations : AtGate(g)'
  PROVE  IInv'
<1>1. /\ (LimitKnown /\ SlotsAccounted /\ WaitersAreListed)'
      /\ \A g \in Generations : Bounded(g)'
  BY DEF LimitKnown, SlotsAccounted, WaitersAreListed, AtGate, Waiters
<1> QED BY <1>1 DEF IInv

\* A step that gives and ends no lease does not disturb the count.
LEMMA SameLeases ==
  ASSUME IInv, NEW r \in Requests, NEW step, Goto(r, step),
         UNCHANGED <<routingVars, activeRequests, savedRequests, returned>>,
         \A q \in Requests : q # r => expected'[q] = expected[q],
         \/ expected' = expected
         \/ step = "looked",
         \/ pc[r] \notin {"leased", "released"} /\ step \notin {"leased", "released"}
         \/ pc[r] = "leased" /\ step = "released"
  PROVE  DrainSeesLeases' /\ BackupCounts'
<1>1. pc' = [pc EXCEPT ![r] = step] /\ pc'[r] = step
      /\ \A q \in Requests : q # r => pc'[q] = pc[q]
  BY DEF IInv, TypeOK, Goto
<1>2. Leases(generation)' = Leases(generation)
  BY <1>1 DEF Leases, routingVars
<1> QED BY <1>2 DEF IInv, DrainSeesLeases, BackupCounts, routingVars

LEMMA LookIInv == ASSUME IInv, NEW r \in Requests, Look(r) PROVE IInv'
<1>1. TypeOK'
  BY DEF IInv, TypeOK, Look, Goto, instanceVars, routingVars, gateVars
<1>2. WorkersMet'
  <2>1. secret' = secret /\ generation' = generation /\ generation \in 0..Len(Limit)
        /\ gate' = gate /\ granted' = granted /\ pc[r] = "new"
    BY DEF IInv, TypeOK, Look, instanceVars, routingVars, gateVars
  <2>2. \A q \in Requests : q # r => expected'[q] = expected[q] /\ pc'[q] = pc[q]
    BY DEF IInv, TypeOK, Look, Goto
  <2>3. \/ pc'[r] = "looked" /\ expected'[r] = generation /\ generation >= 1
        \/ pc'[r] = "rejected" /\ expected'[r] = expected[r]
    BY <2>1 DEF IInv, TypeOK, WorkersMet, Look, Goto, Serving, NoSecret
  <2> QED BY <2>1, <2>2, <2>3, LimitTypes DEF IInv, WorkersMet
<1>3. DrainSeesLeases' /\ BackupCounts'
  <2>1. PICK step \in {"looked", "rejected"} : Goto(r, step)
    BY DEF Look
  <2>2. \A q \in Requests : q # r => expected'[q] = expected[q]
    BY DEF IInv, TypeOK, Look
  <2>3. step = "looked" \/ expected' = expected
    <3>1. pc'[r] = step /\ (pc'[r] = "looked" \/ expected' = expected)
      BY <2>1 DEF IInv, TypeOK, Look, Goto
    <3> QED BY <3>1
  <2> QED BY <2>1, <2>2, <2>3, SameLeases DEF Look, instanceVars, routingVars
<1>4. \A g \in Generations : AtGate(g)'
  <2>1. \A q \in Requests : q # r => expected'[q] = expected[q]
    BY DEF Look, IInv, TypeOK
  <2> QED BY <2>1, Elsewhere DEF Look, Goto
<1> QED BY <1>1, <1>2, <1>3, <1>4, Assemble

LEMMA FindGateIInv == ASSUME IInv, NEW r \in Requests, FindGate(r) PROVE IInv'
<1>1. TypeOK'
  BY DEF IInv, TypeOK, FindGate, Goto, instanceVars, routingVars, gateVars
<1>2. WorkersMet'
  <2>1. secret' = secret /\ generation' = generation /\ generation \in 0..Len(Limit)
        /\ expected' = expected /\ granted' = granted /\ pc[r] = "looked"
        /\ expected[r] \in 0..Len(Limit)
    BY DEF IInv, TypeOK, FindGate, instanceVars, routingVars, gateVars
  <2>2. /\ \A q \in Requests : q # r => gate'[q] = gate[q] /\ pc'[q] = pc[q]
        /\ gate'[r] = generation /\ pc'[r] = "acquiring"
    BY DEF IInv, TypeOK, FindGate, Goto
  <2> QED BY <2>1, <2>2, LimitTypes DEF IInv, WorkersMet
<1>3. DrainSeesLeases' /\ BackupCounts'
  BY SameLeases DEF FindGate, instanceVars, routingVars
<1>4. \A g \in Generations : AtGate(g)'
  <2>1. \A q \in Requests : q # r => gate'[q] = gate[q]
    BY DEF FindGate, IInv, TypeOK
  <2> QED BY <2>1, Elsewhere DEF FindGate, Goto
<1> QED BY <1>1, <1>2, <1>3, <1>4, Assemble

\* The bounds of a request's worker and gate survive its steps at the gate.
LEMMA MetBefore ==
  ASSUME IInv, NEW r \in Requests, NEW step, Goto(r, step),
         pc[r] \notin {"new", "looked", "rejected"}, step \notin {"new", "looked", "acquiring"},
         UNCHANGED <<secret, generation, expected, gate>>,
         \A q \in granted' \ granted : pc[q] \in {"waiting", "removing"}
  PROVE  WorkersMet'
<1>1. pc'[r] = step /\ \A q \in Requests : q # r => pc'[q] = pc[q]
  BY DEF IInv, TypeOK, Goto
<1>2. \A q \in Requests :
        /\ q \in granted' => pc'[q] \notin {"new", "looked", "acquiring"}
        /\ pc'[q] \in {"new", "looked"} => gate[q] = 0
        /\ pc'[q] \notin {"new", "rejected"} => expected[q] >= 1
        /\ pc'[q] \notin {"new", "looked", "rejected"} => gate[q] \in expected[q]..generation
        /\ expected[q] <= generation
  BY <1>1 DEF IInv, WorkersMet
<1> QED BY <1>2 DEF IInv, WorkersMet

LEMMA AcquireIInv == ASSUME IInv, NEW r \in Requests, Acquire(r) PROVE IInv'
<1>1. PICK step \in {"holding", "rejected", "waiting"} : Goto(r, step)
  BY AcquireAtGate
<1>2. \A g \in Generations : AtGate(g)'
  BY AcquireAtGate
<1>3. active' \in [Generations -> 0..Cardinality(Requests)]
  <2>1. active' = [g \in Generations |-> active'[g]]
    BY DEF IInv, TypeOK, Acquire
  <2> QED BY <1>2, <2>1, ActiveType
<1>4. TypeOK'
  <2>1. UNCHANGED <<instanceVars, granted, expected, gate>>
    BY DEF Acquire
  <2> QED BY <1>1, <1>3, <2>1, AcquireAtGate DEF IInv, TypeOK, Goto, instanceVars, routingVars
<1>5. WorkersMet'
  BY <1>1, MetBefore DEF Acquire, instanceVars, routingVars
<1>6. DrainSeesLeases' /\ BackupCounts'
  BY <1>1, SameLeases DEF Acquire, instanceVars, routingVars
<1> QED BY <1>2, <1>4, <1>5, <1>6, Assemble

LEMMA GrantedIInv == ASSUME IInv, NEW r \in Requests, Granted(r) PROVE IInv'
<1>1. TypeOK'
  BY DEF IInv, TypeOK, Granted, Goto, instanceVars, routingVars, gateVars
<1>2. WorkersMet'
  BY MetBefore DEF Granted, instanceVars, routingVars, gateVars
<1>3. DrainSeesLeases' /\ BackupCounts'
  BY SameLeases DEF Granted, instanceVars, routingVars
<1>4. \A g \in Generations : AtGate(g)'
  BY Elsewhere DEF Granted, Goto
<1> QED BY <1>1, <1>2, <1>3, <1>4, Assemble

LEMMA GiveUpIInv == ASSUME IInv, NEW r \in Requests, GiveUp(r) PROVE IInv'
<1>1. TypeOK'
  BY DEF IInv, TypeOK, GiveUp, Goto, instanceVars, routingVars, gateVars
<1>2. WorkersMet'
  BY MetBefore DEF GiveUp, instanceVars, routingVars, gateVars
<1>3. DrainSeesLeases' /\ BackupCounts'
  BY SameLeases DEF GiveUp, instanceVars, routingVars
<1>4. \A g \in Generations : AtGate(g)'
  BY Elsewhere DEF GiveUp, Goto
<1> QED BY <1>1, <1>2, <1>3, <1>4, Assemble

LEMMA RemoveWaiterIInv == ASSUME IInv, NEW r \in Requests, RemoveWaiter(r) PROVE IInv'
<1>1. /\ pc[r] = "removing" /\ granted' = granted
      /\ UNCHANGED <<instanceVars, active, maxActive, maxWaiting, expected, gate>>
  BY DEF RemoveWaiter
<1>2. PICK step \in {"holding", "rejected"} : Goto(r, step)
  BY DEF RemoveWaiter
<1>3. /\ \A g \in Generations : AtGate(g)'
      /\ waiting' \in [Generations -> Seq(Requests)]
  <2>1. CASE r \in granted
    <3>1. waiting' = waiting /\ pc' = [pc EXCEPT ![r] = "holding"]
      BY <2>1 DEF RemoveWaiter, Goto
    <3>2. \A g \in Generations : AtGate(g)'
      BY <1>1, <2>1, <3>1, Elsewhere DEF gateVars
    <3> QED BY <3>1, <3>2 DEF IInv, TypeOK
  <2>2. CASE r \notin granted
    <3>1. Goto(r, "rejected")
      BY <2>2 DEF RemoveWaiter
    <3>2. PICK k \in 1..Len(waiting[gate[r]]) :
            /\ waiting[gate[r]][k] = r
            /\ waiting' = [waiting EXCEPT ![gate[r]] = RemoveAt(@, k)]
      BY <2>2 DEF RemoveWaiter
    <3> QED BY <1>1, <2>2, <3>1, <3>2, RemoveAtGate
  <2> QED BY <2>1, <2>2
<1>4. TypeOK'
  BY <1>1, <1>2, <1>3 DEF IInv, TypeOK, Goto, instanceVars, routingVars
<1>5. WorkersMet'
  BY <1>1, <1>2, MetBefore DEF instanceVars, routingVars
<1>6. DrainSeesLeases' /\ BackupCounts'
  BY <1>1, <1>2, SameLeases DEF instanceVars, routingVars
<1> QED BY <1>3, <1>4, <1>5, <1>6, Assemble

LEMMA RecheckIInv == ASSUME IInv, NEW r \in Requests, Recheck(r) PROVE IInv'
<1>1. /\ pc[r] = "holding"
      /\ UNCHANGED <<routingVars, savedRequests, returned, emergency, gateVars, expected, gate>>
  BY DEF Recheck
<1>2. PICK step \in {"leased", "giving_back"} : Goto(r, step)
  BY DEF Recheck
<1>3. /\ pc'[r] = step /\ \A q \in Requests : q # r => pc'[q] = pc[q]
      /\ generation \in 0..Len(Limit) /\ activeRequests \in 0..Cardinality(Requests)
  BY <1>2 DEF IInv, TypeOK, Goto
<1>4. DrainSeesLeases' /\ BackupCounts' /\ activeRequests' \in 0..Cardinality(Requests)
  <2>1. CASE /\ Serving /\ generation = expected[r]
             /\ activeRequests' = activeRequests + 1 /\ Goto(r, "leased")
    <3>1. activeRequests = Cardinality(Leases(generation)) /\ saved = NoSecret
      BY <2>1 DEF IInv, DrainSeesLeases, BackupCounts, Serving
    <3>2. pc'[r] = "leased"
      BY <2>1 DEF IInv, TypeOK, Goto
    <3>3. Leases(generation)' = Leases(generation) \cup {r} /\ r \notin Leases(generation)
      BY <1>1, <1>3, <2>1, <3>2 DEF Leases, routingVars
    <3>4. Leases(generation) \subseteq Requests
      BY DEF Leases
    <3>5. Cardinality(Leases(generation)') = Cardinality(Leases(generation)) + 1
      BY <3>3, <3>4, Counts
    <3>6. Cardinality(Leases(generation)') \in 0..Cardinality(Requests)
      <4>1. Leases(generation) \cup {r} \subseteq Requests
        BY <3>4
      <4> QED BY <3>3, <4>1, Counts
    <3>7. activeRequests' = Cardinality(Leases(generation)')
      BY <2>1, <3>1, <3>5
    <3>8. BackupCounts'
      BY <1>1, <3>1 DEF IInv, BackupCounts, routingVars
    <3> QED BY <3>6, <3>7, <3>8 DEF DrainSeesLeases
  <2>2. CASE Goto(r, "giving_back") /\ activeRequests' = activeRequests
    <3>1. DrainSeesLeases' /\ BackupCounts'
      BY <1>1, <2>2, SameLeases
    <3> QED BY <1>3, <2>2, <3>1
  <2> QED BY <2>1, <2>2 DEF Recheck
<1>5. TypeOK'
  BY <1>1, <1>2, <1>4 DEF IInv, TypeOK, Goto, gateVars, routingVars
<1>6. WorkersMet'
  BY <1>1, <1>2, MetBefore DEF gateVars, routingVars
<1>7. \A g \in Generations : AtGate(g)'
  BY <1>1, <1>2, Elsewhere DEF Goto
<1> QED BY <1>4, <1>5, <1>6, <1>7, Assemble

LEMMA ReleaseIInv ==
  ASSUME IInv, NEW r \in Requests, GiveBack(r) \/ ReleaseSlot(r) PROVE IInv'
<1>1. PICK step \in {"rejected", "released"} :
        /\ Goto(r, step)
        /\ \/ pc[r] = "giving_back" /\ step = "rejected"
           \/ pc[r] = "leased" /\ step = "released"
  BY DEF GiveBack, ReleaseSlot
<1>2. Release(gate[r]) /\ UNCHANGED <<instanceVars, expected, gate>>
  BY DEF GiveBack, ReleaseSlot
<1>3. /\ \A g \in Generations : AtGate(g)'
      /\ gate[r] \in Generations /\ granted \subseteq granted'
      /\ \A q \in granted' \ granted : q \in Waiters(gate[r])
      /\ waiting' \in [Generations -> Seq(Requests)]
  BY <1>1, <1>2, ReleaseAtGate DEF Goto
<1>4. active' \in [Generations -> 0..Cardinality(Requests)]
  <2>1. active' = [g \in Generations |-> active'[g]]
    BY <1>2 DEF IInv, TypeOK, Release
  <2> QED BY <1>3, <2>1, ActiveType
<1>5. TypeOK'
  <2>1. granted' \subseteq Requests
    BY <1>3 DEF IInv, TypeOK, Waiters
  <2>2. maxActive' = maxActive /\ maxWaiting' = maxWaiting
    BY <1>2 DEF Release
  <2> QED BY <1>1, <1>2, <1>3, <1>4, <2>1, <2>2 DEF IInv, TypeOK, Goto, instanceVars, routingVars
<1>6. WorkersMet'
  <2>1. \A q \in granted' \ granted : pc[q] \in {"waiting", "removing"}
    BY <1>3 DEF Waiters
  <2> QED BY <1>1, <1>2, <2>1, MetBefore DEF instanceVars, routingVars
<1>7. DrainSeesLeases' /\ BackupCounts'
  BY <1>1, <1>2, SameLeases DEF instanceVars, routingVars
<1> QED BY <1>3, <1>5, <1>6, <1>7, Assemble

LEMMA ReleaseLeaseIInv == ASSUME IInv, NEW r \in Requests, ReleaseLease(r) PROVE IInv'
<1>1. /\ pc[r] = "released" /\ Goto(r, "finished")
      /\ UNCHANGED <<routingVars, savedRequests, returned, emergency, gateVars, expected, gate>>
  BY DEF ReleaseLease
<1>2. /\ pc'[r] = "finished" /\ \A q \in Requests : q # r => pc'[q] = pc[q]
      /\ activeRequests \in 0..Cardinality(Requests) /\ Cardinality(Requests) \in Nat
  BY <1>1, GateAssumption, FS_CardinalityType DEF IInv, TypeOK, Goto
<1>3. activeRequests' \in 0..Cardinality(Requests)
  BY <1>2 DEF ReleaseLease
<1>4. DrainSeesLeases' /\ BackupCounts'
  <2> DEFINE n == Cardinality(Leases(generation))
  <2>1. /\ UNCHANGED <<state, generation, secret, saved, savedRequests, returned>>
        /\ secret # NoSecret => secret = generation
        /\ savedRequests \in Nat /\ n \in Nat
    <3>1. Leases(generation) \subseteq Requests
      BY DEF Leases
    <3>2. n \in 0..Cardinality(Requests)
      BY <3>1, Counts
    <3> QED BY <1>1, <1>2, <3>2 DEF IInv, TypeOK, WorkersMet, routingVars
  <2>2. CASE expected[r] = generation
    <3>1. r \in Leases(generation) /\ Leases(generation)' = Leases(generation) \ {r}
      BY <1>1, <1>2, <2>1, <2>2 DEF Leases
    <3>2. Cardinality(Leases(generation)') = n - 1 /\ n >= 1
      <4>1. Leases(generation) \subseteq Requests
        BY DEF Leases
      <4> QED BY <3>1, <4>1, Counts
    <3>3. secret # NoSecret /\ activeRequests >= n => activeRequests' = activeRequests - 1
      BY <1>2, <2>1, <2>2, <3>2 DEF ReleaseLease
    <3> HIDE DEF n
    <3>4. secret # NoSecret =>
            activeRequests >= n /\ (~returned => activeRequests = n)
      BY DEF IInv, DrainSeesLeases, n
    <3>5. DrainSeesLeases'
      BY <1>2, <2>1, <3>2, <3>3, <3>4 DEF DrainSeesLeases
    <3>6. BackupCounts'
      <4>1. saved # NoSecret => savedRequests >= n
        BY DEF IInv, BackupCounts, n
      <4> QED BY <2>1, <3>2, <4>1 DEF IInv, BackupCounts
    <3> QED BY <3>5, <3>6
  <2>3. CASE expected[r] # generation
    <3>1. Leases(generation)' = Leases(generation)
      BY <1>1, <1>2, <2>1, <2>3 DEF Leases
    <3>2. activeRequests' = activeRequests
      BY <2>3 DEF ReleaseLease
    <3> QED BY <2>1, <3>1, <3>2 DEF IInv, DrainSeesLeases, BackupCounts
  <2> QED BY <2>2, <2>3
<1>5. TypeOK'
  BY <1>1, <1>3 DEF IInv, TypeOK, Goto, gateVars, routingVars
<1>6. WorkersMet'
  BY <1>1, MetBefore DEF gateVars, routingVars
<1>7. \A g \in Generations : AtGate(g)'
  BY <1>1, Elsewhere DEF Goto
<1> QED BY <1>4, <1>5, <1>6, <1>7, Assemble

\* What happens to the instance leaves the gates, their requests and the leases alone.
LEMMA InstanceIInv ==
  ASSUME IInv,
         Commit \/ Pause \/ Reopen \/ Close \/ Save \/ Return \/ GuardChange
           \/ UNCHANGED vars
  PROVE  IInv'
<1> USE DEF Routing!Commit, Routing!Pause, Routing!Reopen, Routing!Close, Routing!Save,
            Routing!Return, Routing!NoSecret, NoSecret, routingVars
<1>1. UNCHANGED <<gateVars, pc, expected, gate>>
  BY DEF Commit, Pause, Reopen, Close, Save, Return, GuardChange, vars
<1>2. \A g \in Generations : AtGate(g)'
  <2>1. \A g \in Generations : AtGate(g)
    BY GateInvariants DEF IInv
  <2>2. \A g \in Generations :
          Holding(g)' = Holding(g) /\ Waiters(g)' = Waiters(g) /\ Callers(g)' = Callers(g)
    BY <1>1 DEF Holding, Waiters, Callers, gateVars
  <2>3. \A g \in Generations : active[g] \in Nat
    BY GateAssumption, FS_CardinalityType DEF IInv, TypeOK
  <2> QED BY <1>1, <2>1, <2>2, <2>3, GateUntouched DEF gateVars
<1>3. /\ generation \in 0..Len(Limit) /\ Len(Limit) \in Nat
      /\ Cardinality(Requests) \in Nat /\ 0 \in 0..Cardinality(Requests)
      /\ activeRequests \in 0..Cardinality(Requests)
      /\ savedRequests \in 0..Cardinality(Requests)
  BY LimitTypes, GateAssumption, FS_CardinalityType DEF IInv, TypeOK
<1>4. CASE Commit
  <2>1. /\ generation' = generation + 1 /\ secret' = generation + 1 /\ saved' = 0
        /\ activeRequests' = 0 /\ savedRequests' = 0 /\ returned' = FALSE
        /\ generation + 1 \in 0..Len(Limit) /\ state' = "ready" /\ emergency' = emergency
    BY <1>3, <1>4, LimitTypes DEF Commit
  <2>2. TypeOK'
    <3>1. state' \in {"closed", "ready", "paused"} /\ returned' \in BOOLEAN
      BY <2>1
    <3>2. /\ generation' \in 0..Len(Limit) /\ secret' \in 0..Len(Limit)
          /\ saved' \in 0..Len(Limit)
          /\ activeRequests' \in 0..Cardinality(Requests)
          /\ savedRequests' \in 0..Cardinality(Requests)
      BY <1>3, <2>1
    <3> QED BY <1>1, <2>1, <3>1, <3>2 DEF IInv, TypeOK, gateVars
  <2>3. \A r \in Requests : expected[r] <= generation /\ expected[r] \in 0..Len(Limit)
          /\ gate[r] \in 0..Len(Limit)
    BY DEF IInv, TypeOK, WorkersMet
  <2>4. WorkersMet'
    BY <1>1, <1>3, <2>1, <2>3 DEF IInv, WorkersMet, gateVars
  <2>5. Leases(generation)' = {}
    BY <1>1, <1>3, <2>1, <2>3 DEF Leases
  <2>6. DrainSeesLeases' /\ BackupCounts'
    BY <2>1, <2>5, FS_EmptySet DEF DrainSeesLeases, BackupCounts
  <2> QED BY <1>2, <2>2, <2>4, <2>6, Assemble
<1>5. CASE ~Commit
  <2>1. generation' = generation
    BY <1>5 DEF Pause, Reopen, Close, Save, Return, GuardChange, vars, instanceVars
  <2>2. Leases(generation)' = Leases(generation)
    BY <1>1, <2>1 DEF Leases
  <2>3. secret \in {0, generation} /\ saved \in {0, generation}
    BY DEF IInv, WorkersMet, BackupCounts
  <2>4. secret' \in {0, generation} /\ saved' \in {0, generation}
    BY <1>5, <2>3 DEF Pause, Reopen, Close, Save, Return, GuardChange, vars, instanceVars
  <2>5. WorkersMet'
    BY <1>1, <2>1, <2>4 DEF IInv, WorkersMet, gateVars
  <2>6. TypeOK'
    <3>1. state' \in {"closed", "ready", "paused"} /\ returned' \in BOOLEAN /\ emergency' \in BOOLEAN
      BY <1>5 DEF Pause, Reopen, Close, Save, Return, GuardChange, vars, instanceVars, IInv, TypeOK
    <3>2. /\ activeRequests' \in 0..Cardinality(Requests)
          /\ savedRequests' \in 0..Cardinality(Requests)
      BY <1>3, <1>5 DEF Pause, Reopen, Close, Save, Return, GuardChange, vars, instanceVars
    <3>3. generation' \in 0..Len(Limit) /\ secret' \in 0..Len(Limit) /\ saved' \in 0..Len(Limit)
      BY <1>3, <2>1, <2>4
    <3> QED BY <1>1, <3>1, <3>2, <3>3 DEF IInv, TypeOK, gateVars
  <2> DEFINE n == Cardinality(Leases(generation))
  <2>7. n' = n /\ n \in Nat
    <3>1. Leases(generation) \subseteq Requests
      BY DEF Leases
    <3> QED BY <1>3, <2>2, <3>1, Counts
  <2> HIDE DEF n
  <2>8. /\ secret # 0 => activeRequests >= n /\ (~returned => activeRequests = n)
        /\ saved # 0 => savedRequests >= n
        /\ state # "closed" => saved = 0 /\ ~returned
    BY DEF IInv, DrainSeesLeases, BackupCounts, n
  <2>9. /\ secret' # 0 => activeRequests' >= n /\ (~returned' => activeRequests' = n)
        /\ saved' # 0 => savedRequests' >= n
        /\ state' # "closed" => saved' = 0 /\ ~returned'
    <3>1. CASE Pause \/ Reopen \/ GuardChange \/ UNCHANGED vars
      BY <2>8, <3>1 DEF Pause, Reopen, GuardChange, vars, instanceVars
    <3>2. CASE Close
      BY <2>8, <3>2 DEF Close
    <3>3. CASE Save
      BY <2>8, <3>3 DEF Save
    <3>4. CASE Return
      BY <2>8, <3>4 DEF Return
    <3> QED BY <1>5, <3>1, <3>2, <3>3, <3>4
  <2>10. DrainSeesLeases' /\ BackupCounts'
    <3>1. Cardinality(Leases(generation))' = n
      BY <2>7 DEF n
    <3> QED BY <2>4, <2>1, <2>9, <3>1 DEF DrainSeesLeases, BackupCounts
  <2> QED BY <1>2, <2>5, <2>6, <2>10, Assemble
<1> QED BY <1>4, <1>5

LEMMA InitIInv == Init => IInv
<1> SUFFICES ASSUME Init PROVE IInv
  OBVIOUS
<1>1. Cardinality(Requests) \in Nat /\ Len(Limit) \in Nat
  BY LimitTypes, GateAssumption, FS_CardinalityType
<1>2. /\ active \in [Generations -> 0..Cardinality(Requests)]
      /\ maxActive \in [Generations -> Nat] /\ maxWaiting \in [Generations -> 0..8]
  BY <1>1 DEF Init
<1>3. waiting \in [Generations -> Seq(Requests)]
  <2>1. <<>> \in Seq(Requests)
    OBVIOUS
  <2> QED BY <2>1 DEF Init
<1>4. /\ pc \in [Requests -> {"new", "looked", "acquiring", "waiting", "removing",
           "holding", "leased", "giving_back", "released", "rejected", "finished"}]
      /\ expected \in [Requests -> 0..Len(Limit)] /\ gate \in [Requests -> 0..Len(Limit)]
  BY <1>1 DEF Init
<1>5. TypeOK
  <2>1. /\ generation \in 0..Len(Limit) /\ secret \in 0..Len(Limit) /\ saved \in 0..Len(Limit)
        /\ activeRequests \in 0..Cardinality(Requests)
        /\ savedRequests \in 0..Cardinality(Requests)
    BY <1>1 DEF Init, Routing!Init, Routing!NoSecret
  <2>2. /\ state \in {"closed", "ready", "paused"} /\ returned \in BOOLEAN
        /\ emergency \in BOOLEAN /\ granted \subseteq Requests
    BY DEF Init, Routing!Init
  <2> QED BY <1>2, <1>3, <1>4, <2>1, <2>2 DEF TypeOK
<1>6. WorkersMet /\ DrainSeesLeases /\ BackupCounts
  BY <1>1 DEF Init, Routing!Init, Routing!NoSecret, WorkersMet, DrainSeesLeases,
     BackupCounts, NoSecret
<1>7. ASSUME NEW g \in Generations PROVE AtGate(g)
  <2>1. active[g] = 0 /\ waiting[g] = <<>> /\ Holding(g) = {} /\ Waiters(g) = {}
    BY DEF Init, Holding, Waiters
  <2>2. Cardinality({}) = 0
    BY FS_EmptySet
  <2>3. IsInjective(<<>>) /\ Range(<<>>) = {}
    BY DEF IsInjective, Range
  <2>4. Bounded(g)
    BY <2>1 DEF Bounded
  <2> QED BY <2>1, <2>2, <2>3, <2>4 DEF AtGate
<1> QED BY <1>5, <1>6, <1>7, GateInvariants DEF IInv

LEMMA NextIInv == IInv /\ [Next]_vars => IInv'
<1> SUFFICES ASSUME IInv, [Next]_vars PROVE IInv'
  OBVIOUS
<1>1. ASSUME NEW r \in Requests, Progress(r) \/ GiveUp(r) PROVE IInv'
  BY <1>1, LookIInv, FindGateIInv, AcquireIInv, GrantedIInv, GiveUpIInv, RemoveWaiterIInv,
     RecheckIInv, ReleaseIInv, ReleaseLeaseIInv DEF Progress
<1> QED BY <1>1, InstanceIInv DEF Next

-----------------------------------------------------------------------------
(* The theorems.                                                           *)

\* The inductive invariant holds in every reachable state.
THEOREM Invariance == Spec => []IInv
BY InitIInv, NextIInv, PTL DEF Spec

\* The types; in particular the counts of a gate and of an instance stay between
\* zero and the number of requests (admission.go, usage.go).
THEOREM TypeCorrect == Spec => []TypeOK
<1>1. IInv => TypeOK
  BY DEF IInv
<1> QED BY <1>1, Invariance, PTL

\* A gate counts the requests that hold a slot of it or have been handed one, also
\* when acquire gives up while releaseFunc grants it (admission.go).
THEOREM SlotsAreCounted == Spec => []SlotsAccounted
<1>1. IInv => SlotsAccounted
  BY DEF IInv
<1> QED BY <1>1, Invariance, PTL

\* The waiting list of a gate holds exactly the requests that wait for a slot, and
\* nobody waits at a gate without an owner of a slot (admission.go).
THEOREM WaitersStayListed == Spec => []WaitersAreListed
<1>1. IInv => WaitersAreListed
  BY DEF IInv
<1> QED BY <1>1, Invariance, PTL

\* While the routing of a worker stands, a drain misses no open lease of it, and waits
\* for nothing else unless a backup was put back (usage.go, acquireInference).
THEOREM DrainCountsLeases == Spec => []DrainSeesLeases
<1>1. IInv => DrainSeesLeases
  BY DEF IInv
<1> QED BY <1>1, Invariance, PTL

\* A gate gives out no more slots than the largest limit one of the requests at it has
\* brought (admission.go, inferenceGate.acquire; usage.go:51).
THEOREM GateStaysBounded == Spec => []GateIsBounded
<1>1. IInv => GateIsBounded
  BY DEF IInv, Bounded, GateIsBounded
<1> QED BY <1>1, Invariance, PTL
=============================================================================

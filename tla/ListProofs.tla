----------------------------- MODULE ListProofs -----------------------------
(***************************************************************************)
(* What inserting, removing, appending and taking the head does to the     *)
(* members of a waiting list, for the list of the start queue and those of *)
(* the inference gates (both in modules/engine/admission.go).              *)
(***************************************************************************)
EXTENDS Naturals, SequencesExt, SequenceTheorems, TLAPS

-----------------------------------------------------------------------------
(* Element by element.                                                     *)

LEMMA InsertPointwise ==
  ASSUME NEW S, NEW s \in Seq(S), NEW k \in 1..(Len(s) + 1), NEW e \in S
  PROVE  /\ InsertAt(s, k, e) \in Seq(S)
         /\ Len(InsertAt(s, k, e)) = Len(s) + 1
         /\ \A j \in 1..(Len(s) + 1) :
              InsertAt(s, k, e)[j] = IF j < k THEN s[j]
                                     ELSE IF j = k THEN e ELSE s[j - 1]
<1> DEFINE a == SubSeq(s, 1, k - 1)
           b == SubSeq(s, k, Len(s))
<1>0. /\ Len(s) \in Nat
      /\ \A i \in 1..Len(s) : s[i] \in S
  BY LenProperties, ElementOfSeq
<1>1. /\ a \in Seq(S) /\ Len(a) = k - 1
      /\ \A i \in 1..(k - 1) : a[i] = s[i]
  <2>1. \A i \in 1..(k - 1) : s[i] \in S
    BY <1>0
  <2>2. /\ a \in Seq(S) /\ Len(a) = IF 1 <= k - 1 THEN k - 1 - 1 + 1 ELSE 0
        /\ \A i \in 1..(k - 1 - 1 + 1) : a[i] = s[1 + i - 1]
    BY <1>0, <2>1, SubSeqProperties
  <2>3. k - 1 - 1 + 1 = k - 1 /\ \A i \in 1..(k - 1) : 1 + i - 1 = i
    BY <1>0
  <2>4. Len(a) = k - 1
    BY <1>0, <2>2
  <2>5. \A i \in 1..(k - 1) : a[i] = s[i]
    BY <2>2, <2>3
  <2> QED BY <2>2, <2>4, <2>5
<1>2. /\ b \in Seq(S) /\ Len(b) = Len(s) - k + 1
      /\ \A i \in 1..(Len(s) - k + 1) : b[i] = s[k + i - 1]
  <2>1. \A i \in k..Len(s) : s[i] \in S
    BY <1>0
  <2>2. /\ b \in Seq(S) /\ Len(b) = IF k <= Len(s) THEN Len(s) - k + 1 ELSE 0
        /\ \A i \in 1..(Len(s) - k + 1) : b[i] = s[k + i - 1]
    BY <1>0, <2>1, SubSeqProperties
  <2>3. Len(b) = Len(s) - k + 1
    BY <1>0, <2>2
  <2> QED BY <2>2, <2>3
<1>3. /\ <<e>> \in Seq(S) /\ Len(<<e>>) = 1 /\ <<e>>[1] = e
  OBVIOUS
<1>4. /\ a \o <<e>> \in Seq(S) /\ Len(a \o <<e>>) = k
      /\ \A i \in 1..k : (a \o <<e>>)[i] = IF i < k THEN s[i] ELSE e
  <2>1. /\ a \o <<e>> \in Seq(S)
        /\ Len(a \o <<e>>) = k - 1 + 1
        /\ \A i \in 1..(k - 1 + 1) :
             (a \o <<e>>)[i] = IF i <= k - 1 THEN a[i] ELSE <<e>>[i - (k - 1)]
    BY <1>1, <1>3, ConcatProperties
  <2>2. \A i \in 1..k : i = k => i - (k - 1) = 1
    OBVIOUS
  <2> QED BY <1>1, <1>3, <2>1, <2>2
<1>5. InsertAt(s, k, e) = (a \o <<e>>) \o b
  BY DEF InsertAt
<1>6. /\ InsertAt(s, k, e) \in Seq(S)
      /\ Len(InsertAt(s, k, e)) = k + (Len(s) - k + 1)
      /\ \A i \in 1..(k + (Len(s) - k + 1)) :
           InsertAt(s, k, e)[i]
             = IF i <= k THEN (a \o <<e>>)[i] ELSE b[i - k]
  <2> HIDE DEF a, b
  <2> QED BY <1>2, <1>4, <1>5, ConcatProperties
<1>7. k + (Len(s) - k + 1) = Len(s) + 1
  BY <1>0
<1>8. ASSUME NEW j \in 1..(Len(s) + 1)
      PROVE  InsertAt(s, k, e)[j] = IF j < k THEN s[j]
                                     ELSE IF j = k THEN e ELSE s[j - 1]
  <2> HIDE DEF a, b
  <2>1. CASE j <= k
    BY <1>0, <1>4, <1>6, <1>7, <2>1
  <2>2. CASE j > k
    <3>1. j - k \in 1..(Len(s) - k + 1) /\ k + (j - k) - 1 = j - 1
      BY <1>0, <2>2
    <3>2. b[j - k] = s[j - 1]
      BY <1>2, <3>1
    <3> QED BY <1>0, <1>6, <1>7, <2>2, <3>2
  <2> QED BY <1>0, <2>1, <2>2
<1> QED BY <1>6, <1>7, <1>8

LEMMA RemovePointwise ==
  ASSUME NEW S, NEW s \in Seq(S), NEW k \in 1..Len(s)
  PROVE  /\ RemoveAt(s, k) \in Seq(S)
         /\ Len(RemoveAt(s, k)) = Len(s) - 1
         /\ \A j \in 1..(Len(s) - 1) :
              RemoveAt(s, k)[j] = IF j < k THEN s[j] ELSE s[j + 1]
<1> DEFINE a == SubSeq(s, 1, k - 1)
           b == SubSeq(s, k + 1, Len(s))
<1>0. /\ Len(s) \in Nat
      /\ \A i \in 1..Len(s) : s[i] \in S
  BY LenProperties, ElementOfSeq
<1>1. /\ a \in Seq(S) /\ Len(a) = k - 1
      /\ \A i \in 1..(k - 1) : a[i] = s[i]
  <2>1. \A i \in 1..(k - 1) : s[i] \in S
    BY <1>0
  <2>2. /\ a \in Seq(S) /\ Len(a) = IF 1 <= k - 1 THEN k - 1 - 1 + 1 ELSE 0
        /\ \A i \in 1..(k - 1 - 1 + 1) : a[i] = s[1 + i - 1]
    BY <1>0, <2>1, SubSeqProperties
  <2>3. k - 1 - 1 + 1 = k - 1 /\ \A i \in 1..(k - 1) : 1 + i - 1 = i
    BY <1>0
  <2>4. Len(a) = k - 1
    BY <1>0, <2>2
  <2>5. \A i \in 1..(k - 1) : a[i] = s[i]
    BY <2>2, <2>3
  <2> QED BY <2>2, <2>4, <2>5
<1>2. /\ b \in Seq(S) /\ Len(b) = Len(s) - k
      /\ \A i \in 1..(Len(s) - k) : b[i] = s[k + i]
  <2>1. \A i \in (k + 1)..Len(s) : s[i] \in S
    BY <1>0
  <2>2. /\ b \in Seq(S)
        /\ Len(b) = IF k + 1 <= Len(s) THEN Len(s) - (k + 1) + 1 ELSE 0
        /\ \A i \in 1..(Len(s) - (k + 1) + 1) : b[i] = s[(k + 1) + i - 1]
    BY <1>0, <2>1, SubSeqProperties
  <2>3. /\ Len(s) - (k + 1) + 1 = Len(s) - k
        /\ \A i \in 1..(Len(s) - k) : (k + 1) + i - 1 = k + i
    BY <1>0
  <2>4. Len(b) = Len(s) - k
    BY <1>0, <2>2
  <2>5. \A i \in 1..(Len(s) - k) : b[i] = s[k + i]
    BY <2>2, <2>3
  <2> QED BY <2>2, <2>4, <2>5
<1>3. RemoveAt(s, k) = a \o b
  BY DEF RemoveAt
<1>4. /\ RemoveAt(s, k) \in Seq(S)
      /\ Len(RemoveAt(s, k)) = (k - 1) + (Len(s) - k)
      /\ \A i \in 1..((k - 1) + (Len(s) - k)) :
           RemoveAt(s, k)[i] = IF i <= k - 1 THEN a[i] ELSE b[i - (k - 1)]
  <2> HIDE DEF a, b
  <2>1. a \in Seq(S) /\ b \in Seq(S)
    BY <1>1, <1>2
  <2>2. /\ a \o b \in Seq(S)
        /\ Len(a \o b) = Len(a) + Len(b)
        /\ \A i \in 1..(Len(a) + Len(b)) :
             (a \o b)[i] = IF i <= Len(a) THEN a[i] ELSE b[i - Len(a)]
    BY <2>1, ConcatProperties
  <2> QED BY <1>1, <1>2, <1>3, <2>2
<1>5. (k - 1) + (Len(s) - k) = Len(s) - 1
  BY <1>0
<1>6. ASSUME NEW j \in 1..(Len(s) - 1)
      PROVE  RemoveAt(s, k)[j] = IF j < k THEN s[j] ELSE s[j + 1]
  <2> HIDE DEF a, b
  <2>1. CASE j < k
    BY <1>0, <1>1, <1>4, <1>5, <2>1
  <2>2. CASE j >= k
    <3>1. j - (k - 1) \in 1..(Len(s) - k) /\ k + (j - (k - 1)) = j + 1
      BY <1>0, <2>2
    <3>2. b[j - (k - 1)] = s[j + 1]
      BY <1>2, <3>1
    <3> QED BY <1>0, <1>4, <1>5, <2>2, <3>2
  <2> QED BY <1>0, <2>1, <2>2
<1> QED BY <1>4, <1>5, <1>6

-----------------------------------------------------------------------------
(* The members.                                                            *)

LEMMA InsertMembers ==
  ASSUME NEW S, NEW s \in Seq(S), NEW k \in 1..(Len(s) + 1), NEW e \in S,
         IsInjective(s), e \notin Range(s)
  PROVE  /\ Range(InsertAt(s, k, e)) = Range(s) \cup {e}
         /\ IsInjective(InsertAt(s, k, e))
<1> DEFINE t == InsertAt(s, k, e)
<1>1. /\ t \in Seq(S) /\ Len(t) = Len(s) + 1 /\ Len(s) \in Nat
      /\ \A j \in 1..(Len(s) + 1) :
           t[j] = IF j < k THEN s[j] ELSE IF j = k THEN e ELSE s[j - 1]
  <2>1. Len(s) \in Nat
    BY LenProperties
  <2> HIDE DEF t
  <2>2. t = InsertAt(s, k, e)
    BY DEF t
  <2>3. /\ t \in Seq(S) /\ Len(t) = Len(s) + 1
        /\ \A j \in 1..(Len(s) + 1) :
             t[j] = IF j < k THEN s[j] ELSE IF j = k THEN e ELSE s[j - 1]
    <3>1. /\ InsertAt(s, k, e) \in Seq(S)
          /\ Len(InsertAt(s, k, e)) = Len(s) + 1
      BY InsertPointwise
    <3>2. ASSUME NEW j \in 1..(Len(s) + 1)
          PROVE  InsertAt(s, k, e)[j] = IF j < k THEN s[j]
                                         ELSE IF j = k THEN e ELSE s[j - 1]
      BY InsertPointwise
    <3> QED BY <2>2, <3>1, <3>2
  <2> QED BY <2>1, <2>3
<1> HIDE DEF t
<1>2. /\ Range(t) = {t[j] : j \in 1..(Len(s) + 1)}
      /\ Range(s) = {s[j] : j \in 1..Len(s)}
      /\ DOMAIN t = 1..(Len(s) + 1) /\ DOMAIN s = 1..Len(s)
  BY <1>1, RangeEquality, LenProperties
<1>3. \A j \in 1..(Len(s) + 1) : t[j] \in Range(s) \cup {e}
  BY <1>1, <1>2
<1>4. \A j \in 1..Len(s) : s[j] \in Range(t)
  <2> SUFFICES ASSUME NEW j \in 1..Len(s)
               PROVE  \E i \in 1..(Len(s) + 1) : t[i] = s[j]
    BY <1>2
  <2>1. CASE j < k
    BY <1>1, <2>1
  <2>2. CASE j >= k
    <3>1. j + 1 \in 1..(Len(s) + 1) /\ j + 1 - 1 = j /\ ~(j + 1 < k) /\ j + 1 # k
      BY <1>1, <2>2
    <3>2. t[j + 1] = s[j + 1 - 1]
      BY <1>1, <3>1
    <3> QED BY <3>1, <3>2
  <2> QED BY <1>1, <2>1, <2>2
<1>5. e \in Range(t)
  <2>1. t[k] = e
    BY <1>1
  <2> QED BY <1>2, <2>1
<1>6. \A i, j \in 1..(Len(s) + 1) : t[i] = t[j] => i = j
  <2> SUFFICES ASSUME NEW i \in 1..(Len(s) + 1), NEW j \in 1..(Len(s) + 1),
                      t[i] = t[j]
               PROVE  i = j
    OBVIOUS
  <2>1. \A x, y \in 1..Len(s) : s[x] = s[y] => x = y
    BY <1>2 DEF IsInjective
  <2>2. \A x \in 1..Len(s) : s[x] # e
    BY <1>2
  <2>3. ASSUME NEW x \in 1..(Len(s) + 1), x # k
        PROVE  \E y \in 1..Len(s) :
                 t[x] = s[y] /\ y = IF x < k THEN x ELSE x - 1
    <3>1. CASE x < k
      BY <1>1, <3>1
    <3>2. CASE x > k
      <4>1. x - 1 \in 1..Len(s) /\ t[x] = s[x - 1]
        BY <1>1, <3>2
      <4> QED BY <3>2, <4>1
    <3> QED BY <1>1, <2>3, <3>1, <3>2
  <2>4. t[k] = e
    BY <1>1
  <2>5. CASE i = k \/ j = k
    BY <2>2, <2>3, <2>4, <2>5
  <2>6. CASE i # k /\ j # k
    <3>1. PICK y \in 1..Len(s) : t[i] = s[y] /\ y = IF i < k THEN i ELSE i - 1
      BY <2>3, <2>6
    <3>2. PICK z \in 1..Len(s) : t[j] = s[z] /\ z = IF j < k THEN j ELSE j - 1
      BY <2>3, <2>6
    <3>3. y = z
      BY <2>1, <3>1, <3>2
    <3> QED BY <1>1, <2>6, <3>1, <3>2, <3>3
  <2> QED BY <2>5, <2>6
<1> QED BY <1>2, <1>3, <1>4, <1>5, <1>6 DEF IsInjective, t

LEMMA RemoveMembers ==
  ASSUME NEW S, NEW s \in Seq(S), NEW k \in 1..Len(s), IsInjective(s)
  PROVE  /\ Range(RemoveAt(s, k)) = Range(s) \ {s[k]}
         /\ IsInjective(RemoveAt(s, k))
<1> DEFINE t == RemoveAt(s, k)
<1>1. /\ t \in Seq(S) /\ Len(t) = Len(s) - 1 /\ Len(s) \in Nat
      /\ \A j \in 1..(Len(s) - 1) : t[j] = IF j < k THEN s[j] ELSE s[j + 1]
  BY RemovePointwise, LenProperties
<1> HIDE DEF t
<1>2. /\ Range(t) = {t[j] : j \in 1..(Len(s) - 1)}
      /\ Range(s) = {s[j] : j \in 1..Len(s)}
      /\ DOMAIN t = 1..(Len(s) - 1) /\ DOMAIN s = 1..Len(s)
  BY <1>1, RangeEquality, LenProperties
<1>3. \A x, y \in 1..Len(s) : s[x] = s[y] => x = y
  BY <1>2 DEF IsInjective
<1>4. \A j \in 1..(Len(s) - 1) : t[j] \in Range(s) \ {s[k]}
  <2> SUFFICES ASSUME NEW j \in 1..(Len(s) - 1)
               PROVE  t[j] \in Range(s) \ {s[k]}
    OBVIOUS
  <2>1. PICK x \in 1..Len(s) : t[j] = s[x] /\ x # k
    <3>1. CASE j < k
      BY <1>1, <3>1
    <3>2. CASE j >= k
      <4>1. j + 1 \in 1..Len(s) /\ j + 1 # k
        BY <1>1, <3>2
      <4> QED BY <1>1, <3>2, <4>1
    <3> QED BY <1>1, <3>1, <3>2
  <2> QED BY <1>2, <1>3, <2>1
<1>5. \A x \in 1..Len(s) : s[x] # s[k] => s[x] \in Range(t)
  <2> SUFFICES ASSUME NEW x \in 1..Len(s), s[x] # s[k]
               PROVE  \E j \in 1..(Len(s) - 1) : t[j] = s[x]
    BY <1>2
  <2>1. CASE x < k
    BY <1>1, <2>1
  <2>2. CASE x > k
    <3>1. x - 1 \in 1..(Len(s) - 1) /\ x - 1 + 1 = x /\ ~(x - 1 < k)
      BY <1>1, <2>2
    <3> QED BY <1>1, <3>1
  <2> QED BY <1>1, <2>1, <2>2
<1>6. \A i, j \in 1..(Len(s) - 1) : t[i] = t[j] => i = j
  BY <1>1, <1>3
<1>7. Range(t) = Range(s) \ {s[k]}
  BY <1>2, <1>4, <1>5
<1>8. IsInjective(t)
  BY <1>2, <1>6 DEF IsInjective
<1> QED BY <1>7, <1>8 DEF t

LEMMA TailMembers ==
  ASSUME NEW S, NEW s \in Seq(S), s # <<>>, IsInjective(s)
  PROVE  /\ Head(s) \in Range(s) /\ Head(s) \in S
         /\ Tail(s) \in Seq(S)
         /\ Range(Tail(s)) = Range(s) \ {Head(s)}
         /\ IsInjective(Tail(s))
<1> DEFINE t == Tail(s)
<1>1. /\ t \in Seq(S) /\ Len(t) = Len(s) - 1
      /\ Len(s) \in Nat \ {0} /\ Head(s) \in S
      /\ \A j \in 1..(Len(s) - 1) : t[j] = s[j + 1]
      /\ Head(s) = s[1]
  BY HeadTailProperties, LenProperties, EmptySeq
<1> HIDE DEF t
<1>2. /\ Range(t) = {t[j] : j \in 1..(Len(s) - 1)}
      /\ Range(s) = {s[j] : j \in 1..Len(s)}
      /\ DOMAIN t = 1..(Len(s) - 1) /\ DOMAIN s = 1..Len(s)
  BY <1>1, RangeEquality, LenProperties
<1>3. \A x, y \in 1..Len(s) : s[x] = s[y] => x = y
  BY <1>2 DEF IsInjective
<1>4. \A j \in 1..(Len(s) - 1) : t[j] \in Range(s) \ {Head(s)}
  BY <1>1, <1>2, <1>3
<1>5. \A x \in 1..Len(s) : s[x] # Head(s) => s[x] \in Range(t)
  <2> SUFFICES ASSUME NEW x \in 1..Len(s), s[x] # Head(s)
               PROVE  \E j \in 1..(Len(s) - 1) : t[j] = s[x]
    BY <1>2
  <2>1. x - 1 \in 1..(Len(s) - 1) /\ x - 1 + 1 = x
    BY <1>1
  <2> QED BY <1>1, <2>1
<1>6. \A i, j \in 1..(Len(s) - 1) : t[i] = t[j] => i = j
  BY <1>1, <1>3
<1> QED BY <1>1, <1>2, <1>4, <1>5, <1>6 DEF IsInjective, t

\* A newcomer goes behind the last entry that stays ahead of it: if that keeps
\* the entries before its place ahead and those after it behind, the list is in
\* order again.

LEMMA AppendMembers ==
  ASSUME NEW S, NEW s \in Seq(S), NEW e \in S, IsInjective(s), e \notin Range(s)
  PROVE  /\ Append(s, e) \in Seq(S)
         /\ Range(Append(s, e)) = Range(s) \cup {e}
         /\ IsInjective(Append(s, e))
<1> DEFINE t == Append(s, e)
<1>1. /\ t \in Seq(S) /\ Len(t) = Len(s) + 1 /\ Len(s) \in Nat
      /\ \A j \in 1..Len(s) : t[j] = s[j]
      /\ t[Len(s) + 1] = e
  BY AppendProperties, LenProperties
<1> HIDE DEF t
<1>2. /\ Range(t) = {t[j] : j \in 1..(Len(s) + 1)}
      /\ Range(s) = {s[j] : j \in 1..Len(s)}
      /\ DOMAIN t = 1..(Len(s) + 1) /\ DOMAIN s = 1..Len(s)
  BY <1>1, RangeEquality, LenProperties
<1>3. \A x, y \in 1..Len(s) : s[x] = s[y] => x = y
  BY <1>2 DEF IsInjective
<1>4. \A j \in 1..(Len(s) + 1) : j \in 1..Len(s) \/ j = Len(s) + 1
  BY <1>1
<1>5. Range(t) = Range(s) \cup {e}
  <2>1. Range(t) \subseteq Range(s) \cup {e}
    BY <1>1, <1>2, <1>4
  <2>2. e \in Range(t)
    BY <1>1, <1>2
  <2>3. Range(s) \subseteq Range(t)
    BY <1>1, <1>2
  <2> QED BY <2>1, <2>2, <2>3
<1>6. \A i, j \in 1..(Len(s) + 1) : t[i] = t[j] => i = j
  BY <1>1, <1>2, <1>3, <1>4
<1> QED BY <1>1, <1>2, <1>5, <1>6 DEF IsInjective, t
=============================================================================

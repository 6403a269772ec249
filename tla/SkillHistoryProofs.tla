------------------------- MODULE SkillHistoryProofs -------------------------
(***************************************************************************)
(* Proofs about SkillHistory for any number of skills, essays and bands.   *)
(* What a recursive function computes is proved by an induction that takes *)
(* a set for the predicate.                                                *)
(***************************************************************************)
EXTENDS SkillHistory, WritingPlannerProofs, SequenceTheorems

-----------------------------------------------------------------------------
(***************************************************************************)
(* Induction and recursion                                                 *)
(***************************************************************************)

\* Induction over the naturals, with a set for the predicate.
LEMMA NaturalInduction ==
    ASSUME NEW N \in SUBSET Nat, 0 \in N, \A n \in N : n + 1 \in N
    PROVE  N = Nat
<1> SUFFICES ASSUME Nat \ N # {} PROVE FALSE
  OBVIOUS
<1>1. PICK m \in Nat \ N : \A n \in Nat \ N : m <= n
  <2>1. Nat \ N \in SUBSET Nat
    OBVIOUS
  <2> QED
    BY <2>1, LeastNatural
<1>2. m # 0 /\ m - 1 \in Nat
  BY <1>1
<1>3. m - 1 \in N
  BY <1>1, <1>2
<1>4. (m - 1) + 1 \in N
  BY <1>3
<1> QED
  BY <1>1, <1>2, <1>4

\* Two functions that begin alike and go on alike are alike up to any bound.
LEMMA SameSteps ==
    ASSUME NEW f, NEW h, NEW m \in Nat, f[0] = h[0],
           \A n \in Nat : n < m /\ f[n] = h[n] => f[n + 1] = h[n + 1]
    PROVE  \A n \in 0..m : f[n] = h[n]
<1> DEFINE N == {n \in Nat : n <= m => f[n] = h[n]}
<1>1. 0 \in N
  OBVIOUS
<1>2. \A n \in N : n + 1 \in N
  OBVIOUS
<1>3. N = Nat
  <2> HIDE DEF N
  <2>1. N \in SUBSET Nat
    BY DEF N
  <2> QED
    BY <1>1, <1>2, <2>1, NaturalInduction
<1> QED
  BY <1>3

\* f begins with a, and each next value is g's of the one before.
Iterates(f, S, a, g) ==
    f \in [Nat -> S] /\ f[0] = a /\ \A n \in Nat : f[n + 1] = g[n + 1][f[n]]

\* There is such a function.
LEMMA NaturalRecursion ==
    ASSUME NEW S, NEW a \in S, NEW g \in [Nat -> [S -> S]]
    PROVE  \E f : Iterates(f, S, a, g)
<1> DEFINE Upto(h, m) == /\ h \in [0..m -> S] /\ h[0] = a
                         /\ \A n \in Nat : n < m => h[n + 1] = g[n + 1][h[n]]
           N == {m \in Nat : \E h : Upto(h, m)}
<1>1. 0 \in N
  <2>1. Upto([n \in 0..0 |-> a], 0)
    OBVIOUS
  <2> QED
    BY <2>1
<1>2. ASSUME NEW m \in N PROVE m + 1 \in N
  <2>1. PICK h : Upto(h, m)
    OBVIOUS
  <2> DEFINE next == [n \in 0..(m + 1) |-> IF n <= m THEN h[n] ELSE g[m + 1][h[m]]]
  <2>2. h[m] \in S /\ g[m + 1][h[m]] \in S
    BY <2>1
  <2>3. next \in [0..(m + 1) -> S] /\ next[0] = a
    BY <2>1, <2>2
  <2>4. ASSUME NEW n \in Nat, n < m + 1 PROVE next[n + 1] = g[n + 1][next[n]]
    <3>1. CASE n < m
      BY <2>1, <2>4, <3>1
    <3>2. CASE n = m
      BY <2>1, <2>4, <3>2
    <3> QED
      BY <2>4, <3>1, <3>2
  <2>5. Upto(next, m + 1)
    BY <2>3, <2>4
  <2>6. m + 1 \in Nat
    OBVIOUS
  <2> HIDE DEF Upto, next
  <2> QED
    BY <2>5, <2>6
<1>3. N = Nat
  <2> HIDE DEF N
  <2>1. N \in SUBSET Nat
    BY DEF N
  <2> QED
    BY <1>1, <1>2, <2>1, NaturalInduction
<1>4. \A m \in Nat : \E h : Upto(h, m)
  BY <1>3
<1> DEFINE part == [m \in Nat |-> CHOOSE h : Upto(h, m)]
           f == [m \in Nat |-> part[m][m]]
<1>5. \A m \in Nat : Upto(part[m], m)
  <2> HIDE DEF Upto
  <2> QED
    BY <1>4
<1>6. ASSUME NEW m \in Nat PROVE part[m + 1][m] = part[m][m]
  <2> DEFINE p == part[m] q == part[m + 1]
  <2>1. Upto(p, m) /\ Upto(q, m + 1)
    <3>1. m + 1 \in Nat
      OBVIOUS
    <3> HIDE DEF Upto, part
    <3> QED
      BY <1>5, <3>1
  <2> HIDE DEF p, q
  <2>2. p[0] = q[0]
    BY <2>1
  <2>3. \A n \in Nat : n < m /\ p[n] = q[n] => p[n + 1] = q[n + 1]
    BY <2>1
  <2>4. \A n \in 0..m : p[n] = q[n]
    BY <2>2, <2>3, SameSteps
  <2>5. p[m] = q[m]
    BY <2>4
  <2> QED
    BY <2>5 DEF p, q
<1>7. f \in [Nat -> S] /\ f[0] = a
  <2>1. \A m \in Nat : part[m][m] \in S
    BY <1>5
  <2>2. part[0][0] = a
    BY <1>5
  <2> HIDE DEF part
  <2> QED
    BY <2>1, <2>2
<1>8. ASSUME NEW n \in Nat PROVE f[n + 1] = g[n + 1][f[n]]
  <2>1. part[n + 1][n + 1] = g[n + 1][part[n + 1][n]]
    <3>1. Upto(part[n + 1], n + 1)
      <4>1. n + 1 \in Nat
        OBVIOUS
      <4> HIDE DEF Upto, part
      <4> QED
        BY <1>5, <4>1
    <3> HIDE DEF part
    <3> QED
      BY <3>1
  <2> HIDE DEF part, Upto
  <2> QED
    BY <1>6, <2>1
<1> QED
  BY <1>7, <1>8 DEF Iterates

-----------------------------------------------------------------------------
(***************************************************************************)
(* The order of writing                                                    *)
(***************************************************************************)

\* What InOrder computes: one attempt at a time.
LEMMA InOrderSteps ==
    ASSUME NEW accepted
    PROVE  /\ \A n \in Nat : InOrder(accepted)[n] \in Seq(Nat)
           /\ InOrder(accepted)[0] = << >>
           /\ \A n \in Nat : InOrder(accepted)[n + 1] =
                IF n + 1 \in accepted THEN Append(InOrder(accepted)[n], n + 1)
                ELSE InOrder(accepted)[n]
<1> DEFINE Step(i, before) == IF i \in accepted THEN Append(before, i) ELSE before
           g == [i \in Nat |-> [before \in Seq(Nat) |-> Step(i, before)]]
           Body(f) == [i \in Nat |-> IF i = 0 THEN << >>
                         ELSE IF i \in accepted THEN Append(f[i - 1], i) ELSE f[i - 1]]
<1>1. g \in [Nat -> [Seq(Nat) -> Seq(Nat)]]
  OBVIOUS
<1>2. << >> \in Seq(Nat)
  OBVIOUS
<1>3. PICK f : Iterates(f, Seq(Nat), << >>, g)
  <2> HIDE DEF g
  <2> QED
    BY <1>1, <1>2, NaturalRecursion
<1>4. ASSUME NEW n \in Nat PROVE f[n + 1] = Step(n + 1, f[n])
  <2>1. n + 1 \in Nat /\ f[n] \in Seq(Nat) /\ f[n + 1] = g[n + 1][f[n]]
    <3> HIDE DEF g
    <3>1. n + 1 \in Nat
      OBVIOUS
    <3>2. f[n] \in Seq(Nat)
      BY <1>3 DEF Iterates
    <3>3. f[n + 1] = g[n + 1][f[n]]
      BY <1>3 DEF Iterates
    <3> QED
      BY <3>1, <3>2, <3>3
  <2> QED
    BY <2>1
<1>5. f = Body(f)
  <2> f = [i \in Nat |-> f[i]]
    BY <1>3 DEF Iterates
  <2>1. ASSUME NEW i \in Nat PROVE f[i] = Body(f)[i]
    <3>1. CASE i = 0
      BY <1>3, <3>1 DEF Iterates
    <3>2. CASE i # 0
      <4>1. i - 1 \in Nat /\ (i - 1) + 1 = i
        BY <3>2
      <4>2. f[i] = Step(i, f[i - 1])
        BY <1>4, <4>1
      <4> QED
        BY <3>2, <4>2
    <3> QED
      BY <3>1, <3>2
  <2> QED
    BY <2>1
<1>6. InOrder(accepted) = CHOOSE h : h = Body(h)
  BY DEF InOrder
<1>7. InOrder(accepted) = Body(InOrder(accepted))
  <2> HIDE DEF Body
  <2> QED
    BY <1>5, <1>6
<1> DEFINE h == InOrder(accepted)
<1>8. h[0] = << >> /\ \A n \in Nat : h[n + 1] = Step(n + 1, h[n])
  <2> HIDE DEF h
  <2>1. h = Body(h)
    BY <1>7 DEF h
  <2>2. h[0] = << >>
    BY <2>1
  <2>3. ASSUME NEW n \in Nat PROVE h[n + 1] = Step(n + 1, h[n])
    <3>1. n + 1 \in Nat /\ n + 1 # 0 /\ (n + 1) - 1 = n
      OBVIOUS
    <3>2. h[n + 1] = Body(h)[n + 1]
      BY <2>1
    <3> QED
      BY <3>1, <3>2
  <2> QED
    BY <2>2, <2>3
<1>9. \A n \in Nat : h[n] = f[n]
  <2> SUFFICES ASSUME NEW m \in Nat PROVE h[m] = f[m]
    OBVIOUS
  <2>1. h[0] = f[0] /\ \A n \in Nat : n < m /\ h[n] = f[n] => h[n + 1] = f[n + 1]
    <3> HIDE DEF h, Step
    <3> QED
      BY <1>3, <1>4, <1>8 DEF Iterates
  <2> HIDE DEF h
  <2>2. \A n \in 0..m : h[n] = f[n]
    BY <2>1, SameSteps
  <2> QED
    BY <2>2
<1> QED
  BY <1>3, <1>8, <1>9 DEF Iterates

\* Attempts that were not accepted leave the order as it is.
LEMMA OrderStays ==
    ASSUME NEW accepted, NEW m \in Nat, NEW k \in Nat,
           \A i \in accepted : i \notin (m + 1)..(m + k)
    PROVE  InOrder(accepted)[m + k] = InOrder(accepted)[m]
<1> DEFINE N == {j \in Nat : j <= k => InOrder(accepted)[m + j] = InOrder(accepted)[m]}
<1>1. 0 \in N
  OBVIOUS
<1>2. ASSUME NEW j \in N PROVE j + 1 \in N
  <2> SUFFICES ASSUME j + 1 <= k
               PROVE  InOrder(accepted)[m + (j + 1)] = InOrder(accepted)[m]
    OBVIOUS
  <2>1. InOrder(accepted)[m + j] = InOrder(accepted)[m]
    OBVIOUS
  <2>2. (m + j) + 1 = m + (j + 1) /\ m + j \in Nat /\ (m + j) + 1 \in (m + 1)..(m + k)
    OBVIOUS
  <2>3. (m + j) + 1 \notin accepted
    BY <2>2
  <2>4. InOrder(accepted)[(m + j) + 1] = InOrder(accepted)[m + j]
    BY <2>2, <2>3, InOrderSteps
  <2> QED
    BY <2>1, <2>2, <2>4
<1>3. N = Nat
  <2> HIDE DEF N
  <2>1. N \in SUBSET Nat
    BY DEF N
  <2> QED
    BY <1>1, <1>2, <2>1, NaturalInduction
<1>4. k \in N
  <2> HIDE DEF N
  <2> QED
    BY <1>3
<1> QED
  BY <1>4

\* The order of the first attempts depends on which of them were accepted.
LEMMA OrderOfAccepted ==
    ASSUME NEW A, NEW B, NEW m \in Nat, \A i \in 1..m : i \in A <=> i \in B
    PROVE  InOrder(A)[m] = InOrder(B)[m]
<1> DEFINE f == InOrder(A) h == InOrder(B)
<1>1. f[0] = h[0]
  BY InOrderSteps
<1>2. ASSUME NEW n \in Nat, n < m, f[n] = h[n] PROVE f[n + 1] = h[n + 1]
  <2>1. n + 1 \in A <=> n + 1 \in B
    BY <1>2
  <2> QED
    BY <1>2, <2>1, InOrderSteps
<1> HIDE DEF f, h
<1>3. \A n \in 0..m : f[n] = h[n]
  BY <1>1, <1>2, SameSteps
<1> QED
  BY <1>3 DEF f, h

\* Its members are the accepted attempts, and it is as long as they are many.
LEMMA OrderMembers ==
    ASSUME NEW accepted, NEW m \in Nat
    PROVE  LET order == InOrder(accepted)[m] IN
           /\ \A i \in DOMAIN order : order[i] \in accepted /\ order[i] \in 1..m
           /\ Len(order) = Cardinality({b \in accepted : b \in 1..m})
<1> DEFINE order(n) == InOrder(accepted)[n]
           first(n) == {b \in accepted : b \in 1..n}
           Right(n) == /\ \A i \in DOMAIN order(n) : order(n)[i] \in first(n)
                       /\ Len(order(n)) = Cardinality(first(n))
           N == {n \in Nat : Right(n)}
<1>1. Right(0)
  <2>1. order(0) = << >> /\ first(0) = {}
    BY InOrderSteps
  <2> QED
    BY <2>1, FS_EmptySet
<1>2. ASSUME NEW n \in Nat, Right(n) PROVE Right(n + 1)
  <2>1. order(n) \in Seq(Nat)
    BY InOrderSteps
  <2>2. IsFiniteSet(first(n))
    <3>1. IsFiniteSet(1..n) /\ first(n) \subseteq 1..n
      BY FS_Interval
    <3> QED
      BY <3>1, FS_Subset
  <2>3. CASE n + 1 \in accepted
    <3>1. order(n + 1) = Append(order(n), n + 1)
      BY <2>3, InOrderSteps
    <3>2. first(n + 1) = first(n) \cup {n + 1} /\ n + 1 \notin first(n)
      BY <2>3
    <3>3. Cardinality(first(n + 1)) = Cardinality(first(n)) + 1
      BY <2>2, <3>2, FS_AddElement
    <3> HIDE DEF order, first
    <3>4. /\ Len(order(n + 1)) = Len(order(n)) + 1
          /\ DOMAIN order(n + 1) = 1..(Len(order(n)) + 1)
          /\ \A i \in 1..Len(order(n)) : order(n + 1)[i] = order(n)[i]
          /\ order(n + 1)[Len(order(n)) + 1] = n + 1
      BY <2>1, <3>1
    <3>5. ASSUME NEW i \in DOMAIN order(n + 1) PROVE order(n + 1)[i] \in first(n + 1)
      <4>1. CASE i \in 1..Len(order(n))
        BY <1>2, <2>1, <3>2, <3>4, <4>1
      <4>2. CASE i = Len(order(n)) + 1
        BY <3>2, <3>4, <4>2
      <4> QED
        BY <2>1, <3>4, <4>1, <4>2
    <3> QED
      BY <1>2, <3>3, <3>4, <3>5
  <2>4. CASE n + 1 \notin accepted
    <3>1. order(n + 1) = order(n)
      BY <2>4, InOrderSteps
    <3>2. first(n + 1) = first(n)
      BY <2>4
    <3> HIDE DEF order, first
    <3> QED
      BY <1>2, <3>1, <3>2
  <2> QED
    BY <2>3, <2>4
<1>3. N = Nat
  <2> HIDE DEF Right
  <2>1. 0 \in N /\ \A n \in N : n + 1 \in N
    BY <1>1, <1>2
  <2>2. N \in SUBSET Nat
    OBVIOUS
  <2> HIDE DEF N
  <2> QED
    BY <2>1, <2>2, NaturalInduction
<1>4. Right(m)
  BY <1>3
<1> QED
  BY <1>4

-----------------------------------------------------------------------------
(***************************************************************************)
(* The weighted mean                                                       *)
(***************************************************************************)

\* An exact estimate, from 0 to 9.00.
Estimate == {e \in [num : Nat, den : Nat \ {0}] : e.num <= 900 * e.den}

\* A band is a natural number of hundredths, at most nine bands.
LEMMA BandIsNatural == ASSUME NEW band \in BandRange PROVE band \in Nat /\ band <= 900
BY DEF BandRange

\* A blend of an estimate with a band is an estimate.
LEMMA BlendEstimate ==
    ASSUME NEW value \in BandRange, NEW e \in Estimate
    PROVE  Blend(value, e) \in Estimate
<1>1. value \in Nat /\ value <= 900 /\ e.num \in Nat /\ e.den \in Nat \ {0} /\ e.num <= 900 * e.den
  BY DEF Estimate, BandRange
<1> DEFINE n == e.num d == e.den p == value * d
<1>2. p \in Nat /\ p <= 900 * d
  BY <1>1
<1>3. p + n \in Nat /\ 2 * d \in Nat \ {0} /\ p + n <= 900 * (2 * d)
  <2> HIDE DEF p
  <2> QED
    BY <1>1, <1>2
<1>4. Blend(value, e) = [num |-> p + n, den |-> 2 * d]
  BY DEF Blend
<1> QED
  BY <1>3, <1>4 DEF Estimate

\* r is the replay of the values.
Replays(r, values) ==
    /\ r \in [1..Len(values) -> Estimate]
    /\ r[1] = [num |-> values[1], den |-> 1]
    /\ \A i \in 1..(Len(values) - 1) : r[i + 1] = Blend(values[i + 1], r[i])

\* What EwmaEstimate computes.
LEMMA EwmaReplay ==
    ASSUME NEW values \in Seq(BandRange), values # << >>
    PROVE  \E r : Replays(r, values) /\ EwmaEstimate(values) = r[Len(values)]
<1> DEFINE n == Len(values)
           one == [num |-> values[1], den |-> 1]
           Body(r) == [i \in 1..n |-> IF i = 1 THEN one ELSE Blend(values[i], r[i - 1])]
           Step(i, e) == IF i + 1 \in 1..n THEN Blend(values[i + 1], e) ELSE e
           g == [i \in Nat |-> [e \in Estimate |-> Step(i, e)]]
<1>1. n \in Nat \ {0} /\ \A i \in 1..n : values[i] \in BandRange
  OBVIOUS
<1>2. one \in Estimate
  <2>1. values[1] \in Nat /\ values[1] <= 900
    <3>1. 1 \in 1..n
      BY <1>1
    <3>2. values[1] \in BandRange
      BY <1>1, <3>1
    <3> QED
      BY <3>2, BandIsNatural
  <2> QED
    BY <2>1 DEF Estimate
<1>3. g \in [Nat -> [Estimate -> Estimate]]
  <2>1. \A i \in Nat, e \in Estimate : Step(i, e) \in Estimate
    BY <1>1, BlendEstimate
  <2> HIDE DEF Step
  <2> QED
    BY <2>1
<1>4. PICK f : Iterates(f, Estimate, one, g)
  <2> HIDE DEF g, one
  <2> QED
    BY <1>2, <1>3, NaturalRecursion
<1> DEFINE r == [i \in 1..n |-> f[i - 1]]
<1>5. f[0] = one /\ \A i \in Nat : f[i] \in Estimate
  <2> HIDE DEF g, one
  <2> QED
    BY <1>4 DEF Iterates
<1>6. ASSUME NEW i \in 1..n, i # 1 PROVE r[i] = Blend(values[i], r[i - 1])
  <2>1. i - 2 \in Nat /\ (i - 2) + 1 = i - 1 /\ i - 1 \in 1..n /\ (i - 1) - 1 = i - 2 /\ i - 1 \in Nat
    BY <1>1, <1>6
  <2>2. f[(i - 2) + 1] = g[(i - 2) + 1][f[i - 2]]
    <3> HIDE DEF g, one
    <3> QED
      BY <1>4, <2>1 DEF Iterates
  <2>3. f[i - 1] = g[i - 1][f[i - 2]]
    <3> HIDE DEF g
    <3> QED
      BY <2>1, <2>2
  <2>4. f[i - 2] \in Estimate
    BY <1>5, <2>1
  <2>5. g[i - 1][f[i - 2]] = Step(i - 1, f[i - 2])
    <3> HIDE DEF Step
    <3> QED
      BY <2>1, <2>4
  <2>6. Step(i - 1, f[i - 2]) = Blend(values[i], f[i - 2])
    BY <1>6
  <2>7. r[i] = f[i - 1] /\ r[i - 1] = f[i - 2]
    <3> HIDE DEF g
    <3> QED
      BY <2>1
  <2> QED
    BY <2>3, <2>5, <2>6, <2>7
<1>7. r[1] = one
  BY <1>1, <1>5
<1>8. r = Body(r)
  <2> DEFINE q == r
  <2>1. q = [i \in 1..n |-> q[i]]
    OBVIOUS
  <2>2. \A i \in 1..n : q[i] = IF i = 1 THEN one ELSE Blend(values[i], q[i - 1])
    <3> HIDE DEF r
    <3> QED
      BY <1>6, <1>7
  <2> HIDE DEF q, one
  <2>3. q = Body(q)
    BY <2>1, <2>2
  <2> QED
    BY <2>3 DEF q
<1>9. EwmaEstimate(values) = (CHOOSE q : q = Body(q))[n]
  BY DEF EwmaEstimate
<1> DEFINE q == CHOOSE x : x = Body(x)
<1>10. q = Body(q)
  <2> HIDE DEF Body, r
  <2> QED
    BY <1>8
<1> HIDE DEF q
<1>11. q[1] = one
  BY <1>1, <1>10
<1>12. ASSUME NEW i \in 1..(n - 1) PROVE q[i + 1] = Blend(values[i + 1], q[i])
  <2>1. i + 1 \in 1..n /\ i + 1 # 1 /\ (i + 1) - 1 = i
    BY <1>1
  <2>2. q[i + 1] = Body(q)[i + 1]
    BY <1>10
  <2> HIDE DEF one
  <2> QED
    BY <2>1, <2>2
<1>13. ASSUME NEW i \in 1..n PROVE q[i] \in Estimate
  <2> DEFINE N == {j \in Nat : j + 1 \in 1..n => q[j + 1] \in Estimate}
  <2>1. 0 \in N
    BY <1>2, <1>11
  <2>2. ASSUME NEW j \in N PROVE j + 1 \in N
    <3> SUFFICES ASSUME (j + 1) + 1 \in 1..n PROVE q[(j + 1) + 1] \in Estimate
      OBVIOUS
    <3>1. j + 1 \in 1..(n - 1) /\ j + 1 \in 1..n
      BY <1>1
    <3>2. q[j + 1] \in Estimate
      BY <3>1
    <3>3. values[(j + 1) + 1] \in BandRange
      BY <1>1
    <3> HIDE DEF n
    <3> QED
      BY <1>12, <3>1, <3>2, <3>3, BlendEstimate
  <2>3. N = Nat
    <3> HIDE DEF N
    <3>1. N \in SUBSET Nat
      BY DEF N
    <3> QED
      BY <2>1, <2>2, <3>1, NaturalInduction
  <2>4. i - 1 \in Nat /\ (i - 1) + 1 = i
    BY <1>1
  <2>5. i - 1 \in N
    <3> HIDE DEF N
    <3> QED
      BY <2>3, <2>4
  <2> HIDE DEF n
  <2> QED
    BY <2>4, <2>5
<1>14. q \in [1..n -> Estimate]
  <2>1. q = [i \in 1..n |-> q[i]]
    <3> HIDE DEF one
    <3> QED
      BY <1>10
  <2> QED
    BY <1>13, <2>1
<1>15. Replays(q, values)
  BY <1>11, <1>12, <1>14 DEF Replays
<1>16. EwmaEstimate(values) = q[n]
  BY <1>9 DEF q
<1> QED
  BY <1>15, <1>16

\* The replayed average of some bands is an estimate.
LEMMA EwmaIsEstimate ==
    ASSUME NEW values \in Seq(BandRange), values # << >>
    PROVE  EwmaEstimate(values) \in Estimate
<1>1. PICK r : Replays(r, values) /\ EwmaEstimate(values) = r[Len(values)]
  BY EwmaReplay
<1>2. Len(values) \in 1..Len(values)
  OBVIOUS
<1> QED
  BY <1>1, <1>2 DEF Replays

\* A newest observation is blended with the estimate of the older ones.
LEMMA EwmaAppend ==
    ASSUME NEW values \in Seq(BandRange), values # << >>, NEW value \in BandRange
    PROVE  EwmaEstimate(Append(values, value)) = Blend(value, EwmaEstimate(values))
<1> DEFINE n == Len(values) more == Append(values, value)
<1>1. n \in Nat \ {0}
  OBVIOUS
<1>2. /\ more \in Seq(BandRange) /\ more # << >> /\ Len(more) = n + 1
      /\ \A i \in 1..n : more[i] = values[i]
      /\ more[n + 1] = value
  OBVIOUS
<1> HIDE DEF n, more
<1>3. PICK r : Replays(r, values) /\ EwmaEstimate(values) = r[n]
  BY EwmaReplay DEF n
<1>4. PICK q : Replays(q, more) /\ EwmaEstimate(more) = q[n + 1]
  BY <1>2, EwmaReplay
<1> DEFINE N == {j \in Nat : j + 1 \in 1..n => q[j + 1] = r[j + 1]}
<1>5. 0 \in N
  BY <1>1, <1>2, <1>3, <1>4 DEF Replays
<1>6. ASSUME NEW j \in N PROVE j + 1 \in N
  <2> SUFFICES ASSUME (j + 1) + 1 \in 1..n PROVE q[(j + 1) + 1] = r[(j + 1) + 1]
    OBVIOUS
  <2>1. j + 1 \in 1..(n - 1) /\ j + 1 \in 1..n /\ j + 1 \in 1..((n + 1) - 1)
    BY <1>1
  <2>2. q[j + 1] = r[j + 1]
    BY <2>1
  <2>3. q[(j + 1) + 1] = Blend(more[(j + 1) + 1], q[j + 1])
    BY <1>2, <1>4, <2>1 DEF Replays
  <2>4. r[(j + 1) + 1] = Blend(values[(j + 1) + 1], r[j + 1])
    BY <1>3, <2>1 DEF Replays, n
  <2> QED
    BY <1>2, <2>2, <2>3, <2>4
<1>7. n - 1 \in N
  <2> HIDE DEF N
  <2>1. N \in SUBSET Nat
    BY DEF N
  <2>2. N = Nat
    BY <1>5, <1>6, <2>1, NaturalInduction
  <2> QED
    BY <1>1, <2>2
<1>8. q[n] = r[n]
  <2>1. (n - 1) + 1 = n /\ n \in 1..n
    BY <1>1
  <2> QED
    BY <1>7, <2>1
<1>9. q[n + 1] = Blend(more[n + 1], q[n])
  <2>1. n \in 1..((n + 1) - 1)
    BY <1>1
  <2> QED
    BY <1>2, <1>4, <2>1 DEF Replays
<1> QED
  BY <1>2, <1>3, <1>4, <1>8, <1>9 DEF more

\* Integer division, as the provers know it.
LEMMA Division ==
    ASSUME NEW a \in Nat, NEW b \in Nat \ {0}
    PROVE  /\ a \div b \in Nat
           /\ b * (a \div b) <= a
           /\ a < b * ((a \div b) + 1)
OBVIOUS

\* The quantized estimate is a band, and the nearest to the exact one, half up.
LEMMA QuantizeNearest ==
    ASSUME NEW e \in Estimate
    PROVE  /\ Quantize(e) \in BandRange
           /\ 2 * e.den * Quantize(e) <= 2 * e.num + e.den
           /\ 2 * e.num + e.den < 2 * e.den * (Quantize(e) + 1)
<1> DEFINE n == e.num d == e.den a == 2 * n + d b == 2 * d q == a \div b
<1>1. n \in Nat /\ d \in Nat \ {0} /\ n <= 900 * d
  BY DEF Estimate
<1>2. a \in Nat /\ b \in Nat \ {0}
  BY <1>1
<1>3. q \in Nat /\ b * q <= a /\ a < b * (q + 1)
  <2> HIDE DEF a, b
  <2> QED
    BY <1>2, Division
<1>4. q <= 900
  <2> SUFFICES ASSUME q >= 901 PROVE FALSE
    BY <1>3
  <2>1. b * 901 <= b * q
    <3> HIDE DEF a, b, q
    <3> QED
      BY <1>2, <1>3
  <2>2. b * 901 = 1802 * d /\ a <= 1801 * d
    BY <1>1
  <2>3. b * q \in Int /\ 1801 * d < 1802 * d
    BY <1>1, <1>2, <1>3
  <2> HIDE DEF a, b, q
  <2> QED
    BY <1>1, <1>2, <1>3, <2>1, <2>2, <2>3
<1>5. Quantize(e) = q
  BY DEF Quantize
<1> QED
  BY <1>3, <1>4, <1>5 DEF BandRange

-----------------------------------------------------------------------------
(***************************************************************************)
(* The states rebuilt from the accepted evidence                           *)
(***************************************************************************)

Distinct(applied) == \A m, n \in DOMAIN applied : applied[m] = applied[n] => m = n

\* A function on 1..n is a sequence of length n.
LEMMA FunctionIsSequence ==
    ASSUME NEW S, NEW n \in Nat, NEW f \in [1..n -> S]
    PROVE  f \in Seq(S) /\ Len(f) = n
<1>1. f \in Seq(S)
  BY SeqDef
<1>2. DOMAIN f = 1..n /\ DOMAIN f = 1..Len(f) /\ Len(f) \in Nat
  BY <1>1, LenProperties
<1> QED
  BY <1>1, <1>2

\* There are n numbers from 1 to n.
LEMMA CountTo == ASSUME NEW n \in Nat PROVE IsFiniteSet(1..n) /\ Cardinality(1..n) = n
<1>1. IsFiniteSet(1..n)
  BY FS_Interval
<1>2. Cardinality(1..n) = IF 1 > n THEN 0 ELSE n - 1 + 1
  BY FS_Interval
<1> QED
  BY <1>1, <1>2

\* A sequence of members of D is a sequence over D.
LEMMA SequenceWithin ==
    ASSUME NEW S, NEW D, NEW o \in Seq(S), \A i \in DOMAIN o : o[i] \in D
    PROVE  o \in Seq(D)
<1>1. o \in [1..Len(o) -> S] /\ DOMAIN o = 1..Len(o) /\ Len(o) \in Nat
  BY LenProperties
<1>2. o \in [1..Len(o) -> D]
  BY <1>1
<1> QED
  BY <1>1, <1>2, FunctionIsSequence

\* What f makes of a longer sequence is what it makes of the shorter, and one more.
LEMMA MapAppend ==
    ASSUME NEW D, NEW S, NEW f \in [D -> S], NEW o \in Seq(D), NEW a \in D
    PROVE  [i \in DOMAIN Append(o, a) |-> f[Append(o, a)[i]]] =
             Append([i \in DOMAIN o |-> f[o[i]]], f[a])
<1> DEFINE p == Append(o, a) e == [i \in 1..Len(o) |-> f[o[i]]] q == Append(e, f[a])
<1>1. /\ p \in Seq(D) /\ Len(p) = Len(o) + 1 /\ p[Len(o) + 1] = a
      /\ \A i \in 1..Len(o) : p[i] = o[i]
  BY AppendProperties
<1>2. Len(o) \in Nat /\ DOMAIN o = 1..Len(o) /\ \A i \in 1..Len(o) : o[i] \in D
  BY LenProperties
<1>3. DOMAIN p = 1..(Len(o) + 1)
  <2> HIDE DEF p
  <2> QED
    BY <1>1, LenProperties
<1>4. e \in Seq(S) /\ Len(e) = Len(o)
  <2>1. e \in [1..Len(o) -> S]
    BY <1>2
  <2> HIDE DEF e
  <2> QED
    BY <1>2, <2>1, FunctionIsSequence
<1>5. f[a] \in S
  OBVIOUS
<1> HIDE DEF p
<1>6. ASSUME NEW i \in 1..Len(o) PROVE e[i] = f[p[i]]
  BY <1>1
<1> HIDE DEF e
<1>7. /\ q \in Seq(S) /\ Len(q) = Len(o) + 1 /\ q[Len(o) + 1] = f[a]
      /\ \A i \in 1..Len(o) : q[i] = e[i]
  BY <1>4, <1>5, AppendProperties
<1> HIDE DEF q
<1>8. q = [i \in 1..(Len(o) + 1) |-> q[i]]
  BY <1>7, LenProperties
<1>9. ASSUME NEW i \in 1..(Len(o) + 1) PROVE q[i] = f[p[i]]
  <2>1. CASE i \in 1..Len(o)
    BY <1>6, <1>7, <2>1
  <2>2. CASE i = Len(o) + 1
    BY <1>1, <1>7, <2>2
  <2> QED
    BY <1>2, <2>1, <2>2
<1>10. q = [i \in DOMAIN p |-> f[p[i]]]
  BY <1>3, <1>8, <1>9
<1>11. e = [i \in DOMAIN o |-> f[o[i]]]
  BY <1>2 DEF e
<1> QED
  BY <1>10, <1>11 DEF q, p

\* Essays accepted once each are as many as the updates.
LEMMA CountAccepted ==
    ASSUME NEW D, NEW applied \in Seq(D), Distinct(applied)
    PROVE  IsFiniteSet(Accepted(applied)) /\ Cardinality(Accepted(applied)) = Len(applied)
<1> DEFINE S == 1..Len(applied) T == Accepted(applied)
<1>1. DOMAIN applied = S /\ applied \in [S -> D] /\ Len(applied) \in Nat
  OBVIOUS
<1>2. applied \in [S -> T] /\ \A t \in T : \E n \in S : applied[n] = t
  BY <1>1 DEF Accepted
<1>3. applied \in Surjection(S, T)
  BY <1>2 DEF Surjection
<1>4. applied \in Injection(S, T)
  BY <1>1, <1>2 DEF Injection, IsInjective, Distinct
<1>5. IsFiniteSet(S) /\ Cardinality(S) = Len(applied)
  BY <1>1, CountTo
<1> QED
  BY <1>3, <1>4, <1>5, FS_Surjection

\* The values of a skill are bands, as many as there are accepted essays.
LEMMA ValuesTyped ==
    ASSUME attempts \in Seq(Attempt), NEW applied \in Seq(DOMAIN attempts),
           Distinct(applied), NEW s \in Skills
    PROVE  /\ CanonicalOrder(applied) \in Seq(DOMAIN attempts)
           /\ Values(applied, s) \in Seq(BandRange)
           /\ Len(Values(applied, s)) = Len(applied)
           /\ Len(CanonicalOrder(applied)) = Len(applied)
<1> DEFINE order == CanonicalOrder(applied) D == DOMAIN attempts A == Accepted(applied)
<1>1. D = 1..Len(attempts) /\ Len(attempts) \in Nat
  OBVIOUS
<1>2. A \subseteq 1..Len(attempts)
  BY <1>1 DEF Accepted
<1>3. order = InOrder(A)[Len(attempts)]
  BY DEF CanonicalOrder
<1>4. order \in Seq(Nat)
  BY <1>1, <1>3, InOrderSteps
<1>5. /\ \A i \in DOMAIN order : order[i] \in 1..Len(attempts)
      /\ Len(order) = Cardinality({b \in A : b \in 1..Len(attempts)})
  BY <1>1, <1>3, OrderMembers
<1>6. {b \in A : b \in 1..Len(attempts)} = A
  BY <1>2
<1>7. Len(order) = Len(applied)
  BY <1>5, <1>6, CountAccepted
<1>8. order \in Seq(D)
  <2> HIDE DEF order, D
  <2> QED
    BY <1>1, <1>4, <1>5, SequenceWithin
<1>9. \A a \in D : attempts[a].bands[s] \in BandRange
  <2> SUFFICES ASSUME NEW a \in D PROVE attempts[a].bands[s] \in BandRange
    OBVIOUS
  <2>1. attempts[a] \in Attempt
    OBVIOUS
  <2>2. attempts[a].bands[s] \in Bands
    BY <2>1 DEF Attempt
  <2> QED
    BY <2>2, BandAssumption DEF HalfBand
<1>10. Values(applied, s) = [i \in 1..Len(order) |-> attempts[order[i]].bands[s]]
  <2>1. DOMAIN order = 1..Len(order)
    BY <1>4
  <2> QED
    BY <2>1 DEF Values
<1>11. \A i \in 1..Len(order) : attempts[order[i]].bands[s] \in BandRange
  <2>1. \A i \in 1..Len(order) : order[i] \in D
    BY <1>8
  <2> HIDE DEF order, D
  <2> QED
    BY <1>9, <2>1
<1>12. Values(applied, s) \in [1..Len(order) -> BandRange] /\ Len(order) \in Nat
  <2> HIDE DEF order
  <2> QED
    BY <1>4, <1>10, <1>11
<1>13. Values(applied, s) \in Seq(BandRange) /\ Len(Values(applied, s)) = Len(order)
  <2> DEFINE values == Values(applied, s)
  <2>1. values \in [1..Len(order) -> BandRange] /\ Len(order) \in Nat
    BY <1>12
  <2> HIDE DEF order, values
  <2>2. values \in Seq(BandRange) /\ Len(values) = Len(order)
    BY <2>1, FunctionIsSequence
  <2> QED
    BY <2>2 DEF values
<1> QED
  BY <1>7, <1>8, <1>13

\* A rebuilt state can be stored, and counts the accepted essays.
LEMMA RebuildTyped ==
    ASSUME attempts \in Seq(Attempt), NEW applied \in Seq(DOMAIN attempts),
           Distinct(applied), NEW s \in Skills
    PROVE  LET state == RebuildSkillState(applied, s) IN
           /\ state \in [estimate: BandRange \cup {None}, count: {Len(applied)}]
           /\ StorableState(state)
           /\ state.estimate # None => state.estimate \in BandRange
<1>1. CASE applied = << >>
  BY <1>1 DEF RebuildSkillState, Unobserved, StorableState
<1>2. CASE applied # << >>
  <2> DEFINE values == Values(applied, s) e == EwmaEstimate(values)
             state == RebuildSkillState(applied, s)
  <2>1. Len(applied) \in Nat /\ Len(applied) > 0
    BY <1>2
  <2>2. values \in Seq(BandRange) /\ values # << >>
    BY <2>1, ValuesTyped
  <2>3. Quantize(e) \in BandRange
    BY <2>2, EwmaIsEstimate, QuantizeNearest
  <2>4. state = [estimate |-> Quantize(e), count |-> Len(applied)]
    BY <1>2 DEF RebuildSkillState
  <2> HIDE DEF e
  <2>5. state.estimate \in BandRange /\ state.count = Len(applied)
    BY <2>3, <2>4
  <2>6. state \in [estimate: BandRange \cup {None}, count: {Len(applied)}]
    BY <2>3, <2>4
  <2> QED
    BY <2>1, <2>5, <2>6 DEF StorableState
<1> QED
  BY <1>1, <1>2

\* What memory tells the planner has its type, whatever was accepted.
LEMMA MemoryTyped ==
    ASSUME NEW D, NEW applied \in Seq(D)
    PROVE  MemoryContext(applied) \in [Skills -> Memory]
<1> SUFFICES ASSUME NEW s \in Skills
             PROVE  [trend |-> TrendOf(Values(applied, s)),
                     gap |-> PersistentGap(Values(applied, s)),
                     recent |-> RecentPractices(applied, s)] \in Memory
  BY DEF MemoryContext
<1>1. TrendOf(Values(applied, s)) \in Trends
  BY DEF TrendOf, Trends
<1>2. PersistentGap(Values(applied, s)) \in BOOLEAN
  BY DEF PersistentGap
<1>3. RecentPractices(applied, s) \in Nat
  <2> DEFINE n == Len(applied) k == PlanningRecentPracticeWindow
             first == IF n > k THEN n - k + 1 ELSE 1
             window == LastOf(applied, k)
  <2>1. n \in Nat /\ first \in 1..(n + 1)
    BY DEF PlanningRecentPracticeWindow
  <2>2. window = SubSeq(applied, first, n)
    BY DEF LastOf
  <2>3. \A i \in first..n : applied[i] \in D
    BY <2>1
  <2>4. window \in Seq(D)
    <3> HIDE DEF first, n, window
    <3> QED
      BY <2>1, <2>2, <2>3, SubSeqProperties
  <2>5. DOMAIN window = 1..Len(window) /\ Len(window) \in Nat
    <3> HIDE DEF window
    <3> QED
      BY <2>4
  <2>6. IsFiniteSet(DOMAIN window)
    <3> HIDE DEF window
    <3> QED
      BY <2>5, FS_Interval
  <2> DEFINE practised(a) == LET m == attempts[a].answers
                             IN m # 0 /\ records[m].decision.skill = s
             recent == {i \in DOMAIN window : practised(window[i])}
  <2>7. recent \subseteq DOMAIN window
    OBVIOUS
  <2>8. Cardinality(recent) \in Nat
    <3> HIDE DEF recent, window
    <3> QED
      BY <2>6, <2>7, FS_Subset, FS_CardinalityType
  <2> QED
    BY <2>8 DEF RecentPractices
<1> QED
  BY <1>1, <1>2, <1>3 DEF Memory

-----------------------------------------------------------------------------
(***************************************************************************)
(* The states as weighted means                                            *)
(***************************************************************************)

\* What PowerOfTwo computes, step by step.
LEMMA PowerSteps ==
    /\ PowerOfTwo[0] = 1
    /\ \A n \in Nat : PowerOfTwo[n] \in Nat \ {0}
    /\ \A n \in Nat : PowerOfTwo[n + 1] = 2 * PowerOfTwo[n]
<1> DEFINE Body(f) == [n \in Nat |-> IF n = 0 THEN 1 ELSE 2 * f[n - 1]]
           Natural == Nat \ {0}
           g == [n \in Nat |-> [x \in Natural |-> 2 * x]]
<1>1. g \in [Nat -> [Natural -> Natural]] /\ 1 \in Natural
  OBVIOUS
<1>2. PICK f : Iterates(f, Natural, 1, g)
  <2> HIDE DEF g, Natural
  <2> QED
    BY <1>1, NaturalRecursion
<1>3. f[0] = 1 /\ \A n \in Nat : f[n] \in Natural
  <2> HIDE DEF g, Natural
  <2> QED
    BY <1>2 DEF Iterates
<1>4. ASSUME NEW n \in Nat PROVE f[n + 1] = 2 * f[n]
  <2>1. f[n + 1] = g[n + 1][f[n]]
    <3> HIDE DEF g, Natural
    <3> QED
      BY <1>2 DEF Iterates
  <2> QED
    BY <1>3, <2>1
<1>5. f = Body(f)
  <2>1. f = [n \in Nat |-> f[n]]
    <3> HIDE DEF g, Natural
    <3> QED
      BY <1>2 DEF Iterates
  <2>2. ASSUME NEW n \in Nat PROVE f[n] = IF n = 0 THEN 1 ELSE 2 * f[n - 1]
    <3>1. CASE n = 0
      BY <1>3, <3>1
    <3>2. CASE n # 0
      <4>1. n - 1 \in Nat /\ (n - 1) + 1 = n
        BY <3>2
      <4> QED
        BY <1>4, <3>2, <4>1
    <3> QED
      BY <3>1, <3>2
  <2> QED
    BY <2>1, <2>2
<1> DEFINE h == PowerOfTwo
<1>6. h = Body(h)
  <2>1. h = CHOOSE x : x = Body(x)
    BY DEF PowerOfTwo
  <2> HIDE DEF Body, h
  <2> QED
    BY <1>5, <2>1
<1> HIDE DEF h
<1>7. h[0] = 1
  BY <1>6
<1>8. ASSUME NEW n \in Nat PROVE h[n + 1] = 2 * h[n]
  <2>1. h[n + 1] = Body(h)[n + 1]
    BY <1>6
  <2>2. n + 1 \in Nat /\ n + 1 # 0 /\ (n + 1) - 1 = n
    OBVIOUS
  <2> QED
    BY <2>1, <2>2
<1>9. ASSUME NEW m \in Nat PROVE h[m] \in Nat \ {0}
  <2>1. h[0] = f[0] /\ \A n \in Nat : n < m /\ h[n] = f[n] => h[n + 1] = f[n + 1]
    BY <1>3, <1>4, <1>7, <1>8
  <2>2. h[m] = f[m]
    BY <2>1, SameSteps
  <2> QED
    BY <1>3, <2>2
<1> QED
  BY <1>7, <1>8, <1>9 DEF h

\* What WeightedSum computes, step by step.
LEMMA SumSteps ==
    ASSUME NEW s, \A a \in Nat : Weighted(a, s) \in Nat
    PROVE  /\ WeightedSum(s)[0] = 0
           /\ \A n \in Nat : WeightedSum(s)[n] \in Nat
           /\ \A n \in Nat : WeightedSum(s)[n + 1] = WeightedSum(s)[n] + Weighted(n + 1, s)
<1> DEFINE w == [a \in Nat |-> Weighted(a, s)]
           Body(f) == [a \in Nat |-> IF a = 0 THEN 0 ELSE f[a - 1] + Weighted(a, s)]
           g == [a \in Nat |-> [x \in Nat |-> x + w[a]]]
<1>1. w \in [Nat -> Nat] /\ \A a \in Nat : Weighted(a, s) = w[a]
  OBVIOUS
<1> HIDE DEF w
<1>2. g \in [Nat -> [Nat -> Nat]]
  BY <1>1
<1>3. PICK f : Iterates(f, Nat, 0, g)
  <2> HIDE DEF g
  <2> QED
    BY <1>2, NaturalRecursion
<1>4. f[0] = 0 /\ \A n \in Nat : f[n] \in Nat
  <2> HIDE DEF g
  <2> QED
    BY <1>3 DEF Iterates
<1>5. ASSUME NEW n \in Nat PROVE f[n + 1] = f[n] + w[n + 1]
  <2>1. f[n + 1] = g[n + 1][f[n]]
    <3> HIDE DEF g
    <3> QED
      BY <1>3 DEF Iterates
  <2>2. n + 1 \in Nat /\ f[n] \in Nat
    BY <1>4
  <2> QED
    BY <2>1, <2>2
<1>6. f = Body(f)
  <2>1. f = [n \in Nat |-> f[n]]
    <3> HIDE DEF g
    <3> QED
      BY <1>3 DEF Iterates
  <2>2. ASSUME NEW n \in Nat PROVE f[n] = IF n = 0 THEN 0 ELSE f[n - 1] + Weighted(n, s)
    <3>1. CASE n = 0
      BY <1>4, <3>1
    <3>2. CASE n # 0
      <4>1. n - 1 \in Nat /\ (n - 1) + 1 = n
        BY <3>2
      <4>2. f[n] = f[n - 1] + w[n]
        BY <1>5, <4>1
      <4> QED
        BY <1>1, <3>2, <4>2
    <3> QED
      BY <3>1, <3>2
  <2> QED
    BY <2>1, <2>2
<1> DEFINE h == WeightedSum(s)
<1>7. h = Body(h)
  <2>1. h = CHOOSE x : x = Body(x)
    BY DEF WeightedSum
  <2> HIDE DEF Body, h
  <2> QED
    BY <1>6, <2>1
<1> HIDE DEF h
<1>8. h[0] = 0
  BY <1>7
<1>9. ASSUME NEW n \in Nat PROVE h[n + 1] = h[n] + w[n + 1]
  <2>1. h[n + 1] = Body(h)[n + 1]
    BY <1>7
  <2>2. n + 1 \in Nat /\ n + 1 # 0 /\ (n + 1) - 1 = n
    OBVIOUS
  <2> QED
    BY <1>1, <2>1, <2>2
<1>10. ASSUME NEW m \in Nat PROVE h[m] = f[m]
  <2>1. h[0] = f[0] /\ \A n \in Nat : n < m /\ h[n] = f[n] => h[n + 1] = f[n + 1]
    BY <1>4, <1>5, <1>8, <1>9
  <2>2. \A n \in 0..m : h[n] = f[n]
    BY <2>1, SameSteps
  <2> QED
    BY <2>2
<1>11. \A n \in Nat : h[n + 1] = h[n] + Weighted(n + 1, s)
  BY <1>1, <1>9
<1>12. \A n \in Nat : h[n] \in Nat
  BY <1>4, <1>10
<1> QED
  BY <1>8, <1>11, <1>12 DEF h

\* The history is well formed: each update has applied another essay.
Typed ==
    /\ target \in Targets
    /\ attempts \in Seq(Attempt) /\ Len(attempts) <= MaxAttempts
    /\ updates \in Seq(DOMAIN attempts)
    /\ Distinct(updates)

\* The evidence for s of the accepted among the first essays, in the order of writing.
EvidenceUpTo(n, s) ==
    LET order == InOrder(Applied)[n] IN [i \in DOMAIN order |-> attempts[order[i]].bands[s]]

\* The accepted essays are essays, as many as there are updates.
LEMMA AppliedTyped ==
    ASSUME Typed
    PROVE  /\ Applied \subseteq DOMAIN attempts
           /\ DOMAIN attempts = 1..Len(attempts) /\ Len(attempts) \in Nat
           /\ IsFiniteSet(Applied) /\ Cardinality(Applied) = Len(updates)
<1>1. updates \in Seq(DOMAIN attempts) /\ Distinct(updates) /\ attempts \in Seq(Attempt)
  BY DEF Typed
<1>2. Applied \subseteq DOMAIN attempts
  BY <1>1 DEF Applied, Accepted
<1> QED
  BY <1>1, <1>2, CountAccepted DEF Applied

\* Every essay has a band in every criterion.
LEMMA BandsTyped ==
    ASSUME Typed, NEW a \in DOMAIN attempts, NEW s \in Skills
    PROVE  attempts[a].bands[s] \in BandRange
<1>1. attempts[a] \in Attempt
  BY DEF Typed
<1>2. attempts[a].bands[s] \in Bands
  BY <1>1 DEF Attempt
<1> QED
  BY <1>2, BandAssumption DEF HalfBand

\* One more essay: its evidence comes last if it is accepted.
LEMMA EvidenceSteps ==
    ASSUME Typed, NEW s \in Skills
    PROVE  /\ EvidenceUpTo(0, s) = << >>
           /\ \A n \in Nat :
                /\ EvidenceUpTo(n, s) \in Seq(BandRange)
                /\ Len(EvidenceUpTo(n, s)) = Len(InOrder(Applied)[n])
                /\ EvidenceUpTo(n + 1, s) =
                     IF n + 1 \in Applied
                     THEN Append(EvidenceUpTo(n, s), attempts[n + 1].bands[s])
                     ELSE EvidenceUpTo(n, s)
<1> DEFINE order(n) == InOrder(Applied)[n] ev(n) == EvidenceUpTo(n, s)
           band == [a \in DOMAIN attempts |-> attempts[a].bands[s]]
<1>1. \A n \in Nat : order(n) \in Seq(Nat)
  BY InOrderSteps
<1>2. ASSUME NEW n \in Nat, NEW i \in DOMAIN order(n) PROVE order(n)[i] \in DOMAIN attempts
  BY OrderMembers, AppliedTyped
<1>3. ASSUME NEW n \in Nat
      PROVE  /\ ev(n) = [i \in 1..Len(order(n)) |-> band[order(n)[i]]]
             /\ ev(n) \in Seq(BandRange) /\ Len(ev(n)) = Len(order(n))
  <2> DEFINE o == order(n) e == ev(n)
  <2>1. o \in Seq(Nat) /\ DOMAIN o = 1..Len(o) /\ Len(o) \in Nat
    BY <1>1, LenProperties
  <2>2. e = [i \in DOMAIN o |-> attempts[o[i]].bands[s]]
    BY DEF EvidenceUpTo
  <2>3. \A i \in DOMAIN o : o[i] \in DOMAIN attempts
    BY <1>2
  <2> HIDE DEF o, e
  <2>4. e = [i \in 1..Len(o) |-> band[o[i]]]
    BY <2>1, <2>2, <2>3
  <2>5. \A i \in 1..Len(o) : band[o[i]] \in BandRange
    BY <2>1, <2>3, BandsTyped
  <2> HIDE DEF band
  <2>6. e \in [1..Len(o) -> BandRange]
    BY <2>4, <2>5
  <2>7. e \in Seq(BandRange) /\ Len(e) = Len(o)
    BY <2>1, <2>6, FunctionIsSequence
  <2> QED
    BY <2>4, <2>7 DEF o, e
<1>4. ev(0) = << >>
  <2>1. order(0) = << >>
    BY InOrderSteps
  <2> QED
    BY <2>1 DEF EvidenceUpTo
<1>5. ASSUME NEW n \in Nat, n + 1 \notin Applied PROVE ev(n + 1) = ev(n)
  BY <1>5, InOrderSteps DEF EvidenceUpTo
<1>6. ASSUME NEW n \in Nat, n + 1 \in Applied
      PROVE  ev(n + 1) = Append(ev(n), attempts[n + 1].bands[s])
  <2> DEFINE o == order(n) a == n + 1 D == DOMAIN attempts
  <2>1. order(a) = Append(o, a) /\ a \in D
    BY <1>6, InOrderSteps, AppliedTyped
  <2>2. o \in Seq(D)
    <3> HIDE DEF o, D
    <3>1. o \in Seq(Nat) /\ \A i \in DOMAIN o : o[i] \in D
      BY <1>1, <1>2 DEF o, D
    <3> QED
      BY <3>1, SequenceWithin
  <2>3. band \in [D -> BandRange]
    BY BandsTyped
  <2>4. ev(n) = [i \in DOMAIN o |-> band[o[i]]]
    <3>1. \A i \in DOMAIN o : o[i] \in D
      BY <1>2
    <3> QED
      BY <3>1 DEF EvidenceUpTo
  <2>5. ev(a) = [i \in DOMAIN Append(o, a) |-> band[Append(o, a)[i]]]
    <3>1. \A i \in DOMAIN order(a) : order(a)[i] \in D
      BY <1>2
    <3> DEFINE p == order(a)
    <3>2. ev(a) = [i \in DOMAIN p |-> attempts[p[i]].bands[s]]
      BY DEF EvidenceUpTo
    <3> HIDE DEF p, order
    <3>3. ev(a) = [i \in DOMAIN p |-> band[p[i]]]
      BY <3>1, <3>2 DEF p
    <3> HIDE DEF ev, band, o
    <3> QED
      BY <2>1, <3>3 DEF p
  <2>6. band[a] = attempts[a].bands[s]
    BY <2>1
  <2> HIDE DEF ev, band, o, D
  <2> QED
    BY <2>1, <2>2, <2>3, <2>4, <2>5, <2>6, MapAppend
<1> HIDE DEF ev, order
<1>7. ASSUME NEW n \in Nat
      PROVE  ev(n + 1) = IF n + 1 \in Applied
                         THEN Append(ev(n), attempts[n + 1].bands[s]) ELSE ev(n)
  BY <1>5, <1>6
<1>8. \A n \in Nat : ev(n) \in Seq(BandRange) /\ Len(ev(n)) = Len(order(n))
  BY <1>3
<1> QED
  BY <1>4, <1>7, <1>8 DEF ev, order

\* The average of one observation is the observation.
LEMMA EwmaOne ==
    ASSUME NEW value \in BandRange
    PROVE  EwmaEstimate(Append(<< >>, value)) = [num |-> value, den |-> 1]
<1> DEFINE values == Append(<< >>, value)
<1>1. values \in Seq(BandRange) /\ values # << >> /\ Len(values) = 1 /\ values[1] = value
  OBVIOUS
<1> HIDE DEF values
<1>2. PICK r : Replays(r, values) /\ EwmaEstimate(values) = r[1]
  BY <1>1, EwmaReplay
<1> QED
  BY <1>1, <1>2 DEF Replays, values

\* The essays accepted so far weigh what the replay of their evidence gives them.
LEMMA MeanSteps ==
    ASSUME Typed, NEW s \in Skills, NEW m \in 0..Len(attempts)
    PROVE  LET e == EvidenceUpTo(m, s) sum == WeightedSum(s)[m] IN
           /\ e = << >> => sum = 0
           /\ e # << >> => EwmaEstimate(e) = [num |-> sum, den |-> PowerOfTwo[Len(e) - 1]]
<1> DEFINE L == Len(attempts) ev(n) == EvidenceUpTo(n, s) sum(n) == WeightedSum(s)[n]
           Right(n) == /\ ev(n) = << >> => sum(n) = 0
                       /\ ev(n) # << >> =>
                            EwmaEstimate(ev(n)) = [num |-> sum(n), den |-> PowerOfTwo[Len(ev(n)) - 1]]
           N == {n \in Nat : n <= L => Right(n)}
<1>1. L \in Nat /\ DOMAIN attempts = 1..L /\ Applied \subseteq 1..L /\ IsFiniteSet(Applied)
  BY AppliedTyped
<1>2. ASSUME NEW a \in Applied
      PROVE  /\ Place(a) = Len(InOrder(Applied)[a]) /\ Place(a) \in Nat \ {0}
             /\ Weight(Place(a)) \in Nat
  <2>1. a \in 1..L /\ a \in Nat
    BY <1>1
  <2>2. {b \in Applied : b <= a} = {b \in Applied : b \in 1..a}
    <3>1. \A b \in Applied : b \in Nat /\ b >= 1
      BY <1>1
    <3>2. \A b \in Applied : b <= a <=> b \in 1..a
      BY <2>1, <3>1
    <3> QED
      BY <3>2
  <2>3. Place(a) = Len(InOrder(Applied)[a])
    BY <2>1, <2>2, OrderMembers DEF Place
  <2> DEFINE B == {b \in Applied : b <= a}
  <2>4. IsFiniteSet(B) /\ a \in B
    BY <1>1, <2>1, FS_Subset
  <2>5. Cardinality(B) \in Nat /\ Cardinality(B) # 0
    <3> HIDE DEF B
    <3> QED
      BY <2>4, FS_CardinalityType, FS_EmptySet
  <2>6. Place(a) \in Nat \ {0}
    BY <2>5 DEF Place
  <2>7. Weight(Place(a)) \in Nat
    <3>1. CASE Place(a) = 1
      BY <3>1 DEF Weight
    <3>2. CASE Place(a) # 1
      <4>1. Place(a) - 2 \in Nat
        BY <2>6, <3>2
      <4> QED
        BY <3>2, <4>1, PowerSteps DEF Weight
    <3> QED
      BY <3>1, <3>2
  <2> QED
    BY <2>3, <2>6, <2>7
<1>3. \A a \in Nat : Weighted(a, s) \in Nat
  <2> SUFFICES ASSUME NEW a \in Nat PROVE Weighted(a, s) \in Nat
    OBVIOUS
  <2>1. CASE a \in Applied
    <3>1. attempts[a].bands[s] \in Nat /\ Weight(Place(a)) \in Nat
      BY <1>1, <1>2, <2>1, BandsTyped, BandIsNatural
    <3>2. Weight(Place(a)) * attempts[a].bands[s] \in Nat
      BY <3>1
    <3> QED
      BY <2>1, <3>2 DEF Weighted
  <2>2. CASE a \notin Applied
    BY <2>2 DEF Weighted
  <2> QED
    BY <2>1, <2>2
<1>4. /\ sum(0) = 0 /\ \A n \in Nat : sum(n) \in Nat
      /\ \A n \in Nat : sum(n + 1) = sum(n) + Weighted(n + 1, s)
  BY <1>3, SumSteps
<1>5. 0 \in N
  BY <1>4, EvidenceSteps
<1>6. ASSUME NEW n \in Nat, n + 1 <= L, Right(n) PROVE Right(n + 1)
  <2>1. CASE n + 1 \notin Applied
    <3>1. ev(n + 1) = ev(n)
      BY <2>1, EvidenceSteps
    <3>2. Weighted(n + 1, s) = 0
      BY <2>1 DEF Weighted
    <3>3. sum(n + 1) = sum(n) + 0 /\ sum(n) \in Nat
      BY <1>4, <3>2
    <3>4. sum(n + 1) = sum(n)
      BY <3>3
    <3> QED
      BY <1>6, <3>1, <3>4
  <2>2. CASE n + 1 \in Applied
    <3> DEFINE a == n + 1 v == attempts[a].bands[s] e == ev(n) k == Len(e)
    <3>1. a \in Nat /\ a \in DOMAIN attempts /\ v \in BandRange /\ v \in Nat
      BY <1>1, <2>2, BandsTyped, BandIsNatural
    <3>2. e \in Seq(BandRange) /\ k \in Nat
      <4>1. e \in Seq(BandRange)
        BY EvidenceSteps
      <4> HIDE DEF e
      <4> QED
        BY <4>1, LenProperties
    <3>3. ev(a) = Append(e, v)
      BY <2>2, EvidenceSteps
    <3>4. Len(ev(a)) = k + 1 /\ ev(a) # << >>
      <4> HIDE DEF e, v
      <4> QED
        BY <3>1, <3>2, <3>3, AppendProperties DEF k
    <3>5. Place(a) = k + 1
      <4>1. Len(ev(a)) = Len(InOrder(Applied)[a])
        BY <3>1, EvidenceSteps
      <4> QED
        BY <1>2, <2>2, <3>4, <4>1
    <3>6. sum(a) = sum(n) + Weight(k + 1) * v
      <4>1. Weighted(a, s) = Weight(Place(a)) * v
        BY <2>2 DEF Weighted
      <4> QED
        BY <1>4, <3>5, <4>1
    <3>7. EwmaEstimate(ev(a)) = [num |-> sum(a), den |-> PowerOfTwo[k]]
      <4>1. CASE e = << >>
        <5>1. k = 0 /\ Weight(k + 1) = 1
          BY <4>1 DEF Weight
        <5>2. sum(n) = 0
          BY <1>6, <4>1
        <5>3. sum(a) = v
          <6> HIDE DEF v, k, a, sum
          <6> QED
            BY <3>1, <3>6, <5>1, <5>2
        <5>4. EwmaEstimate(ev(a)) = [num |-> v, den |-> 1]
          BY <3>1, <3>3, <4>1, EwmaOne
        <5> HIDE DEF v, k, a, sum, ev
        <5> QED
          BY <5>1, <5>3, <5>4, PowerSteps
      <4>2. CASE e # << >>
        <5> DEFINE p == PowerOfTwo[k - 1]
        <5>1. k # 0 /\ k - 1 \in Nat /\ (k - 1) + 1 = k
          BY <3>2, <4>2
        <5>2. Weight(k + 1) = p
          <6>1. k + 1 # 1 /\ (k + 1) - 2 = k - 1
            BY <3>2, <5>1
          <6> HIDE DEF k
          <6> QED
            BY <6>1 DEF Weight
        <5>3. EwmaEstimate(e) = [num |-> sum(n), den |-> p]
          BY <1>6, <4>2
        <5>4. EwmaEstimate(ev(a)) = Blend(v, EwmaEstimate(e))
          BY <3>1, <3>2, <3>3, <4>2, EwmaAppend
        <5>5. EwmaEstimate(ev(a)) = [num |-> v * p + sum(n), den |-> 2 * p]
          BY <5>3, <5>4 DEF Blend
        <5>6. p \in Nat /\ PowerOfTwo[k] = 2 * p
          <6> HIDE DEF k
          <6> QED
            BY <5>1, PowerSteps
        <5>7. sum(a) = v * p + sum(n)
          <6>1. sum(n) \in Nat
            BY <1>4
          <6> HIDE DEF p, v, k, a, sum
          <6> QED
            BY <3>1, <3>6, <5>2, <5>6, <6>1
        <5> HIDE DEF p, v, k, a, sum, ev
        <5> QED
          BY <5>5, <5>6, <5>7
      <4> QED
        BY <4>1, <4>2
    <3>8. Len(ev(a)) - 1 = k
      BY <3>2, <3>4
    <3> HIDE DEF ev, sum, k
    <3> QED
      BY <3>4, <3>7, <3>8
  <2> QED
    BY <2>1, <2>2
<1>7. N = Nat
  <2> HIDE DEF Right, L
  <2>1. \A n \in N : n + 1 \in N
    BY <1>1, <1>6
  <2>2. N \in SUBSET Nat
    OBVIOUS
  <2> HIDE DEF N
  <2> QED
    BY <1>5, <2>1, <2>2, NaturalInduction
<1>8. Right(m)
  <2> HIDE DEF Right
  <2>1. m \in Nat /\ m <= L
    BY <1>1
  <2> QED
    BY <1>7, <2>1
<1> QED
  BY <1>8

-----------------------------------------------------------------------------
(***************************************************************************)
(* The inductive invariant                                                 *)
(***************************************************************************)

\* The skill states are what a replay of all accepted evidence makes them.
Rebuilt == skill = [s \in Skills |-> RebuildSkillState(updates, s)]

\* A record is what the planner decides on some skill states and some memory.
Planned(r) ==
    \E states \in [Skills -> MaterializedState], memory \in [Skills -> Memory] :
      /\ \A s \in Skills : StorableState(states[s])
      /\ r = PlanV2(target, states, memory)
Decided ==
    /\ \E S : records \in Seq(S)
    /\ Len(records) = Len(updates)
    /\ \A n \in DOMAIN records : Planned(records[n])

IInv == Typed /\ Rebuilt /\ Decided

\* States rebuilt from essays accepted once each have their type and can be stored.
LEMMA StatesTyped ==
    ASSUME attempts \in Seq(Attempt), Len(attempts) <= MaxAttempts,
           NEW applied \in Seq(DOMAIN attempts), Distinct(applied)
    PROVE  LET states == [s \in Skills |-> RebuildSkillState(applied, s)] IN
           /\ states \in [Skills -> MaterializedState]
           /\ \A s \in Skills : StorableState(states[s])
           /\ Len(applied) \in Nat /\ Len(applied) <= Len(attempts)
<1>1. Len(attempts) \in Nat /\ DOMAIN attempts = 1..Len(attempts) /\ Len(applied) \in Nat
  BY LenProperties
<1>2. Len(applied) <= Len(attempts)
  <2>1. IsFiniteSet(1..Len(attempts)) /\ Cardinality(1..Len(attempts)) = Len(attempts)
    BY <1>1, CountTo
  <2>3. Accepted(applied) \subseteq 1..Len(attempts)
    BY <1>1 DEF Accepted
  <2>4. Cardinality(Accepted(applied)) = Len(applied)
    BY CountAccepted
  <2> QED
    BY <2>1, <2>3, <2>4, FS_Subset
<1>3. ASSUME NEW s \in Skills
      PROVE  RebuildSkillState(applied, s) \in MaterializedState
  <2> DEFINE state == RebuildSkillState(applied, s)
  <2>1. state \in [estimate: BandRange \cup {None}, count: {Len(applied)}]
    BY RebuildTyped
  <2>2. Len(applied) \in 0..MaxAttempts
    BY <1>1, <1>2, BoundAssumption
  <2> HIDE DEF state
  <2>3. state \in MaterializedState
    BY <2>1, <2>2 DEF MaterializedState
  <2> QED
    BY <2>3 DEF state
<1>4. \A s \in Skills : StorableState(RebuildSkillState(applied, s))
  BY RebuildTyped
<1> QED
  BY <1>1, <1>2, <1>3, <1>4

\* An essay that is not accepted yet changes no rebuilt state.
LEMMA WritingKeepsStates ==
    ASSUME Typed, NEW x \in Attempt, attempts' = Append(attempts, x), updates' = updates,
           NEW s \in Skills
    PROVE  RebuildSkillState(updates, s)' = RebuildSkillState(updates, s)
<1> DEFINE L == Len(attempts) A == Accepted(updates) o == InOrder(A)[L]
<1>1. L \in Nat /\ DOMAIN attempts = 1..L /\ A \subseteq 1..L
  BY AppliedTyped DEF Applied
<1>2. /\ Len(attempts') = L + 1
      /\ \A i \in 1..L : attempts'[i] = attempts[i]
  BY AppendProperties DEF Typed
<1>3. InOrder(A)[L + 1] = o
  <2>1. \A i \in A : i \notin (L + 1)..(L + 1)
    BY <1>1
  <2> HIDE DEF A, L
  <2> QED
    BY <1>1, <2>1, OrderStays
<1>4. CanonicalOrder(updates)' = o /\ CanonicalOrder(updates) = o
  BY <1>2, <1>3 DEF CanonicalOrder, Accepted
<1>5. \A i \in DOMAIN o : o[i] \in 1..L
  BY <1>1, OrderMembers
<1> HIDE DEF o
<1>6. Values(updates, s)' = [i \in DOMAIN o |-> attempts'[o[i]].bands[s]]
  BY <1>4 DEF Values
<1>7. Values(updates, s) = [i \in DOMAIN o |-> attempts[o[i]].bands[s]]
  BY <1>4 DEF Values
<1>8. Values(updates, s)' = Values(updates, s)
  BY <1>2, <1>5, <1>6, <1>7
<1> QED
  BY <1>8 DEF RebuildSkillState

\* Writing an essay, of the learner's choice or for a practice, keeps the invariant.
LEMMA WritingKeeps ==
    ASSUME IInv, NEW x \in Attempt, Len(attempts) < MaxAttempts,
           attempts' = Append(attempts, x), UNCHANGED <<target, updates, skill, records>>
    PROVE  IInv'
<1>1. Typed'
  <2>1. attempts \in Seq(Attempt)
    BY DEF IInv, Typed
  <2>2. attempts' \in Seq(Attempt) /\ Len(attempts') = Len(attempts) + 1 /\ Len(attempts) \in Nat
    BY <2>1, AppendProperties, LenProperties
  <2>3. DOMAIN attempts \subseteq DOMAIN attempts'
    BY <2>1, <2>2, LenProperties
  <2>4. updates \in Seq(DOMAIN attempts')
    BY <2>3, SeqMonotonic DEF IInv, Typed
  <2>5. Len(attempts') <= MaxAttempts
    BY <2>2, BoundAssumption
  <2> QED
    BY <2>2, <2>4, <2>5 DEF IInv, Typed, Distinct
<1>2. Rebuilt'
  <2>1. \A s \in Skills : RebuildSkillState(updates, s)' = RebuildSkillState(updates, s)
    BY WritingKeepsStates DEF IInv
  <2> QED
    BY <2>1 DEF IInv, Rebuilt
<1>3. Decided'
  BY DEF IInv, Decided, Planned
<1> QED
  BY <1>1, <1>2, <1>3 DEF IInv

\* Applying an evaluation keeps the invariant.
LEMMA ApplyKeeps ==
    ASSUME IInv, NEW a \in 1..MaxAttempts, Apply(a) PROVE IInv'
<1> DEFINE applied == Append(updates, a)
           states == [s \in Skills |-> RebuildSkillState(applied, s)]
           memory == MemoryContext(applied)
           record == PlanV2(target, states, memory)
           D == DOMAIN attempts
<1>1. /\ a \in D /\ \A n \in DOMAIN updates : updates[n] # a
      /\ updates' = applied /\ skill' = states /\ records' = Append(records, record)
      /\ attempts' = attempts /\ target' = target
  BY DEF Apply
<1>2. attempts \in Seq(Attempt) /\ Len(attempts) <= MaxAttempts /\ updates \in Seq(D)
      /\ Distinct(updates)
  BY DEF IInv, Typed
<1>3. /\ applied \in Seq(D) /\ Len(applied) = Len(updates) + 1 /\ Len(updates) \in Nat
      /\ DOMAIN updates = 1..Len(updates) /\ applied[Len(updates) + 1] = a
      /\ \A n \in 1..Len(updates) : applied[n] = updates[n]
  BY <1>1, <1>2, AppendProperties, LenProperties
<1>4. DOMAIN applied = 1..(Len(updates) + 1)
  <2> HIDE DEF applied, D
  <2> QED
    BY <1>3, LenProperties
<1> HIDE DEF applied
<1>5. Distinct(applied)
  <2> SUFFICES ASSUME NEW m \in DOMAIN applied, NEW n \in DOMAIN applied, applied[m] = applied[n]
               PROVE  m = n
    BY DEF Distinct
  <2>1. CASE m \in DOMAIN updates /\ n \in DOMAIN updates
    BY <1>2, <1>3, <2>1 DEF Distinct
  <2>2. CASE m \notin DOMAIN updates /\ n \notin DOMAIN updates
    BY <1>3, <1>4, <2>2
  <2>3. CASE m \in DOMAIN updates /\ n \notin DOMAIN updates
    BY <1>1, <1>3, <1>4, <2>3
  <2>4. CASE m \notin DOMAIN updates /\ n \in DOMAIN updates
    BY <1>1, <1>3, <1>4, <2>4
  <2> QED
    BY <2>1, <2>2, <2>3, <2>4
<1>6. states \in [Skills -> MaterializedState] /\ \A s \in Skills : StorableState(states[s])
  <2> HIDE DEF D
  <2> QED
    BY <1>2, <1>3, <1>5, StatesTyped DEF D
<1>7. memory \in [Skills -> Memory]
  BY <1>3, MemoryTyped
<1>8. Typed'
  BY <1>1, <1>2, <1>3, <1>5 DEF IInv, Typed, Distinct
<1>9. Rebuilt'
  BY <1>1 DEF Rebuilt, RebuildSkillState, Values, CanonicalOrder
<1> HIDE DEF states, memory
<1>10. Planned(record)
  BY <1>6, <1>7 DEF Planned
<1> HIDE DEF record
<1>11. Decided'
  <2>1. PICK S : records \in Seq(S)
    BY DEF IInv, Decided
  <2>2. records \in Seq(S \cup {record})
    BY <2>1, SeqMonotonic
  <2>3. /\ records' \in Seq(S \cup {record}) /\ Len(records') = Len(records) + 1
        /\ \A n \in 1..Len(records) : records'[n] = records[n]
        /\ records'[Len(records) + 1] = record
    BY <1>1, <2>2, AppendProperties
  <2>4. /\ DOMAIN records' = 1..(Len(records) + 1) /\ DOMAIN records = 1..Len(records)
        /\ Len(records) \in Nat
    BY <2>1, <2>3, LenProperties
  <2>5. Len(records') = Len(updates')
    BY <1>1, <1>3, <2>3 DEF IInv, Decided
  <2>6. ASSUME NEW n \in DOMAIN records' PROVE Planned(records'[n])
    <3>1. CASE n \in 1..Len(records)
      BY <2>3, <2>4, <3>1 DEF IInv, Decided
    <3>2. CASE n = Len(records) + 1
      BY <1>10, <2>3, <3>2
    <3> QED
      BY <2>4, <3>1, <3>2
  <2>7. \A r : Planned(r)' = Planned(r)
    BY <1>1 DEF Planned
  <2>8. \A n \in DOMAIN records' : (Planned(records[n]))'
    BY <1>1, <2>6 DEF Planned
  <2> QED
    BY <2>3, <2>5, <2>8 DEF Decided
<1> QED
  BY <1>8, <1>9, <1>11 DEF IInv

\* Every state of a history is well formed, its skill states are the replay of its
\* accepted evidence, and its records are decisions of the planner.
THEOREM HistoryInvariant == Spec => []IInv
<1>1. Init => IInv
  <2> SUFFICES ASSUME Init PROVE IInv
    OBVIOUS
  <2>1. attempts = << >> /\ updates = << >> /\ records = << >> /\ target \in Targets
    BY DEF Init
  <2>2. Typed
    BY <2>1, BoundAssumption DEF Typed, Distinct
  <2>3. Rebuilt
    BY <2>1 DEF Init, Rebuilt, RebuildSkillState
  <2>4. Decided
    <3>1. records \in Seq({}) /\ DOMAIN records = {}
      BY <2>1
    <3> QED
      BY <2>1, <3>1 DEF Decided
  <2> QED
    BY <2>2, <2>3, <2>4 DEF IInv
<1>2. IInv /\ [Next]_vars => IInv'
  <2> SUFFICES ASSUME IInv, [Next]_vars PROVE IInv'
    OBVIOUS
  <2>1. ASSUME NEW bands \in [Skills -> Bands], Write(bands) PROVE IInv'
    <3>1. [bands |-> bands, answers |-> 0] \in Attempt
      BY BoundAssumption DEF Attempt
    <3> QED
      BY <2>1, <3>1, WritingKeeps DEF Write
  <2>2. ASSUME NEW n \in 1..MaxAttempts, NEW bands \in [Skills -> Bands], Practise(n, bands)
        PROVE  IInv'
    <3>1. [bands |-> bands, answers |-> n] \in Attempt
      BY BoundAssumption DEF Attempt
    <3> QED
      BY <2>2, <3>1, WritingKeeps DEF Practise
  <2>3. ASSUME NEW a \in 1..MaxAttempts, Apply(a) PROVE IInv'
    BY <2>3, ApplyKeeps
  <2>4. CASE UNCHANGED vars
    <3>1. UNCHANGED <<target, attempts, updates, skill, records>>
      BY <2>4 DEF vars
    <3>2. Typed'
      BY <3>1 DEF IInv, Typed, Distinct
    <3>3. Rebuilt'
      BY <3>1 DEF IInv, Rebuilt, RebuildSkillState, Values, CanonicalOrder
    <3>4. Decided'
      BY <3>1 DEF IInv, Decided, Planned
    <3> QED
      BY <3>2, <3>3, <3>4 DEF IInv
  <2> QED
    BY <2>1, <2>2, <2>3, <2>4 DEF Next
<1> QED
  BY <1>1, <1>2, PTL DEF Spec

-----------------------------------------------------------------------------
(***************************************************************************)
(* The theorems                                                            *)
(***************************************************************************)

\* The states the history keeps are states of the planner, each a band or unobserved.
LEMMA MaterializedIsState ==
    ASSUME NEW states \in [Skills -> MaterializedState]
    PROVE  /\ states \in [Skills -> State]
           /\ \A s \in Skills : states[s].estimate # None => states[s].estimate \in BandRange
<1>1. MaterializedState \subseteq State
  BY BoundAssumption DEF MaterializedState, State, BandRange
<1>2. states \in [Skills -> State]
  BY <1>1
<1>3. \A s \in Skills : states[s].estimate \in BandRange \cup {None}
  BY DEF MaterializedState
<1> QED
  BY <1>2, <1>3

\* A target is one the planner accepts.
LEMMA TargetTyped ==
    ASSUME Typed PROVE target \in Nat \cup {None} /\ HalfBand(target)
<1>1. HalfBand(target)
  BY BandAssumption DEF Typed
<1> QED
  BY <1>1, BandIsNatural DEF HalfBand

\* A decision keeps the facts it was decided on.
LEMMA PlanKeepsFacts ==
    ASSUME NEW goal, NEW states, NEW memory
    PROVE  LET d == PlanV2(goal, states, memory).decision IN
           d.target = goal /\ d.states = states
<1> DEFINE d == PlanV2(goal, states, memory).decision
<1>1. d = NoPractice(goal, states) \/ \E s, b : d = Practice(goal, states, s, b)
  BY DEF PlanV2, ResolveTie
<1>2. NoPractice(goal, states).target = goal /\ NoPractice(goal, states).states = states
  BY DEF NoPractice
<1>3. \A s, b : /\ Practice(goal, states, s, b).target = goal
                /\ Practice(goal, states, s, b).states = states
  BY DEF Practice
<1> HIDE DEF d
<1>4. d.target = goal /\ d.states = states
  BY <1>1, <1>2, <1>3
<1> QED
  BY <1>4 DEF d

\* What is true of every decision of the planner on states of a history.
LEMMA PlannedRight ==
    ASSUME Typed, NEW r, Planned(r)
    PROVE  /\ Reconstructs(r)
           /\ StorableRecommendation(r.decision)
           /\ r.decision.states \in [Skills -> MaterializedState]
           /\ r.decision.target = target
<1>1. PICK states \in [Skills -> MaterializedState], memory \in [Skills -> Memory] :
        r = PlanV2(target, states, memory)
  BY DEF Planned
<1>2. /\ states \in [Skills -> State]
      /\ \A s \in Skills : states[s].estimate # None => states[s].estimate \in BandRange
  BY MaterializedIsState
<1>3. Reconstructs(r)
  BY <1>1, <1>2, TargetTyped, PlanReconstructs
<1>4. StorableRecommendation(r.decision)
  BY <1>1, <1>2, TargetTyped, PlanStorable
<1> QED
  BY <1>1, <1>3, <1>4, PlanKeepsFacts

\* TypeOK for all sets of skills, bands and targets and any number of essays: an estimate
\* is a band or unset, and a state counts no more essays than were written.
THEOREM HistoryTypes == Spec => []TypeOK
<1>1. IInv => TypeOK
  <2> SUFFICES ASSUME IInv PROVE TypeOK
    OBVIOUS
  <2>1. skill \in [Skills -> MaterializedState] /\ Len(updates) <= Len(attempts)
    BY StatesTyped DEF IInv, Typed, Rebuilt
  <2>2. ASSUME NEW n \in DOMAIN records
        PROVE  /\ records[n].decision.states \in [Skills -> MaterializedState]
               /\ records[n].decision.skill \in Skills \cup {None}
    <3>1. Planned(records[n])
      BY DEF IInv, Decided
    <3> QED
      BY <3>1, PlannedRight DEF IInv, StorableRecommendation
  <2> QED
    BY <2>1, <2>2 DEF IInv, Typed, Decided, TypeOK
<1> QED
  BY <1>1, HistoryInvariant, PTL

\* RecordsReconstruct of every history: an application never fails on its own decision,
\* and an old recommendation replays to itself whenever it is read.
THEOREM HistoryReconstructs == Spec => []RecordsReconstruct
<1>1. IInv => RecordsReconstruct
  BY PlannedRight DEF IInv, Decided, RecordsReconstruct
<1> QED
  BY <1>1, HistoryInvariant, PTL

\* RowsStorable of every history: no application is refused by the tables' constraints
\* for what the engine and the planner computed.
THEOREM HistoryStorable == Spec => []RowsStorable
<1>1. IInv => RowsStorable
  <2> SUFFICES ASSUME IInv PROVE RowsStorable
    OBVIOUS
  <2>1. StorableLearner(target)
    BY TargetTyped DEF IInv, StorableLearner
  <2>2. ASSUME NEW a \in Applied PROVE StorableEvidence(attempts[a].bands)
    <3>1. a \in DOMAIN attempts
      BY AppliedTyped DEF IInv
    <3>2. attempts[a] \in Attempt
      BY <3>1 DEF IInv, Typed
    <3>3. attempts[a].bands \in [Skills -> Bands]
      BY <3>2 DEF Attempt
    <3> QED
      BY <3>3, BandAssumption DEF StorableEvidence
  <2>3. \A s \in Skills : StorableState(skill[s])
    BY StatesTyped DEF IInv, Typed, Rebuilt
  <2>4. \A n \in DOMAIN records : StorableRecommendation(records[n].decision)
    BY PlannedRight DEF IInv, Decided
  <2> QED
    BY <2>1, <2>2, <2>3, <2>4 DEF RowsStorable
<1> QED
  BY <1>1, HistoryInvariant, PTL

\* MemoryOnlyBreaksTies of every history: outside a tie of the largest gap version 2
\* decides as version 1, and a tie stays within the tied skills.
THEOREM HistoryBreaksTiesOnly == Spec => []MemoryOnlyBreaksTies
<1>1. IInv => MemoryOnlyBreaksTies
  <2> SUFFICES ASSUME IInv, NEW n \in DOMAIN records
               PROVE  LET d == records[n].decision v1 == PlanV1(d.target, d.states) IN
                      \/ d = v1
                      \/ /\ v1.type = "practice" /\ d.type = "practice"
                         /\ "priority_tiebreak" \in v1.reasons
                         /\ d.estimate = v1.estimate
    BY DEF MemoryOnlyBreaksTies
  <2>1. PICK states \in [Skills -> MaterializedState], memory \in [Skills -> Memory] :
          records[n] = PlanV2(target, states, memory)
    BY DEF IInv, Decided, Planned
  <2> DEFINE d == records[n].decision v1 == PlanV1(target, states)
  <2>2. d.target = target /\ d.states = states
    BY <2>1, PlanKeepsFacts
  <2>3. states \in [Skills -> State] /\ target \in Nat \cup {None}
    BY MaterializedIsState, TargetTyped DEF IInv
  <2>4. \/ d = v1
        \/ /\ Several(LargestGap(target, states))
           /\ v1.type = "practice" /\ d.type = "practice"
           /\ d.estimate = v1.estimate
    BY <2>1, <2>3, PlanBreaksTiesOnly
  <2>5. ASSUME v1.type = "practice", Several(LargestGap(target, states))
        PROVE  "priority_tiebreak" \in v1.reasons
    <3>1. v1 = Practice(target, states, First(LargestGap(target, states)), TRUE)
      BY <2>5 DEF PlanV1, NoPractice
    <3> QED
      BY <3>1 DEF Practice
  <2> HIDE DEF d, v1
  <2>6. \/ d = v1
        \/ /\ v1.type = "practice" /\ d.type = "practice"
           /\ "priority_tiebreak" \in v1.reasons
           /\ d.estimate = v1.estimate
    BY <2>4, <2>5
  <2> QED
    BY <2>2, <2>6 DEF d, v1
<1> QED
  BY <1>1, HistoryInvariant, PTL

\* StateIgnoresArrival of every history, however long and in whatever order its essays were
\* applied: each state is the weighted mean of the accepted evidence in the order of
\* writing, to the nearest hundredth.
THEOREM HistoryIgnoresArrival == Spec => []StateIgnoresArrival
<1>1. IInv => StateIgnoresArrival
  <2> SUFFICES ASSUME IInv, updates # << >>, NEW s \in Skills
               PROVE  LET sum == WeightedSum(s)[Len(attempts)]
                          total == PowerOfTwo[Cardinality(Applied) - 1]
                          twice == 2 * sum + total
                      IN /\ 2 * total * skill[s].estimate <= twice
                         /\ twice < 2 * total * (skill[s].estimate + 1)
                         /\ skill[s].count = Cardinality(Applied)
    BY DEF StateIgnoresArrival
  <2> DEFINE L == Len(attempts) e == EvidenceUpTo(L, s)
             sum == WeightedSum(s)[L] total == PowerOfTwo[Cardinality(Applied) - 1]
  <2>1. Typed /\ skill[s] = RebuildSkillState(updates, s)
    BY DEF IInv, Rebuilt
  <2>2. L \in Nat /\ Cardinality(Applied) = Len(updates) /\ Len(updates) \in Nat /\ L \in 0..L
    BY <2>1, AppliedTyped DEF Typed
  <2>3. e = Values(updates, s)
    BY DEF EvidenceUpTo, Values, CanonicalOrder, Applied
  <2>4. e \in Seq(BandRange) /\ Len(e) = Len(updates)
    BY <2>1, <2>3, ValuesTyped DEF Typed
  <2>5. e # << >>
    BY <2>1, <2>4 DEF Typed
  <2>6. EwmaEstimate(e) = [num |-> sum, den |-> total]
    <3>1. EwmaEstimate(e) = [num |-> sum, den |-> PowerOfTwo[Len(e) - 1]]
      BY <2>1, <2>2, <2>5, MeanSteps
    <3> QED
      BY <2>2, <2>4, <3>1
  <2>7. /\ skill[s].estimate = Quantize(EwmaEstimate(e))
        /\ skill[s].count = Cardinality(Applied)
    BY <2>1, <2>2, <2>3 DEF RebuildSkillState
  <2> DEFINE x == EwmaEstimate(e) q == Quantize(x)
  <2>8. x \in Estimate
    BY <2>4, <2>5, EwmaIsEstimate
  <2> HIDE DEF e, x, sum, total
  <2>9. x.num = sum /\ x.den = total
    BY <2>6 DEF x
  <2>10. 2 * total * q <= 2 * sum + total /\ 2 * sum + total < 2 * total * (q + 1)
    BY <2>8, <2>9, QuantizeNearest
  <2>11. skill[s].estimate = q
    BY <2>7 DEF x
  <2> HIDE DEF q
  <2> QED
    BY <2>7, <2>10, <2>11 DEF sum, total
<1> QED
  BY <1>1, HistoryInvariant, PTL

\* An observation at or above the target, blended with an estimate that rounds to it or
\* above, gives such an estimate again.
LEMMA BlendStaysAbove ==
    ASSUME NEW e \in Estimate, NEW value \in BandRange, NEW goal \in Nat,
           value >= goal, Quantize(e) >= goal
    PROVE  Quantize(Blend(value, e)) >= goal
<1> DEFINE n == e.num d == e.den b == Blend(value, e) q == Quantize(e) p == Quantize(b)
<1>1. n \in Nat /\ d \in Nat \ {0} /\ value \in Nat
  BY BandIsNatural DEF Estimate
<1>2. b \in Estimate /\ b.num = value * d + n /\ b.den = 2 * d
  BY BlendEstimate DEF Blend
<1>3. q \in Nat /\ 2 * d * q <= 2 * n + d
  BY QuantizeNearest, BandIsNatural
<1>4. p \in Nat /\ 2 * (value * d + n) + 2 * d < 2 * (2 * d) * (p + 1)
  <2>1. p \in Nat /\ 2 * b.num + b.den < 2 * b.den * (p + 1)
    BY <1>2, QuantizeNearest, BandIsNatural
  <2> HIDE DEF b, p
  <2> QED
    BY <1>2, <2>1
<1> SUFFICES ASSUME p < goal PROVE FALSE
  BY <1>4
<1> HIDE DEF n, d, b, q, p
<1>5. d * goal <= d * q /\ d * goal <= value * d /\ d * (p + 1) <= d * goal
  <2>1. goal <= q /\ goal <= value /\ p + 1 <= goal
    BY <1>4 DEF q
  <2> QED
    BY <1>1, <1>3, <1>4, <2>1
<1> DEFINE dg == d * goal dq == d * q vd == value * d dp == d * (p + 1)
<1>6. dg \in Nat /\ dq \in Nat /\ vd \in Nat /\ dp \in Nat
  BY <1>1, <1>3, <1>4
<1>7. 2 * dq <= 2 * n + d /\ 2 * (vd + n) + 2 * d < 4 * dp
  BY <1>1, <1>3, <1>4
<1>8. dg <= dq /\ dg <= vd /\ dp <= dg
  BY <1>5
<1> HIDE DEF dg, dq, vd, dp
<1> QED
  BY <1>1, <1>6, <1>7, <1>8

\* An essay newer than all the accepted ones comes last.
LEMMA NewestComesLast ==
    ASSUME Typed, NEW a \in DOMAIN attempts, \A b \in Applied : b < a, NEW s \in Skills
    PROVE  Values(Append(updates, a), s) = Append(Values(updates, s), attempts[a].bands[s])
<1> DEFINE L == Len(attempts) A == Applied B == Accepted(Append(updates, a))
           D == DOMAIN attempts o == InOrder(A)[L]
           band == [x \in D |-> attempts[x].bands[s]]
<1>1. L \in Nat /\ D = 1..L /\ A \subseteq 1..L /\ a \in 1..L /\ updates \in Seq(D)
  BY AppliedTyped DEF Typed
<1>2. B = A \cup {a}
  <2> DEFINE u == Append(updates, a)
  <2>1. /\ u \in Seq(D) /\ Len(u) = Len(updates) + 1 /\ u[Len(updates) + 1] = a
        /\ \A n \in 1..Len(updates) : u[n] = updates[n]
    BY <1>1, AppendProperties
  <2>2. DOMAIN updates = 1..Len(updates) /\ Len(updates) \in Nat
    BY <1>1, LenProperties
  <2> HIDE DEF u, D
  <2>3. DOMAIN u = 1..(Len(updates) + 1)
    BY <2>1, LenProperties
  <2>4. \A x : (\E n \in DOMAIN u : u[n] = x) <=> (x = a \/ \E n \in DOMAIN updates : updates[n] = x)
    <3> SUFFICES ASSUME NEW x
                 PROVE  (\E n \in DOMAIN u : u[n] = x)
                          <=> (x = a \/ \E n \in DOMAIN updates : updates[n] = x)
      OBVIOUS
    <3>1. ASSUME NEW n \in DOMAIN u, u[n] = x
          PROVE  x = a \/ \E k \in DOMAIN updates : updates[k] = x
      BY <2>1, <2>2, <2>3, <3>1
    <3>2. ASSUME x = a PROVE \E n \in DOMAIN u : u[n] = x
      <4>1. Len(updates) + 1 \in DOMAIN u
        BY <2>2, <2>3
      <4> QED
        BY <2>1, <3>2, <4>1
    <3>3. ASSUME NEW k \in DOMAIN updates, updates[k] = x PROVE \E n \in DOMAIN u : u[n] = x
      <4>1. k \in DOMAIN u /\ u[k] = x
        BY <2>1, <2>2, <2>3, <3>3
      <4> QED
        BY <4>1
    <3> QED
      BY <3>1, <3>2, <3>3
  <2>5. B = {u[n] : n \in DOMAIN u} /\ A = {updates[n] : n \in DOMAIN updates}
    BY DEF Accepted, Applied, u
  <2> QED
    BY <2>4, <2>5
<1> HIDE DEF A, B
<1>3. InOrder(B)[a - 1] = InOrder(A)[a - 1]
  <2>1. a - 1 \in Nat /\ \A i \in 1..(a - 1) : i \in B <=> i \in A
    BY <1>1, <1>2
  <2> QED
    BY <2>1, OrderOfAccepted
<1>4. InOrder(B)[a] = Append(InOrder(B)[a - 1], a)
  <2> DEFINE m == a - 1
  <2>1. m \in Nat /\ m + 1 = a /\ a \in B
    BY <1>1, <1>2
  <2> HIDE DEF m
  <2>2. InOrder(B)[m + 1] = IF m + 1 \in B THEN Append(InOrder(B)[m], m + 1) ELSE InOrder(B)[m]
    BY <2>1, InOrderSteps
  <2>3. InOrder(B)[a] = Append(InOrder(B)[m], a)
    BY <2>1, <2>2
  <2> QED
    BY <2>3 DEF m
<1>5. InOrder(B)[L] = InOrder(B)[a]
  <2> DEFINE k == L - a
  <2>1. k \in Nat /\ a \in Nat /\ a + k = L
    BY <1>1
  <2>2. \A i \in B : i \notin (a + 1)..(a + k)
    <3>1. \A i \in A : i < a /\ i \in Nat
      BY <1>1 DEF A
    <3> QED
      BY <1>1, <1>2, <3>1
  <2> HIDE DEF k, L
  <2>3. InOrder(B)[a + k] = InOrder(B)[a]
    BY <2>1, <2>2, OrderStays
  <2> QED
    BY <2>1, <2>3
<1>6. o = InOrder(A)[a - 1]
  <2> DEFINE k == L - (a - 1) m == a - 1
  <2>1. k \in Nat /\ m \in Nat /\ m + k = L
    BY <1>1
  <2>2. \A i \in A : i \notin (m + 1)..(m + k)
    <3>1. \A i \in A : i < a /\ i \in Nat
      BY <1>1 DEF A
    <3> QED
      BY <1>1, <3>1
  <2> HIDE DEF k, L, m
  <2>3. InOrder(A)[m + k] = InOrder(A)[m]
    BY <2>1, <2>2, OrderStays
  <2> QED
    BY <2>1, <2>3 DEF L, m
<1>7. CanonicalOrder(Append(updates, a)) = Append(o, a) /\ CanonicalOrder(updates) = o
  BY <1>3, <1>4, <1>5, <1>6 DEF CanonicalOrder, A, B, Applied
<1>8. o \in Seq(D)
  <2>1. o \in Seq(Nat) /\ \A i \in DOMAIN o : o[i] \in 1..L
    BY <1>1, InOrderSteps, OrderMembers
  <2> HIDE DEF o, L, D
  <2> QED
    BY <1>1, <2>1, SequenceWithin
<1>9. band \in [D -> BandRange]
  BY BandsTyped
<1>10. Values(updates, s) = [i \in DOMAIN o |-> band[o[i]]]
  <2>1. \A i \in DOMAIN o : o[i] \in D
    BY <1>8
  <2> HIDE DEF o
  <2> QED
    BY <1>7, <2>1 DEF Values
<1>11. Values(Append(updates, a), s) = [i \in DOMAIN Append(o, a) |-> band[Append(o, a)[i]]]
  <2> DEFINE p == Append(o, a)
  <2>1. p \in Seq(D)
    BY <1>8, AppendProperties
  <2>2. \A i \in DOMAIN p : p[i] \in D
    BY <2>1
  <2>3. CanonicalOrder(Append(updates, a)) = p
    BY <1>7
  <2> HIDE DEF p
  <2> QED
    BY <2>2, <2>3 DEF Values, p
<1>12. band[a] = attempts[a].bands[s]
  OBVIOUS
<1> HIDE DEF band, o, D
<1> QED
  BY <1>8, <1>9, <1>10, <1>11, <1>12, MapAppend DEF D

\* AchievedStaysAchieved of every history: a newest essay at or above the target in every
\* criterion never turns an achieved target back into practice.
THEOREM AchievedIsKept == Spec => AchievedStaysAchieved
<1>1. IInv /\ [Next]_vars =>
        [LET a == updates'[Len(updates')] IN
           /\ Len(updates') > Len(updates)
           /\ Observed(skill) = Skills /\ Achieved(target, skill)
           /\ \A b \in Applied : b < a
           /\ \A s \in Skills : attempts[a].bands[s] >= target
           => records'[Len(records')].decision.type = "no_practice"]_vars
  <2> SUFFICES ASSUME IInv, Next, Len(updates') > Len(updates),
                      Observed(skill) = Skills, Achieved(target, skill),
                      \A b \in Applied : b < updates'[Len(updates')],
                      \A s \in Skills : attempts[updates'[Len(updates')]].bands[s] >= target
               PROVE  records'[Len(records')].decision.type = "no_practice"
    OBVIOUS
  <2>1. Typed /\ updates \in Seq(DOMAIN attempts) /\ Len(updates) \in Nat
    BY LenProperties DEF IInv, Typed
  <2>2. PICK a \in 1..MaxAttempts : Apply(a)
    <3>1. updates' # updates
      BY <2>1
    <3>2. ASSUME NEW bands \in [Skills -> Bands] PROVE ~Write(bands)
      BY <3>1 DEF Write
    <3>3. ASSUME NEW n \in 1..MaxAttempts, NEW bands \in [Skills -> Bands] PROVE ~Practise(n, bands)
      BY <3>1 DEF Practise
    <3> QED
      BY <3>2, <3>3 DEF Next
  <2> DEFINE applied == Append(updates, a)
             states == [s \in Skills |-> RebuildSkillState(applied, s)]
             record == PlanV2(target, states, MemoryContext(applied))
  <2>3. a \in DOMAIN attempts /\ updates' = applied /\ records' = Append(records, record)
    BY <2>2 DEF Apply
  <2>4. updates'[Len(updates')] = a
    BY <2>1, <2>3, AppendProperties
  <2>5. (\A b \in Applied : b < a) /\ \A s \in Skills : attempts[a].bands[s] >= target
    BY <2>4
  <2>6. target \in Nat /\ Skills # {}
    BY <2>1, TargetTyped, BandIsNatural, PriorityAssumption DEF HalfBand
  <2>7. updates # << >>
    <3> SUFFICES ASSUME updates = << >> PROVE FALSE
      OBVIOUS
    <3>1. \A s \in Skills : skill[s] = Unobserved
      BY DEF IInv, Rebuilt, RebuildSkillState
    <3> QED
      BY <2>6, <3>1 DEF Observed, Unobserved
  <2>8. ASSUME NEW s \in Skills PROVE states[s].estimate >= target /\ states[s].estimate # None
    <3> DEFINE values == Values(updates, s) v == attempts[a].bands[s] e == EwmaEstimate(values)
    <3>1. values \in Seq(BandRange) /\ Len(values) = Len(updates) /\ v \in BandRange
      BY <2>1, <2>3, ValuesTyped, BandsTyped DEF Typed
    <3>2. values # << >>
      BY <2>1, <2>7, <3>1
    <3>3. skill[s].estimate = Quantize(e)
      BY <2>7 DEF IInv, Rebuilt, RebuildSkillState
    <3>4. Quantize(e) >= target
      BY <3>3 DEF Achieved
    <3>5. EwmaEstimate(Values(applied, s)) = Blend(v, e)
      BY <2>1, <2>3, <2>5, <3>1, <3>2, NewestComesLast, EwmaAppend
    <3>6. e \in Estimate
      BY <3>1, <3>2, EwmaIsEstimate
    <3>7. Quantize(Blend(v, e)) >= target /\ Quantize(Blend(v, e)) \in BandRange
      BY <2>5, <2>6, <3>1, <3>4, <3>6, BlendStaysAbove, BlendEstimate, QuantizeNearest
    <3>8. applied # << >>
      BY <2>1, <2>3, AppendProperties
    <3>9. states[s].estimate = Quantize(Blend(v, e))
      BY <3>5, <3>8 DEF RebuildSkillState
    <3> HIDE DEF states, e, v
    <3> QED
      BY <3>7, <3>9, BandIsNatural, NoneAssumption
  <2>9. Observed(states) = Skills /\ Achieved(target, states)
    <3> HIDE DEF states
    <3> QED
      BY <2>8 DEF Observed, Achieved
  <2>10. NoPracticeReasons(target, states) # {}
    BY <2>9, PracticeIsDue
  <2>11. record.decision = NoPractice(target, states)
    BY <2>10 DEF PlanV2
  <2>12. records'[Len(records')] = record
    <3>1. PICK S : records \in Seq(S)
      BY DEF IInv, Decided
    <3>2. records \in Seq(S \cup {record})
      BY <3>1, SeqMonotonic
    <3> HIDE DEF record
    <3> QED
      BY <2>3, <3>2, AppendProperties
  <2> QED
    BY <2>11, <2>12 DEF NoPractice
<1> QED
  BY <1>1, HistoryInvariant, PTL DEF Spec, AchievedStaysAchieved
=============================================================================

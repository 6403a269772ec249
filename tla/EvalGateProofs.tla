---------------------------- MODULE EvalGateProofs ----------------------------
(***************************************************************************)
(* Proofs about EvalGate for any number of broken contracts and of         *)
(* failures of the infrastructure: the steps in which cases are reset, run *)
(* and recorded, the verdict each of the eleven cases comes to, and what   *)
(* the exit code says of them.                                             *)
(***************************************************************************)
EXTENDS EvalGate, FiniteSetTheorems, TLAPS

-----------------------------------------------------------------------------
(***************************************************************************)
(* The foremost of some members of a sequence                              *)
(***************************************************************************)

\* A non-empty set of naturals has a least element: the intervals from 0 are ordered
\* by inclusion, which is well-founded on finite sets.
LEMMA LeastNatural ==
    ASSUME NEW N \in SUBSET Nat, N # {}
    PROVE  \E m \in N : \A n \in N : m <= n
<1> DEFINE Intervals == {0..n : n \in N}
<1>1. Intervals \subseteq FiniteSubsetsOf(Nat)
  <2> SUFFICES ASSUME NEW n \in N PROVE 0..n \in FiniteSubsetsOf(Nat)
    OBVIOUS
  <2>1. IsFiniteSet(0..n)
    BY FS_Interval
  <2> QED
    BY <2>1 DEF FiniteSubsetsOf
<1>2. Intervals # {}
  OBVIOUS
<1>3. PICK I \in Intervals : \A J \in Intervals : <<J, I>> \notin StrictSubsetOrdering(Nat)
  BY <1>1, <1>2, FS_StrictSubsetOrderingWellFounded, WFMin
<1>4. PICK m \in N : I = 0..m
  OBVIOUS
<1>5. \A n \in N : ~(0..n \subseteq 0..m /\ 0..n # 0..m)
  <2> SUFFICES ASSUME NEW n \in N, 0..n \subseteq 0..m, 0..n # 0..m PROVE FALSE
    OBVIOUS
  <2>1. 0..n \in SUBSET Nat /\ 0..m \in SUBSET Nat
    OBVIOUS
  <2>2. <<0..n, 0..m>> \in StrictSubsetOrdering(Nat)
    BY <2>1 DEF StrictSubsetOrdering
  <2> QED
    BY <1>3, <1>4, <2>2
<1>6. ASSUME NEW n \in N, n < m PROVE FALSE
  <2>1. 0..n \subseteq 0..m
    BY <1>6
  <2>2. m \in 0..m /\ m \notin 0..n
    BY <1>6
  <2> QED
    BY <1>5, <2>1, <2>2
<1> QED
  BY <1>6

\* The first member found is the foremost.
LEMMA ForemostIs ==
    ASSUME NEW seq, DOMAIN seq \in SUBSET Nat, NEW found, NEW n \in DOMAIN seq,
           seq[n] \in found, \A k \in DOMAIN seq : seq[k] \in found => n <= k
    PROVE  Foremost(seq, found) = seq[n]
<1> DEFINE First(m) == /\ seq[m] \in found
                       /\ \A k \in DOMAIN seq : seq[k] \in found => m <= k
           c == CHOOSE m \in DOMAIN seq : First(m)
<1>1. First(n)
  OBVIOUS
<1>2. c \in DOMAIN seq /\ First(c)
  <2> HIDE DEF First
  <2> QED
    BY <1>1
<1>3. c = n
  BY <1>1, <1>2
<1> QED
  BY <1>3 DEF Foremost

\* If anything is found then the foremost is, and nothing found comes before it.
LEMMA ForemostFound ==
    ASSUME NEW seq, DOMAIN seq \in SUBSET Nat, NEW found, NEW m \in DOMAIN seq, seq[m] \in found
    PROVE  \E n \in DOMAIN seq : /\ Foremost(seq, found) = seq[n] /\ seq[n] \in found
                                 /\ \A k \in DOMAIN seq : seq[k] \in found => n <= k
<1> DEFINE N == {k \in DOMAIN seq : seq[k] \in found}
<1>1. N \in SUBSET Nat /\ N # {}
  OBVIOUS
<1>2. PICK n \in N : \A k \in N : n <= k
  BY <1>1, LeastNatural
<1>3. Foremost(seq, found) = seq[n]
  BY <1>2, ForemostIs
<1> QED
  BY <1>2, <1>3

Boundaries == Range(BoundaryOrder)

\* The orders list each boundary, status, severity and case once.
LEMMA Orders ==
    /\ DOMAIN BoundaryOrder = 1..18 /\ \A m, n \in 1..18 : BoundaryOrder[m] = BoundaryOrder[n] => m = n
    /\ DOMAIN Order = 1..11 /\ \A m, n \in 1..11 : Order[m] = Order[n] => m = n
    /\ Len(Order) = 11
    /\ DOMAIN StatusOrder = 1..4 /\ DOMAIN SeverityOrder = 1..4 /\ DOMAIN LifecycleChecks = 1..7
<1>1. DOMAIN BoundaryOrder = 1..18
  BY DEF BoundaryOrder
<1>2. \A m, n \in 1..18 : BoundaryOrder[m] = BoundaryOrder[n] => m = n
  BY DEF BoundaryOrder
<1>3. DOMAIN Order = 1..11 /\ Len(Order) = 11
  BY DEF Order
<1>4. \A m, n \in 1..11 : Order[m] = Order[n] => m = n
  BY DEF Order
<1>5. DOMAIN StatusOrder = 1..4 /\ DOMAIN SeverityOrder = 1..4
  BY DEF StatusOrder, SeverityOrder
<1>6. DOMAIN LifecycleChecks = 1..7
  BY DEF LifecycleChecks
<1> QED
  BY <1>1, <1>2, <1>3, <1>4, <1>5, <1>6

\* There are n numbers from 1 to n.
LEMMA CountTo == \A n \in Nat : IsFiniteSet(1..n) /\ Cardinality(1..n) = n
<1> SUFFICES ASSUME NEW n \in Nat PROVE IsFiniteSet(1..n) /\ Cardinality(1..n) = n
  OBVIOUS
<1>1. IsFiniteSet(1..n)
  BY FS_Interval
<1>2. Cardinality(1..n) = IF 1 > n THEN 0 ELSE n - 1 + 1
  BY FS_Interval
<1> QED
  BY <1>1, <1>2

\* The cases are those in the order, eleven of them.
LEMMA Cases ==
    /\ Registered = Range(Order)
    /\ IsFiniteSet(Registered) /\ Cardinality(Registered) = 11
<1>1. Registered = Range(Order)
  BY DEF Registered, CanonicalCases, Order, Range
<1>2. Order \in Bijection(1..11, Registered)
  <2>1. Order \in [1..11 -> Registered]
    BY <1>1, Orders DEF Range, Order
  <2>2. Order \in Injection(1..11, Registered)
    BY <2>1, Orders DEF Injection, IsInjective
  <2>3. Order \in Surjection(1..11, Registered)
    BY <1>1, <2>1, Orders DEF Range, Surjection
  <2> QED
    BY <2>2, <2>3 DEF Bijection
<1>3. IsFiniteSet(1..11) /\ Cardinality(1..11) = 11
  BY CountTo
<1> QED
  BY <1>1, <1>2, <1>3, FS_Bijection DEF ExistsBijection

\* The position of a boundary in the order.
LEMMA PositionIs == ASSUME NEW n \in 1..18 PROVE Position(BoundaryOrder, BoundaryOrder[n]) = n
BY Orders DEF Position

\* Where the order has the boundaries the cases blame.
LEMMA Positions ==
    /\ Position(BoundaryOrder, "provider_contract") = 2
    /\ Position(BoundaryOrder, "evaluation") = 3
    /\ Position(BoundaryOrder, "persistence") = 4
    /\ Position(BoundaryOrder, "learning_update") = 5
    /\ Position(BoundaryOrder, "state") = 6
    /\ Position(BoundaryOrder, "memory") = 7
    /\ Position(BoundaryOrder, "planner") = 8
    /\ Position(BoundaryOrder, "recommendation") = 9
    /\ Position(BoundaryOrder, "knowledge") = 10
    /\ Position(BoundaryOrder, "practice_generation") = 11
    /\ Position(BoundaryOrder, "practice_submission") = 12
    /\ Position(BoundaryOrder, "agent_trajectory") = 14
    /\ Position(BoundaryOrder, "authority") = 15
    /\ Position(BoundaryOrder, "infrastructure") = 18
<1>1. /\ BoundaryOrder[2] = "provider_contract" /\ BoundaryOrder[3] = "evaluation"
      /\ BoundaryOrder[4] = "persistence" /\ BoundaryOrder[5] = "learning_update"
      /\ BoundaryOrder[6] = "state" /\ BoundaryOrder[7] = "memory"
      /\ BoundaryOrder[8] = "planner" /\ BoundaryOrder[9] = "recommendation"
      /\ BoundaryOrder[10] = "knowledge" /\ BoundaryOrder[11] = "practice_generation"
      /\ BoundaryOrder[12] = "practice_submission" /\ BoundaryOrder[14] = "agent_trajectory"
      /\ BoundaryOrder[15] = "authority" /\ BoundaryOrder[18] = "infrastructure"
  BY DEF BoundaryOrder
<1>2. \A n \in 1..18 : Position(BoundaryOrder, BoundaryOrder[n]) = n
  BY PositionIs
<1>3. /\ 2 \in 1..18 /\ 3 \in 1..18 /\ 4 \in 1..18 /\ 5 \in 1..18 /\ 6 \in 1..18 /\ 7 \in 1..18
      /\ 8 \in 1..18 /\ 9 \in 1..18 /\ 10 \in 1..18 /\ 11 \in 1..18 /\ 12 \in 1..18
      /\ 14 \in 1..18 /\ 15 \in 1..18 /\ 18 \in 1..18
  OBVIOUS
<1> QED
  BY <1>1, <1>2, <1>3

-----------------------------------------------------------------------------
(***************************************************************************)
(* Attribution                                                             *)
(***************************************************************************)

\* An evaluator passes a case and blames nobody, or fails it and blames a boundary.
Passed(f) == f.status = "pass" /\ f.severity = "info" /\ f.boundary = "none"
Failed(f) == f.status = "fail" /\ f.severity \in {"veto", "major"} /\ f.boundary \in Boundaries
Judged(findings) == \A f \in Range(findings) : Passed(f) \/ Failed(f)
Blames(findings) == {f.boundary : f \in {g \in Range(findings) : g.status = "fail"}}

Clear == [status |-> "pass", severity |-> "info", first |-> "none", gateFailed |-> FALSE]
\* The verdict on a case in which the boundaries in blamed were blamed.
Blaming(blamed) ==
    [status : {"fail"}, severity : {"veto", "major"}, first : {Foremost(BoundaryOrder, blamed)},
     gateFailed : {TRUE}]

\* A boundary is not "none".
LEMMA NoneIsNoBoundary == "none" \notin Boundaries
BY Orders DEF Boundaries, BoundaryOrder, Range

\* A case is cleared when every evaluator passes it.
LEMMA AttributionClears ==
    ASSUME NEW findings, Range(findings) # {}, \A f \in Range(findings) : Passed(f)
    PROVE  AttributeFindings(findings) = Clear
<1> DEFINE R == Range(findings)
<1>1. {f.status : f \in R} = {"pass"} /\ {f.severity : f \in R} = {"info"}
  BY DEF Passed
<1>2. Foremost(StatusOrder, {"pass"}) = "pass"
  <2>1. 4 \in DOMAIN StatusOrder /\ StatusOrder[4] = "pass"
        /\ \A k \in DOMAIN StatusOrder : StatusOrder[k] = "pass" => 4 <= k
    BY Orders DEF StatusOrder
  <2>2. DOMAIN StatusOrder \in SUBSET Nat
    BY Orders
  <2> QED
    BY <2>1, <2>2, ForemostIs
<1>3. Foremost(SeverityOrder, {"info"}) = "info"
  <2>1. 4 \in DOMAIN SeverityOrder /\ SeverityOrder[4] = "info"
        /\ \A k \in DOMAIN SeverityOrder : SeverityOrder[k] = "info" => 4 <= k
    BY Orders DEF SeverityOrder
  <2>2. DOMAIN SeverityOrder \in SUBSET Nat
    BY Orders
  <2> QED
    BY <2>1, <2>2, ForemostIs
<1>4. Causes(findings, "pass") = {}
  BY DEF Causes, Passed
<1>5. FirstBoundary(findings, "pass") = "none"
  BY <1>4 DEF FirstBoundary
<1> QED
  BY <1>1, <1>2, <1>3, <1>5 DEF AttributeFindings, Clear

\* A case fails when an evaluator fails it, and blames the earliest of the boundaries blamed.
LEMMA AttributionBlames ==
    ASSUME NEW findings, Judged(findings), Blames(findings) # {}
    PROVE  AttributeFindings(findings) \in Blaming(Blames(findings))
<1> DEFINE R == Range(findings) statuses == {f.status : f \in R} severities == {f.severity : f \in R}
<1>1. PICK g \in R : g.status = "fail"
  BY DEF Blames
<1>2. Failed(g)
  BY <1>1 DEF Judged, Failed, Passed
<1>3. statuses \subseteq {"pass", "fail"} /\ "fail" \in statuses
  BY <1>1 DEF Judged, Passed, Failed
<1>4. Foremost(StatusOrder, statuses) = "fail"
  <2> HIDE DEF statuses
  <2>1. 3 \in DOMAIN StatusOrder /\ StatusOrder[3] = "fail"
        /\ \A k \in DOMAIN StatusOrder : StatusOrder[k] \in {"pass", "fail"} => 3 <= k
    BY Orders DEF StatusOrder
  <2>2. \A k \in DOMAIN StatusOrder : StatusOrder[k] \in statuses => 3 <= k
    BY <1>3, <2>1
  <2>3. DOMAIN StatusOrder \in SUBSET Nat
    BY Orders
  <2> QED
    BY <1>3, <2>1, <2>2, <2>3, ForemostIs
<1>5. severities \subseteq {"veto", "major", "info"} /\ g.severity \in severities
  BY <1>1 DEF Judged, Passed, Failed
<1>6. g.severity \in {"veto", "major"}
  BY <1>2 DEF Failed
<1>7. Foremost(SeverityOrder, severities) \in {"veto", "major"}
  <2> HIDE DEF severities
  <2>1. SeverityOrder[1] = "veto" /\ SeverityOrder[2] = "major" /\ DOMAIN SeverityOrder = 1..4
    BY Orders DEF SeverityOrder
  <2>2. PICK m \in 1..2 : SeverityOrder[m] = g.severity
    BY <1>6, <2>1
  <2>3. DOMAIN SeverityOrder \in SUBSET Nat
    BY Orders
  <2>4. PICK n \in DOMAIN SeverityOrder :
          /\ Foremost(SeverityOrder, severities) = SeverityOrder[n]
          /\ \A k \in DOMAIN SeverityOrder : SeverityOrder[k] \in severities => n <= k
    BY <1>5, <2>1, <2>2, <2>3, ForemostFound
  <2>5. n <= m
    BY <1>5, <2>1, <2>2, <2>4
  <2>6. n \in 1..2
    BY <2>1, <2>2, <2>4, <2>5
  <2> QED
    BY <2>1, <2>4, <2>6
<1>8. FirstBoundary(findings, "fail") = Foremost(BoundaryOrder, Blames(findings))
  <2>1. Causes(findings, "fail") = {f \in R : f.status = "fail"}
    <3>1. ASSUME NEW f \in R, f.status = "fail" PROVE f.boundary # "none"
      BY <3>1, NoneIsNoBoundary DEF Judged, Passed, Failed
    <3> QED
      BY <3>1 DEF Causes
  <2> QED
    BY <1>1, <2>1 DEF FirstBoundary, Blames
<1> HIDE DEF severities, statuses
<1>9. AttributeFindings(findings) =
        [status |-> "fail", severity |-> Foremost(SeverityOrder, severities),
         first |-> Foremost(BoundaryOrder, Blames(findings)), gateFailed |-> TRUE]
  BY <1>4, <1>7, <1>8 DEF AttributeFindings, severities, statuses
<1> QED
  BY <1>7, <1>9 DEF Blaming

-----------------------------------------------------------------------------
(***************************************************************************)
(* What the evaluators say of each case                                    *)
(***************************************************************************)

Evaluators(findings) == {f.evaluator : f \in Range(findings)}
Blame(f) == IF f.status = "fail" THEN {f.boundary} ELSE {}
If(wrong, boundaries) == IF wrong THEN boundaries ELSE {}

\* What an evaluator says is a pass or a failure.
LEMMA Judgement ==
    ASSUME NEW e, NEW wrong \in BOOLEAN, NEW severity \in {"veto", "major"},
           NEW boundary \in Boundaries
    PROVE  LET f == Judge(e, wrong, severity, boundary) IN
           /\ Passed(f) \/ Failed(f)
           /\ Blame(f) = If(wrong, {boundary})
           /\ f.evaluator = e
BY DEF Judge, Finding, Passed, Failed, Blame, If

\* The boundaries the evaluators and the lifecycle checks name are boundaries.
LEMMA NamedBoundaries ==
    {"provider_contract", "evaluation", "persistence", "learning_update", "state", "memory",
     "recommendation", "knowledge", "practice_generation", "agent_trajectory", "authority",
     "infrastructure"} \subseteq Boundaries
<1>1. /\ BoundaryOrder[2] = "provider_contract" /\ BoundaryOrder[3] = "evaluation"
      /\ BoundaryOrder[4] = "persistence" /\ BoundaryOrder[5] = "learning_update"
      /\ BoundaryOrder[6] = "state" /\ BoundaryOrder[7] = "memory"
      /\ BoundaryOrder[9] = "recommendation" /\ BoundaryOrder[10] = "knowledge"
      /\ BoundaryOrder[11] = "practice_generation" /\ BoundaryOrder[14] = "agent_trajectory"
      /\ BoundaryOrder[15] = "authority" /\ BoundaryOrder[18] = "infrastructure"
  BY DEF BoundaryOrder
<1>2. \A n \in 1..18 : BoundaryOrder[n] \in Boundaries
  BY Orders DEF Boundaries, Range
<1>3. /\ 2 \in 1..18 /\ 3 \in 1..18 /\ 4 \in 1..18 /\ 5 \in 1..18 /\ 6 \in 1..18 /\ 7 \in 1..18
      /\ 9 \in 1..18 /\ 10 \in 1..18 /\ 11 \in 1..18 /\ 14 \in 1..18 /\ 15 \in 1..18 /\ 18 \in 1..18
  OBVIOUS
<1> QED
  BY <1>1, <1>2, <1>3

\* Most cases are judged by two evaluators.
LEMMA TwoFindings ==
    ASSUME NEW f, NEW g, Passed(f) \/ Failed(f), Passed(g) \/ Failed(g)
    PROVE  /\ Judged(<<f, g>>) /\ Range(<<f, g>>) # {}
           /\ Blames(<<f, g>>) = Blame(f) \cup Blame(g)
           /\ Evaluators(<<f, g>>) = {f.evaluator, g.evaluator}
<1>1. Range(<<f, g>>) = {f, g}
  <2>1. DOMAIN <<f, g>> = 1..2 /\ <<f, g>>[1] = f /\ <<f, g>>[2] = g
    OBVIOUS
  <2> QED
    BY <2>1 DEF Range
<1>2. Blames(<<f, g>>) = Blame(f) \cup Blame(g)
  BY <1>1 DEF Blames, Blame
<1> QED
  BY <1>1, <1>2 DEF Judged, Evaluators

\* What multi_episode appends to its two.
LEMMA ThreeFindings ==
    ASSUME NEW f, NEW g, NEW h, Passed(f) \/ Failed(f), Passed(g) \/ Failed(g),
           Passed(h) \/ Failed(h)
    PROVE  LET e == Append(<<f, g>>, h) IN
           /\ Judged(e) /\ Range(e) # {}
           /\ Blames(e) = Blame(f) \cup Blame(g) \cup Blame(h)
           /\ Evaluators(e) = {f.evaluator, g.evaluator, h.evaluator}
<1> DEFINE e == Append(<<f, g>>, h)
<1>1. Range(e) = {f, g, h}
  <2>1. DOMAIN e = 1..3 /\ e[1] = f /\ e[2] = g /\ e[3] = h
    OBVIOUS
  <2> HIDE DEF e
  <2> QED
    BY <2>1 DEF Range
<1> HIDE DEF e
<1>2. Blames(e) = Blame(f) \cup Blame(g) \cup Blame(h)
  BY <1>1 DEF Blames, Blame
<1> QED
  BY <1>1, <1>2 DEF Judged, Evaluators, e

LifecycleBroken ==
    {"update_twice", "replay_duplicates", "arrival_state", "memory_order", "current_update",
     "practice_owner", "writing_read"}

\* The lifecycle evaluator fails when one of its checks does, and blames no later boundary
\* than the layer of any contract it checks.
LEMMA LifecycleJudgement ==
    ASSUME NEW b
    PROVE  LET f == EvaluateLifecycle(b) IN
           /\ Passed(f) \/ Failed(f)
           /\ f.evaluator = "lifecycle"
           /\ Blame(f) = {} <=> b \cap LifecycleBroken = {}
           /\ \A k \in b \cap LifecycleBroken : \E x \in Blame(f) :
                Position(BoundaryOrder, x) <= Position(BoundaryOrder, Layer[k])
<1> DEFINE f == EvaluateLifecycle(b)
           failed == {check \in Range(LifecycleChecks) : check.broken \in b}
           first == Foremost(LifecycleChecks, failed)
           C == LifecycleChecks
<1>1. /\ DOMAIN C = 1..7 /\ DOMAIN C \in SUBSET Nat
      /\ Range(C) = {C[1], C[2], C[3], C[4], C[5], C[6], C[7]}
  BY Orders DEF Range
<1>2. /\ C[1].broken = "update_twice" /\ C[2].broken = "replay_duplicates"
      /\ C[3].broken = "arrival_state" /\ C[4].broken = "memory_order"
      /\ C[5].broken = "current_update" /\ C[6].broken = "practice_owner"
      /\ C[7].broken = "writing_read"
  BY DEF LifecycleChecks, LifecycleCheck
<1>3. /\ C[1].boundary = "evaluation" /\ C[2].boundary = "learning_update"
      /\ C[3].boundary = "state" /\ C[4].boundary = "memory"
      /\ C[5].boundary = "recommendation" /\ C[6].boundary = "practice_generation"
      /\ C[7].boundary = "infrastructure"
  BY DEF LifecycleChecks, LifecycleCheck
<1>4. \A n \in 1..7 : C[n].severity \in {"veto", "major"}
  BY DEF LifecycleChecks, LifecycleCheck
<1>5. \A n \in 1..7 : \/ Layer[C[n].broken] = C[n].boundary
                      \/ C[n].boundary = "evaluation" /\ Layer[C[n].broken] = "learning_update"
  BY <1>2, <1>3 DEF Layer
<1>6. \A m, n \in 1..7 : m <= n =>
        Position(BoundaryOrder, C[m].boundary) <= Position(BoundaryOrder, C[n].boundary)
  <2> HIDE DEF C
  <2> DEFINE p == [n \in 1..7 |-> Position(BoundaryOrder, C[n].boundary)]
  <2>1. p[1] = 3 /\ p[2] = 5 /\ p[3] = 6 /\ p[4] = 7 /\ p[5] = 9 /\ p[6] = 11 /\ p[7] = 18
    BY <1>3, Positions
  <2> HIDE DEF p
  <2>2. \A m, n \in 1..7 : m <= n => p[m] <= p[n]
    BY <2>1
  <2> QED
    BY <2>2 DEF p
<1>7. \A n \in 1..7 : C[n].boundary \in Boundaries
  BY <1>3, NamedBoundaries
<1>8. \A k : k \in LifecycleBroken <=> \E n \in 1..7 : C[n].broken = k
  BY <1>2 DEF LifecycleBroken
<1>9. failed = {} <=> b \cap LifecycleBroken = {}
  BY <1>1, <1>8 DEF Range
<1>10. CASE failed = {}
  <2>1. f = Finding("lifecycle", "pass", "info", "none")
    BY <1>10 DEF EvaluateLifecycle, Judge
  <2>2. Passed(f) /\ f.evaluator = "lifecycle" /\ Blame(f) = {}
    BY <2>1 DEF Passed, Blame, Finding
  <2> QED
    BY <1>9, <1>10, <2>2
<1>11. CASE failed # {}
  <2>1. PICK m \in 1..7 : C[m] \in failed
    BY <1>1, <1>11 DEF Range
  <2>2. PICK n \in 1..7 : first = C[n] /\ \A k \in 1..7 : C[k] \in failed => n <= k
    <3> HIDE DEF failed, C
    <3> QED
      BY <1>1, <2>1, ForemostFound DEF C
  <2>3. f = Finding("lifecycle", "fail", C[n].severity, C[n].boundary)
    BY <1>11, <2>2 DEF EvaluateLifecycle, Judge
  <2>4. f.evaluator = "lifecycle" /\ Failed(f) /\ Blame(f) = {C[n].boundary}
    BY <1>4, <1>7, <2>3 DEF Failed, Blame, Finding
  <2>5. ASSUME NEW k \in b \cap LifecycleBroken
        PROVE  Position(BoundaryOrder, C[n].boundary) <= Position(BoundaryOrder, Layer[k])
    <3>1. PICK i \in 1..7 : C[i].broken = k
      BY <1>8
    <3>2. C[i] \in failed
      BY <1>1, <3>1 DEF Range
    <3> HIDE DEF C, failed
    <3>3. n <= i
      BY <2>2, <3>2
    <3>4. \/ Layer[k] = C[i].boundary
          \/ C[i].boundary = "evaluation" /\ Layer[k] = "learning_update"
      BY <1>5, <3>1
    <3>5. CASE Layer[k] = C[i].boundary
      BY <1>6, <3>3, <3>5
    <3>6. CASE C[i].boundary = "evaluation" /\ Layer[k] = "learning_update"
      <4>1. /\ Position(BoundaryOrder, C[i].boundary) = 3
            /\ Position(BoundaryOrder, Layer[k]) = 5
        BY <3>6, Positions
      <4>2. Position(BoundaryOrder, C[n].boundary) \in Nat
        BY <1>3, Positions
      <4>3. Position(BoundaryOrder, C[n].boundary) <= Position(BoundaryOrder, C[i].boundary)
        BY <1>6, <3>3
      <4> QED
        BY <4>1, <4>2, <4>3
    <3> QED
      BY <3>4, <3>5, <3>6
  <2> QED
    BY <1>9, <1>11, <2>4, <2>5
<1> QED
  BY <1>10, <1>11

-----------------------------------------------------------------------------
(* Each case in turn: the boundaries it blames, with contracts b broken.  *)

Lifecycle(b) == Blame(EvaluateLifecycle(b))
\* The lifecycle evaluator sees the owner of a practice only where one was built.
WithoutPractice(b) == b \ {"practice_owner"}
Blamed(c, b, rows_) ==
    LET writes == rows_ \/ "exhaustion_writes" \in b
        unsafe == b \cap (Replays \cup {"current_update"}) # {}
    IN CASE c = "agent_bounded" ->
              If(b \cap {"unbounded_turn", "misordered_turn"} # {}, {"agent_trajectory"})
         [] c = "knowledge_unknown" -> If("unknown_grounded" \in b, {"knowledge", "authority"})
         [] c = "learning_update_replay" ->
              If(b \cap Replays # {}, {"persistence"}) \cup Lifecycle(WithoutPractice(b))
         [] c = "memory_planner_tie" ->
              If("memory_weighs" \in b, {"memory"}) \cup Lifecycle(WithoutPractice(b))
         [] c = "multi_episode" -> If(unsafe, {"learning_update", "authority"}) \cup Lifecycle(b)
         [] c = "practice_stale" ->
              If("stale_accepted" \in b, {"practice_generation", "authority"})
         [] c = "product_band" -> If("provider_band" \in b, {"evaluation", "authority"})
         [] c = "provider_invalid" ->
              If("invalid_output" \in b, {"provider_contract", "authority"})
         [] c = "recommendation_cross" ->
              If("cross_learner" \in b, {"recommendation", "authority"})
         [] c = "retry_exhaustion" ->
              If(writes, {"provider_contract"}) \cup If(writes \/ "retry_count" \in b, {"authority"})
         [] c = "state_late_arrival" ->
              If("arrival_state" \in b, {"state"}) \cup Lifecycle(WithoutPractice(b))

\* Findings that are all judgements, say who is to blame and come from the evaluators asked for.
Says(findings, blamed, evaluators) ==
    /\ Judged(findings) /\ Range(findings) # {}
    /\ Blames(findings) = blamed
    /\ Evaluators(findings) = evaluators

\* A case's outcome is blamed on the boundary of its category, as severely as the case.
LEMMA Outcome ==
    ASSUME NEW c \in Registered, NEW wrong \in BOOLEAN,
           CanonicalCases[c].severity \in {"veto", "major"},
           CategoryBoundary(CanonicalCases[c].category) \in Boundaries
    PROVE  LET f == EvaluateOutcome(c, wrong) IN
           /\ Passed(f) \/ Failed(f)
           /\ Blame(f) = If(wrong, {CategoryBoundary(CanonicalCases[c].category)})
           /\ f.evaluator = "outcome"
BY Judgement DEF EvaluateOutcome

\* The authority evaluator only ever blames the authority.
LEMMA Authority ==
    ASSUME NEW wrong \in BOOLEAN
    PROVE  LET f == EvaluateAuthority(wrong) IN
           /\ Passed(f) \/ Failed(f)
           /\ Blame(f) = If(wrong, {"authority"})
           /\ f.evaluator = "authority"
BY Judgement, NamedBoundaries DEF EvaluateAuthority

\* The boundary of each case's category.
LEMMA Categories ==
    \A c \in Registered :
      /\ CanonicalCases[c].severity \in {"veto", "major"}
      /\ CategoryBoundary(CanonicalCases[c].category) \in Boundaries
<1>1. \A c \in Registered : CanonicalCases[c].severity \in {"veto", "major"}
  BY DEF Registered, CanonicalCases, Case
<1>2. \A c \in Registered : CategoryBoundary(CanonicalCases[c].category) \in
        {"agent_trajectory", "knowledge", "persistence", "memory", "learning_update",
         "practice_generation", "evaluation", "provider_contract", "recommendation", "state"}
  BY DEF Registered, CanonicalCases, Case, CategoryBoundary
<1> QED
  BY <1>1, <1>2, NamedBoundaries

\* A case judged by its outcome and by the authority it shows.
LEMMA OutcomeAndAuthority ==
    ASSUME NEW c \in Registered, NEW wrong \in BOOLEAN, NEW late \in BOOLEAN
    PROVE  Says(<<EvaluateOutcome(c, wrong), EvaluateAuthority(late)>>,
                If(wrong, {CategoryBoundary(CanonicalCases[c].category)})
                  \cup If(late, {"authority"}),
                {"outcome", "authority"})
<1> DEFINE f == EvaluateOutcome(c, wrong) g == EvaluateAuthority(late)
<1>1. /\ Passed(f) \/ Failed(f)
      /\ Blame(f) = If(wrong, {CategoryBoundary(CanonicalCases[c].category)})
      /\ f.evaluator = "outcome"
  BY Outcome, Categories
<1>2. /\ Passed(g) \/ Failed(g)
      /\ Blame(g) = If(late, {"authority"})
      /\ g.evaluator = "authority"
  BY Authority
<1> HIDE DEF f, g
<1>3. /\ Judged(<<f, g>>) /\ Range(<<f, g>>) # {}
      /\ Blames(<<f, g>>) = Blame(f) \cup Blame(g)
      /\ Evaluators(<<f, g>>) = {f.evaluator, g.evaluator}
  BY <1>1, <1>2, TwoFindings
<1> QED
  BY <1>1, <1>2, <1>3 DEF Says, f, g

\* A case judged by its outcome and by its lifecycle.
LEMMA OutcomeAndLifecycle ==
    ASSUME NEW c \in Registered, NEW wrong \in BOOLEAN, NEW b
    PROVE  Says(<<EvaluateOutcome(c, wrong), EvaluateLifecycle(b)>>,
                If(wrong, {CategoryBoundary(CanonicalCases[c].category)}) \cup Lifecycle(b),
                {"outcome", "lifecycle"})
<1> DEFINE f == EvaluateOutcome(c, wrong) g == EvaluateLifecycle(b)
<1>1. /\ Passed(f) \/ Failed(f)
      /\ Blame(f) = If(wrong, {CategoryBoundary(CanonicalCases[c].category)})
      /\ f.evaluator = "outcome"
  BY Outcome, Categories
<1>2. /\ Passed(g) \/ Failed(g)
      /\ Blame(g) = Lifecycle(b)
      /\ g.evaluator = "lifecycle"
  BY LifecycleJudgement DEF Lifecycle
<1> HIDE DEF f, g
<1>3. /\ Judged(<<f, g>>) /\ Range(<<f, g>>) # {}
      /\ Blames(<<f, g>>) = Blame(f) \cup Blame(g)
      /\ Evaluators(<<f, g>>) = {f.evaluator, g.evaluator}
  BY <1>1, <1>2, TwoFindings
<1> QED
  BY <1>1, <1>2, <1>3 DEF Says, f, g

\* What each case's evidence says, whatever contracts are broken: it comes from the evaluators
\* the corpus asks for, and blames the boundaries listed above.
LEMMA EvidenceSays ==
    ASSUME NEW c \in Registered, NEW b, NEW r \in BOOLEAN
    PROVE  Says(Evidence(c, b, r), Blamed(c, b, r), CanonicalCases[c].evaluators)
<1>1. CASE c = "provider_invalid"
  <2> DEFINE wrong == "invalid_output" \in b
  <2>1. wrong \in BOOLEAN
    OBVIOUS
  <2>2. Evidence(c, b, r) = <<EvaluateOutcome(c, wrong), EvaluateAuthority(wrong)>>
    BY <1>1 DEF Evidence, ProviderInvalid, Both
  <2>3. Blamed(c, b, r) = If(wrong, {"provider_contract", "authority"})
    BY <1>1 DEF Blamed
  <2>4. /\ CategoryBoundary(CanonicalCases[c].category) = "provider_contract"
        /\ CanonicalCases[c].evaluators = {"outcome", "authority"}
    BY <1>1 DEF CategoryBoundary, CanonicalCases, Case
  <2> HIDE DEF wrong
  <2>5. Says(<<EvaluateOutcome(c, wrong), EvaluateAuthority(wrong)>>,
             If(wrong, {"provider_contract"}) \cup If(wrong, {"authority"}), {"outcome", "authority"})
    BY <2>1, <2>4, OutcomeAndAuthority
  <2>6. If(wrong, {"provider_contract"}) \cup If(wrong, {"authority"}) = If(wrong, {"provider_contract", "authority"})
    BY DEF If
  <2> QED
    BY <2>2, <2>3, <2>4, <2>5, <2>6
<1>2. CASE c = "product_band"
  <2> DEFINE wrong == "provider_band" \in b
  <2>1. wrong \in BOOLEAN
    OBVIOUS
  <2>2. Evidence(c, b, r) = <<EvaluateOutcome(c, wrong), EvaluateAuthority(wrong)>>
    BY <1>2 DEF Evidence, ProductBand, Both
  <2>3. Blamed(c, b, r) = If(wrong, {"evaluation", "authority"})
    BY <1>2 DEF Blamed
  <2>4. /\ CategoryBoundary(CanonicalCases[c].category) = "evaluation"
        /\ CanonicalCases[c].evaluators = {"outcome", "authority"}
    BY <1>2 DEF CategoryBoundary, CanonicalCases, Case
  <2> HIDE DEF wrong
  <2>5. Says(<<EvaluateOutcome(c, wrong), EvaluateAuthority(wrong)>>,
             If(wrong, {"evaluation"}) \cup If(wrong, {"authority"}), {"outcome", "authority"})
    BY <2>1, <2>4, OutcomeAndAuthority
  <2>6. If(wrong, {"evaluation"}) \cup If(wrong, {"authority"}) = If(wrong, {"evaluation", "authority"})
    BY DEF If
  <2> QED
    BY <2>2, <2>3, <2>4, <2>5, <2>6
<1>3. CASE c = "recommendation_cross"
  <2> DEFINE wrong == "cross_learner" \in b
  <2>1. wrong \in BOOLEAN
    OBVIOUS
  <2>2. Evidence(c, b, r) = <<EvaluateOutcome(c, wrong), EvaluateAuthority(wrong)>>
    BY <1>3 DEF Evidence, CrossLearner, Both
  <2>3. Blamed(c, b, r) = If(wrong, {"recommendation", "authority"})
    BY <1>3 DEF Blamed
  <2>4. /\ CategoryBoundary(CanonicalCases[c].category) = "recommendation"
        /\ CanonicalCases[c].evaluators = {"outcome", "authority"}
    BY <1>3 DEF CategoryBoundary, CanonicalCases, Case
  <2> HIDE DEF wrong
  <2>5. Says(<<EvaluateOutcome(c, wrong), EvaluateAuthority(wrong)>>,
             If(wrong, {"recommendation"}) \cup If(wrong, {"authority"}), {"outcome", "authority"})
    BY <2>1, <2>4, OutcomeAndAuthority
  <2>6. If(wrong, {"recommendation"}) \cup If(wrong, {"authority"}) = If(wrong, {"recommendation", "authority"})
    BY DEF If
  <2> QED
    BY <2>2, <2>3, <2>4, <2>5, <2>6
<1>4. CASE c = "practice_stale"
  <2> DEFINE wrong == "stale_accepted" \in b
  <2>1. wrong \in BOOLEAN
    OBVIOUS
  <2>2. Evidence(c, b, r) = <<EvaluateOutcome(c, wrong), EvaluateAuthority(wrong)>>
    BY <1>4 DEF Evidence, StalePractice, Both
  <2>3. Blamed(c, b, r) = If(wrong, {"practice_generation", "authority"})
    BY <1>4 DEF Blamed
  <2>4. /\ CategoryBoundary(CanonicalCases[c].category) = "practice_generation"
        /\ CanonicalCases[c].evaluators = {"outcome", "authority"}
    BY <1>4 DEF CategoryBoundary, CanonicalCases, Case
  <2> HIDE DEF wrong
  <2>5. Says(<<EvaluateOutcome(c, wrong), EvaluateAuthority(wrong)>>,
             If(wrong, {"practice_generation"}) \cup If(wrong, {"authority"}), {"outcome", "authority"})
    BY <2>1, <2>4, OutcomeAndAuthority
  <2>6. If(wrong, {"practice_generation"}) \cup If(wrong, {"authority"}) = If(wrong, {"practice_generation", "authority"})
    BY DEF If
  <2> QED
    BY <2>2, <2>3, <2>4, <2>5, <2>6
<1>5. CASE c = "retry_exhaustion"
  <2> DEFINE writes == r \/ "exhaustion_writes" \in b
             late == writes \/ "retry_count" \in b
  <2>1. writes \in BOOLEAN /\ late \in BOOLEAN
    OBVIOUS
  <2>2. Evidence(c, b, r) = <<EvaluateOutcome(c, writes), EvaluateAuthority(late)>>
    BY <1>5 DEF Evidence, RetryExhaustion
  <2>3. Blamed(c, b, r) = If(writes, {"provider_contract"}) \cup If(late, {"authority"})
    BY <1>5 DEF Blamed
  <2>4. /\ CategoryBoundary(CanonicalCases[c].category) = "provider_contract"
        /\ CanonicalCases[c].evaluators = {"outcome", "authority"}
    BY <1>5 DEF CategoryBoundary, CanonicalCases, Case
  <2> HIDE DEF writes, late
  <2>5. Says(<<EvaluateOutcome(c, writes), EvaluateAuthority(late)>>,
             If(writes, {"provider_contract"}) \cup If(late, {"authority"}),
             {"outcome", "authority"})
    BY <2>1, <2>4, OutcomeAndAuthority
  <2> QED
    BY <2>2, <2>3, <2>4, <2>5
<1>6. CASE c = "learning_update_replay"
  <2> DEFINE wrong == b \cap Replays # {}
  <2>1. wrong \in BOOLEAN
    OBVIOUS
  <2>2. BuildLifecycle(c, b) = WithoutPractice(b)
    BY <1>6 DEF BuildLifecycle, WithPractice, WithoutPractice
  <2>3. Evidence(c, b, r) = <<EvaluateOutcome(c, wrong), EvaluateLifecycle(WithoutPractice(b))>>
    BY <1>6, <2>2 DEF Evidence, IdempotentReplay, WithLifecycle
  <2>4. Blamed(c, b, r) = If(wrong, {"persistence"}) \cup Lifecycle(WithoutPractice(b))
    BY <1>6 DEF Blamed
  <2>5. /\ CategoryBoundary(CanonicalCases[c].category) = "persistence"
        /\ CanonicalCases[c].evaluators = {"outcome", "lifecycle"}
    BY <1>6 DEF CategoryBoundary, CanonicalCases, Case
  <2> HIDE DEF wrong
  <2>6. Says(<<EvaluateOutcome(c, wrong), EvaluateLifecycle(WithoutPractice(b))>>,
             If(wrong, {"persistence"}) \cup Lifecycle(WithoutPractice(b)), {"outcome", "lifecycle"})
    BY <2>1, <2>5, OutcomeAndLifecycle
  <2> QED
    BY <2>3, <2>4, <2>5, <2>6
<1>7. CASE c = "state_late_arrival"
  <2> DEFINE wrong == "arrival_state" \in b
  <2>1. wrong \in BOOLEAN
    OBVIOUS
  <2>2. BuildLifecycle(c, b) = WithoutPractice(b)
    BY <1>7 DEF BuildLifecycle, WithPractice, WithoutPractice
  <2>3. Evidence(c, b, r) = <<EvaluateOutcome(c, wrong), EvaluateLifecycle(WithoutPractice(b))>>
    BY <1>7, <2>2 DEF Evidence, LateArrival, WithLifecycle
  <2>4. Blamed(c, b, r) = If(wrong, {"state"}) \cup Lifecycle(WithoutPractice(b))
    BY <1>7 DEF Blamed
  <2>5. /\ CategoryBoundary(CanonicalCases[c].category) = "state"
        /\ CanonicalCases[c].evaluators = {"outcome", "lifecycle"}
    BY <1>7 DEF CategoryBoundary, CanonicalCases, Case
  <2> HIDE DEF wrong
  <2>6. Says(<<EvaluateOutcome(c, wrong), EvaluateLifecycle(WithoutPractice(b))>>,
             If(wrong, {"state"}) \cup Lifecycle(WithoutPractice(b)), {"outcome", "lifecycle"})
    BY <2>1, <2>5, OutcomeAndLifecycle
  <2> QED
    BY <2>3, <2>4, <2>5, <2>6
<1>8. CASE c = "memory_planner_tie"
  <2> DEFINE wrong == "memory_weighs" \in b
  <2>1. wrong \in BOOLEAN
    OBVIOUS
  <2>2. BuildLifecycle(c, b) = WithoutPractice(b)
    BY <1>8 DEF BuildLifecycle, WithPractice, WithoutPractice
  <2>3. Evidence(c, b, r) = <<EvaluateOutcome(c, wrong), EvaluateLifecycle(WithoutPractice(b))>>
    BY <1>8, <2>2 DEF Evidence, MemoryPlannerTie, WithLifecycle
  <2>4. Blamed(c, b, r) = If(wrong, {"memory"}) \cup Lifecycle(WithoutPractice(b))
    BY <1>8 DEF Blamed
  <2>5. /\ CategoryBoundary(CanonicalCases[c].category) = "memory"
        /\ CanonicalCases[c].evaluators = {"outcome", "lifecycle"}
    BY <1>8 DEF CategoryBoundary, CanonicalCases, Case
  <2> HIDE DEF wrong
  <2>6. Says(<<EvaluateOutcome(c, wrong), EvaluateLifecycle(WithoutPractice(b))>>,
             If(wrong, {"memory"}) \cup Lifecycle(WithoutPractice(b)), {"outcome", "lifecycle"})
    BY <2>1, <2>5, OutcomeAndLifecycle
  <2> QED
    BY <2>3, <2>4, <2>5, <2>6
<1>9. CASE c = "knowledge_unknown"
  <2> DEFINE grounded == "unknown_grounded" \in b
             f == ExpectedFailClosed(grounded) g == EvaluateAuthority(grounded)
  <2>1. grounded \in BOOLEAN
    OBVIOUS
  <2>2. Evidence(c, b, r) = <<f, g>>
    BY <1>9 DEF Evidence, UnknownKnowledge
  <2>3. Blamed(c, b, r) = If(grounded, {"knowledge", "authority"})
    BY <1>9 DEF Blamed
  <2>4. CanonicalCases[c].evaluators = {"knowledge_grounding", "authority"}
    BY <1>9 DEF CanonicalCases, Case
  <2> HIDE DEF grounded
  <2>5. /\ Passed(f) \/ Failed(f)
        /\ Blame(f) = If(grounded, {"knowledge"})
        /\ f.evaluator = "knowledge_grounding"
    BY <2>1, Judgement, NamedBoundaries DEF ExpectedFailClosed
  <2>6. /\ Passed(g) \/ Failed(g)
        /\ Blame(g) = If(grounded, {"authority"})
        /\ g.evaluator = "authority"
    BY <2>1, Authority
  <2>7. Blame(f) \cup Blame(g) = If(grounded, {"knowledge", "authority"})
    BY <2>5, <2>6 DEF If
  <2> HIDE DEF f, g
  <2>8. /\ Judged(<<f, g>>) /\ Range(<<f, g>>) # {}
        /\ Blames(<<f, g>>) = Blame(f) \cup Blame(g)
        /\ Evaluators(<<f, g>>) = {f.evaluator, g.evaluator}
    BY <2>5, <2>6, TwoFindings
  <2> QED
    BY <2>2, <2>3, <2>4, <2>5, <2>6, <2>7, <2>8 DEF Says
<1>10. CASE c = "agent_bounded"
  <2> DEFINE wrong == b \cap {"unbounded_turn", "misordered_turn"} # {}
             severity == IF "unbounded_turn" \in b THEN "veto" ELSE "major"
             f == EvaluateTrajectory(b) g == EvaluateOutcome(c, FALSE)
  <2>1. wrong \in BOOLEAN /\ severity \in {"veto", "major"}
    OBVIOUS
  <2>2. Evidence(c, b, r) = <<f, g>>
    BY <1>10 DEF Evidence, BoundedAgent
  <2>3. Blamed(c, b, r) = If(wrong, {"agent_trajectory"})
    BY <1>10 DEF Blamed
  <2>4. CanonicalCases[c].evaluators = {"trajectory", "outcome"}
    BY <1>10 DEF CanonicalCases, Case
  <2>9. f = Judge("trajectory", wrong, severity, "agent_trajectory")
    BY DEF EvaluateTrajectory
  <2> HIDE DEF wrong, severity
  <2>5. /\ Passed(f) \/ Failed(f)
        /\ Blame(f) = If(wrong, {"agent_trajectory"})
        /\ f.evaluator = "trajectory"
    BY <2>1, <2>9, Judgement, NamedBoundaries
  <2>6. /\ Passed(g) \/ Failed(g)
        /\ Blame(g) = If(FALSE, {CategoryBoundary(CanonicalCases[c].category)})
        /\ g.evaluator = "outcome"
    BY Outcome, Categories
  <2>7. Blame(f) \cup Blame(g) = If(wrong, {"agent_trajectory"})
    BY <2>5, <2>6 DEF If
  <2> HIDE DEF f, g
  <2>8. /\ Judged(<<f, g>>) /\ Range(<<f, g>>) # {}
        /\ Blames(<<f, g>>) = Blame(f) \cup Blame(g)
        /\ Evaluators(<<f, g>>) = {f.evaluator, g.evaluator}
    BY <2>5, <2>6, TwoFindings
  <2> QED
    BY <2>2, <2>3, <2>4, <2>5, <2>6, <2>7, <2>8 DEF Says
<1>11. CASE c = "multi_episode"
  <2> DEFINE unsafe == b \cap (Replays \cup {"current_update"}) # {}
             f == EvaluateOutcome(c, unsafe) g == EvaluateLifecycle(b) h == EvaluateAuthority(unsafe)
  <2>1. unsafe \in BOOLEAN
    OBVIOUS
  <2>2. BuildLifecycle(c, b) = b
    BY <1>11 DEF BuildLifecycle, WithPractice
  <2>3. Evidence(c, b, r) = Append(<<f, g>>, h)
    BY <1>11, <2>2 DEF Evidence, MultiEpisode, WithLifecycle
  <2>4. Blamed(c, b, r) = If(unsafe, {"learning_update", "authority"}) \cup Lifecycle(b)
    BY <1>11 DEF Blamed
  <2>5. /\ CategoryBoundary(CanonicalCases[c].category) = "learning_update"
        /\ CanonicalCases[c].evaluators = {"outcome", "lifecycle", "authority"}
    BY <1>11 DEF CategoryBoundary, CanonicalCases, Case
  <2> HIDE DEF unsafe
  <2>6. /\ Passed(f) \/ Failed(f)
        /\ Blame(f) = If(unsafe, {"learning_update"})
        /\ f.evaluator = "outcome"
    BY <2>1, <2>5, Outcome, Categories
  <2>7. /\ Passed(g) \/ Failed(g)
        /\ Blame(g) = Lifecycle(b)
        /\ g.evaluator = "lifecycle"
    BY LifecycleJudgement DEF Lifecycle
  <2>8. /\ Passed(h) \/ Failed(h)
        /\ Blame(h) = If(unsafe, {"authority"})
        /\ h.evaluator = "authority"
    BY <2>1, Authority
  <2>9. Blame(f) \cup Blame(g) \cup Blame(h)
          = If(unsafe, {"learning_update", "authority"}) \cup Lifecycle(b)
    BY <2>6, <2>7, <2>8 DEF If
  <2> HIDE DEF f, g, h
  <2>10. /\ Judged(Append(<<f, g>>, h)) /\ Range(Append(<<f, g>>, h)) # {}
         /\ Blames(Append(<<f, g>>, h)) = Blame(f) \cup Blame(g) \cup Blame(h)
         /\ Evaluators(Append(<<f, g>>, h)) = {f.evaluator, g.evaluator, h.evaluator}
    BY <2>6, <2>7, <2>8, ThreeFindings
  <2>11. {"outcome", "lifecycle", "authority"} = {f.evaluator, g.evaluator, h.evaluator}
    BY <2>6, <2>7, <2>8
  <2> QED
    BY <2>3, <2>4, <2>5, <2>9, <2>10, <2>11 DEF Says
<1> QED
  BY <1>1, <1>2, <1>3, <1>4, <1>5, <1>6, <1>7, <1>8, <1>9, <1>10, <1>11 DEF Registered, CanonicalCases

-----------------------------------------------------------------------------
(***************************************************************************)
(* The verdict on a case                                                   *)
(***************************************************************************)

\* A verdict that fails the gate exactly when it is not a pass, and a veto when the case could
\* not be judged.
Telling(v) ==
    /\ v \in Verdicts
    /\ v.gateFailed <=> v.status # "pass"
    /\ v.status \in {"blocked", "invalid_case"} => v.severity = "veto"

\* A case that cannot be judged.
LEMMA Unjudged ==
    ASSUME NEW status \in {"invalid_case", "blocked"}, NEW boundary \in Boundaries
    PROVE  LET v == AttributeFindings(<<Finding("outcome", status, "veto", boundary)>>) IN
           v.status = status /\ Telling(v)
<1> DEFINE f == Finding("outcome", status, "veto", boundary) e == <<f>> v == AttributeFindings(e)
<1>1. f.status = status /\ f.severity = "veto" /\ f.boundary = boundary /\ boundary # "none"
  BY NoneIsNoBoundary DEF Finding
<1>2. Range(e) = {f}
  <2>1. DOMAIN e = 1..1 /\ e[1] = f
    OBVIOUS
  <2> QED
    BY <2>1 DEF Range
<1>3. PICK m \in 1..4 : StatusOrder[m] = status
  <2>1. StatusOrder[1] = "invalid_case" /\ StatusOrder[2] = "blocked"
    BY DEF StatusOrder
  <2> QED
    BY <2>1
<1>4. Foremost(StatusOrder, {status}) = status
  <2>1. PICK n \in 1..4 : Foremost(StatusOrder, {status}) = StatusOrder[n] /\ StatusOrder[n] \in {status}
    BY <1>3, Orders, ForemostFound
  <2> QED
    BY <2>1
<1>5. Foremost(SeverityOrder, {"veto"}) = "veto"
  <2>1. 1 \in DOMAIN SeverityOrder /\ SeverityOrder[1] = "veto"
        /\ DOMAIN SeverityOrder \in SUBSET Nat
    BY Orders DEF SeverityOrder
  <2>2. PICK n \in DOMAIN SeverityOrder : /\ Foremost(SeverityOrder, {"veto"}) = SeverityOrder[n]
                                          /\ SeverityOrder[n] \in {"veto"}
    BY <2>1, ForemostFound
  <2> QED
    BY <2>2
<1>6. FirstBoundary(e, status) = boundary
  <2> HIDE DEF f, e
  <2>1. Causes(e, status) = {f}
    BY <1>1, <1>2 DEF Causes
  <2>2. PICK i \in 1..18 : BoundaryOrder[i] = boundary
    BY Orders DEF Boundaries, Range
  <2>3. PICK n \in 1..18 : /\ Foremost(BoundaryOrder, {boundary}) = BoundaryOrder[n]
                           /\ BoundaryOrder[n] \in {boundary}
    BY <2>2, Orders, ForemostFound
  <2> QED
    BY <1>1, <2>1, <2>3 DEF FirstBoundary
<1>7. v = [status |-> status, severity |-> "veto", first |-> boundary, gateFailed |-> TRUE]
  <2> HIDE DEF f, e
  <2>1. {g.status : g \in Range(e)} = {status} /\ {g.severity : g \in Range(e)} = {"veto"}
    BY <1>1, <1>2
  <2> QED
    BY <1>4, <1>5, <1>6, <2>1 DEF AttributeFindings
<1>8. /\ status \in {StatusOrder[n] : n \in DOMAIN StatusOrder}
      /\ "veto" \in {SeverityOrder[n] : n \in DOMAIN SeverityOrder}
      /\ boundary \in {BoundaryOrder[n] : n \in DOMAIN BoundaryOrder}
  <2>1. 1 \in DOMAIN SeverityOrder /\ SeverityOrder[1] = "veto"
    BY Orders DEF SeverityOrder
  <2> QED
    BY <1>3, <2>1, Orders DEF Boundaries, Range
<1>9. v \in Verdicts
  <2> HIDE DEF v
  <2> QED
    BY <1>7, <1>8 DEF Verdicts
<1> HIDE DEF v
<1>10. v.status = status /\ Telling(v)
  BY <1>7, <1>9 DEF Telling
<1> QED
  BY <1>10 DEF v, e, f

\* So are an invalid case and a blocked one.
LEMMA InvalidAndBlocked ==
    /\ InvalidCase.status = "invalid_case" /\ Telling(InvalidCase)
    /\ BlockedCase.status = "blocked" /\ Telling(BlockedCase)
<1>1. "case_validation" \in Boundaries /\ "infrastructure" \in Boundaries
  <2>1. BoundaryOrder[1] = "case_validation" /\ BoundaryOrder[18] = "infrastructure"
    BY DEF BoundaryOrder
  <2> QED
    BY <2>1, Orders DEF Boundaries, Range
<1> QED
  BY <1>1, Unjudged DEF InvalidCase, BlockedCase

\* No boundary blamed comes before the one that is reported.
LEMMA FirstIsEarliest ==
    ASSUME NEW X, X \subseteq Boundaries, NEW x \in X
    PROVE  /\ Foremost(BoundaryOrder, X) \in Boundaries
           /\ Position(BoundaryOrder, Foremost(BoundaryOrder, X)) <= Position(BoundaryOrder, x)
<1>1. PICK m \in 1..18 : BoundaryOrder[m] = x
  BY Orders DEF Boundaries, Range
<1>2. PICK n \in 1..18 : /\ Foremost(BoundaryOrder, X) = BoundaryOrder[n]
                         /\ \A k \in 1..18 : BoundaryOrder[k] \in X => n <= k
  BY <1>1, Orders, ForemostFound
<1>3. n <= m
  BY <1>1, <1>2
<1> QED
  BY <1>1, <1>2, <1>3, PositionIs, Orders DEF Boundaries, Range

\* Every contract belongs to a boundary.
LEMMA LayersAreBoundaries == \A k \in Contracts : Layer[k] \in Boundaries
<1>1. \A k \in Contracts : Layer[k] \in {"provider_contract", "evaluation", "learning_update",
        "state", "memory", "planner", "recommendation", "knowledge", "practice_generation",
        "practice_submission", "agent_trajectory", "infrastructure"}
  BY DEF Contracts, Layer
<1>2. "planner" \in Boundaries /\ "practice_submission" \in Boundaries
  <2>1. BoundaryOrder[8] = "planner" /\ BoundaryOrder[12] = "practice_submission"
    BY DEF BoundaryOrder
  <2> QED
    BY <2>1, Orders DEF Boundaries, Range
<1> QED
  BY <1>1, <1>2, NamedBoundaries

\* The boundaries a case blames are boundaries.
LEMMA BlamedBoundaries ==
    ASSUME NEW c \in Registered, NEW b, NEW r \in BOOLEAN
    PROVE  Blamed(c, b, r) \subseteq Boundaries
<1> DEFINE e == Evidence(c, b, r)
<1>1. Judged(e) /\ Blames(e) = Blamed(c, b, r)
  BY EvidenceSays DEF Says
<1> HIDE DEF e
<1>2. \A f \in Range(e) : f.status = "fail" => f.boundary \in Boundaries
  BY <1>1 DEF Judged, Passed, Failed
<1> QED
  BY <1>1, <1>2 DEF Blames

Corpora == {"canonical", "widened"}   \* the files whose cases can run
Judgeable(f, c) == ~(f = "widened" /\ c = "retry_exhaustion")

\* A case that runs to its end is cleared if it blames nobody and fails otherwise; one that
\* is asked for an evaluator it does not run is invalid.
LEMMA CaseVerdict ==
    ASSUME NEW f \in Corpora, NEW c \in Registered, NEW b, NEW r \in BOOLEAN
    PROVE  LET v == CaseResult(f, c, Evidence(c, b, r)) IN
           /\ ~Judgeable(f, c) => v = InvalidCase
           /\ Judgeable(f, c) /\ Blamed(c, b, r) = {} => v = Clear
           /\ Judgeable(f, c) /\ Blamed(c, b, r) # {} => v \in Blaming(Blamed(c, b, r))
<1> DEFINE e == Evidence(c, b, r)
<1>1. Says(e, Blamed(c, b, r), CanonicalCases[c].evaluators)
  BY EvidenceSays
<1> HIDE DEF e
<1>2. {g.evaluator : g \in Range(e)} = CanonicalCases[c].evaluators
  BY <1>1 DEF Says, Evaluators
<1>3. CASE ~Judgeable(f, c)
  <2>1. "lifecycle" \in Applicable(f, c)
    BY <1>3 DEF Judgeable, Applicable
  <2>2. c = "retry_exhaustion"
    BY <1>3 DEF Judgeable
  <2>3. CanonicalCases[c].evaluators = {"outcome", "authority"}
    BY <2>2 DEF CanonicalCases, Case
  <2>4. CaseResult(f, c, e) = InvalidCase
    BY <1>2, <2>1, <2>3 DEF CaseResult
  <2> QED
    BY <1>3, <2>4 DEF e
<1>4. CASE Judgeable(f, c)
  <2>1. Applicable(f, c) = CanonicalCases[c].evaluators
    BY <1>4 DEF Judgeable, Applicable
  <2>2. CaseResult(f, c, e) = AttributeFindings(e)
    BY <1>2, <2>1 DEF CaseResult
  <2>3. CASE Blamed(c, b, r) = {}
    <3>1. \A g \in Range(e) : Passed(g)
      BY <1>1, <2>3 DEF Says, Blames, Judged, Failed
    <3> QED
      BY <1>1, <1>4, <2>2, <2>3, <3>1, AttributionClears DEF Says, e
  <2>4. CASE Blamed(c, b, r) # {}
    <3>1. AttributeFindings(e) \in Blaming(Blamed(c, b, r))
      BY <1>1, <2>4, AttributionBlames DEF Says
    <3> QED
      BY <1>4, <2>2, <2>4, <3>1 DEF e
  <2> QED
    BY <2>3, <2>4
<1> QED
  BY <1>3, <1>4

\* Such a verdict says itself whether it fails the gate.
LEMMA CaseTells ==
    ASSUME NEW f \in Corpora, NEW c \in Registered, NEW b, NEW r \in BOOLEAN
    PROVE  Telling(CaseResult(f, c, Evidence(c, b, r)))
<1> DEFINE v == CaseResult(f, c, Evidence(c, b, r)) X == Blamed(c, b, r)
<1>1. /\ "pass" \in {StatusOrder[n] : n \in DOMAIN StatusOrder}
      /\ "fail" \in {StatusOrder[n] : n \in DOMAIN StatusOrder}
  <2>1. StatusOrder[3] = "fail" /\ StatusOrder[4] = "pass"
    BY DEF StatusOrder
  <2> QED
    BY <2>1, Orders
<1>2. {"veto", "major", "info"} \subseteq {SeverityOrder[n] : n \in DOMAIN SeverityOrder}
  <2>1. SeverityOrder[1] = "veto" /\ SeverityOrder[2] = "major" /\ SeverityOrder[4] = "info"
    BY DEF SeverityOrder
  <2> QED
    BY <2>1, Orders
<1>3. Telling(Clear)
  <2>1. Clear \in Verdicts
    BY <1>1, <1>2 DEF Clear, Verdicts
  <2> QED
    BY <2>1 DEF Telling, Clear
<1>4. ASSUME X # {}, NEW w \in Blaming(X) PROVE Telling(w)
  <2>1. Foremost(BoundaryOrder, X) \in Boundaries
    BY <1>4, BlamedBoundaries, FirstIsEarliest
  <2>2. Boundaries = {BoundaryOrder[n] : n \in DOMAIN BoundaryOrder}
    BY DEF Boundaries, Range
  <2> HIDE DEF X
  <2>3. w \in Verdicts
    BY <1>1, <1>2, <2>1, <2>2 DEF Blaming, Verdicts
  <2>4. w.status = "fail" /\ w.gateFailed = TRUE
    BY DEF Blaming
  <2> QED
    BY <2>3, <2>4 DEF Telling
<1> HIDE DEF v, X
<1>5. v = InvalidCase \/ v = Clear \/ (X # {} /\ v \in Blaming(X))
  BY CaseVerdict DEF v, X
<1> QED
  BY <1>3, <1>4, <1>5, InvalidAndBlocked DEF v

-----------------------------------------------------------------------------
(***************************************************************************)
(* What the corpus notices                                                 *)
(***************************************************************************)

\* With nothing broken no case blames anybody, and every case runs to its end.
LEMMA NothingBroken ==
    ASSUME NEW c \in Registered PROVE Blamed(c, {}, FALSE) = {} /\ ~Raises(c, {}, FALSE)
<1>1. \A b : b = {} => Lifecycle(b) = {}
  BY LifecycleJudgement DEF Lifecycle
<1>2. Lifecycle({}) = {} /\ Lifecycle(WithoutPractice({})) = {}
  BY <1>1 DEF WithoutPractice
<1>3. Blamed(c, {}, FALSE) = {}
  BY <1>2 DEF Blamed, If, Registered, CanonicalCases
<1> QED
  BY <1>3 DEF Raises

\* A broken contract of the lifecycle is blamed by every case that checks it.
LEMMA LifecycleBlames ==
    ASSUME NEW b, NEW k \in b \cap LifecycleBroken
    PROVE  /\ Lifecycle(b) # {}
           /\ k # "practice_owner" => Lifecycle(WithoutPractice(b)) # {}
<1>1. ASSUME NEW d, k \in d \cap LifecycleBroken PROVE Lifecycle(d) # {}
  BY <1>1, LifecycleJudgement DEF Lifecycle
<1>2. k # "practice_owner" => k \in WithoutPractice(b) \cap LifecycleBroken
  BY DEF WithoutPractice
<1> QED
  BY <1>1, <1>2

\* No contract can be broken without some case failing or not running at all.
LEMMA BrokenNoticed ==
    ASSUME NEW b \in SUBSET Contracts, NEW k \in b
    PROVE  \E c \in Registered : Raises(c, b, FALSE) \/ Blamed(c, b, FALSE) # {}
<1>1. k \in DOMAIN Layer
  BY DEF Contracts
<1>2. {"provider_invalid", "retry_exhaustion", "product_band", "multi_episode",
       "learning_update_replay", "state_late_arrival", "memory_planner_tie",
       "recommendation_cross", "knowledge_unknown", "practice_stale", "agent_bounded"}
        \subseteq Registered
  BY DEF Registered, CanonicalCases
<1>3. ASSUME k = "invalid_output" PROVE Blamed("provider_invalid", b, FALSE) # {}
  BY <1>3 DEF Blamed, If
<1>4. ASSUME k = "retry_count" PROVE Blamed("retry_exhaustion", b, FALSE) # {}
  BY <1>4 DEF Blamed, If
<1>5. ASSUME k = "exhaustion_writes" PROVE Blamed("retry_exhaustion", b, FALSE) # {}
  BY <1>5 DEF Blamed, If
<1>6. ASSUME k = "provider_band" PROVE Blamed("product_band", b, FALSE) # {}
  BY <1>6 DEF Blamed, If
<1>7. ASSUME k \in Replays PROVE Blamed("learning_update_replay", b, FALSE) # {}
  BY <1>7 DEF Blamed, If
<1>8. ASSUME k = "arrival_state" PROVE Blamed("state_late_arrival", b, FALSE) # {}
  BY <1>8 DEF Blamed, If
<1>9. ASSUME k = "memory_weighs" PROVE Blamed("memory_planner_tie", b, FALSE) # {}
  BY <1>9 DEF Blamed, If
<1>10. ASSUME k = "current_update" PROVE Blamed("multi_episode", b, FALSE) # {}
  BY <1>10 DEF Blamed, If
<1>11. ASSUME k = "cross_learner" PROVE Blamed("recommendation_cross", b, FALSE) # {}
  BY <1>11 DEF Blamed, If
<1>12. ASSUME k = "unknown_grounded" PROVE Blamed("knowledge_unknown", b, FALSE) # {}
  BY <1>12 DEF Blamed, If
<1>13. ASSUME k = "stale_accepted" PROVE Blamed("practice_stale", b, FALSE) # {}
  BY <1>13 DEF Blamed, If
<1>14. ASSUME k \in {"unbounded_turn", "misordered_turn"} PROVE Blamed("agent_bounded", b, FALSE) # {}
  BY <1>14 DEF Blamed, If
<1>15. ASSUME k = "memory_order" PROVE Blamed("memory_planner_tie", b, FALSE) # {}
  <2>1. Lifecycle(WithoutPractice(b)) # {}
    BY <1>15, LifecycleBlames DEF LifecycleBroken
  <2> QED
    BY <2>1 DEF Blamed
<1>16. ASSUME k = "practice_owner" PROVE Blamed("multi_episode", b, FALSE) # {}
  <2>1. Lifecycle(b) # {}
    BY <1>16, LifecycleBlames DEF LifecycleBroken
  <2> QED
    BY <2>1 DEF Blamed
<1>17. ASSUME k = "writing_read" PROVE Blamed("multi_episode", b, FALSE) # {}
  <2>1. Lifecycle(b) # {}
    BY <1>17, LifecycleBlames DEF LifecycleBroken
  <2> QED
    BY <2>1 DEF Blamed
<1>18. ASSUME k = "no_recommendation" PROVE Raises("multi_episode", b, FALSE)
  BY <1>18 DEF Raises, Episodes, WithPractice
<1>19. ASSUME k = "knowledge_context" PROVE Raises("multi_episode", b, FALSE)
  BY <1>19 DEF Raises, Episodes, WithPractice
<1> QED
  BY <1>1, <1>2, <1>3, <1>4, <1>5, <1>6, <1>7, <1>8, <1>9, <1>10, <1>11, <1>12, <1>13, <1>14, <1>15, <1>16, <1>17, <1>18, <1>19 DEF Layer, Replays

\* A case that would notice a contract broken alone blames no later boundary than the contract's
\* layer when it is broken with others, but for the contract seen only by its authority.
LEMMA BlamedBefore ==
    ASSUME NEW c \in Registered, NEW b \in SUBSET Contracts, NEW k \in b \ SeenLate,
           Blamed(c, {k}, FALSE) # {}
    PROVE  \E x \in Blamed(c, b, FALSE) :
             Position(BoundaryOrder, x) <= Position(BoundaryOrder, Layer[k])
<1> DEFINE Before(x, y) == Position(BoundaryOrder, x) <= Position(BoundaryOrder, y)
<1>1. \A x \in Boundaries : Before(x, x)
  <2> SUFFICES ASSUME NEW x \in Boundaries PROVE Before(x, x)
    OBVIOUS
  <2>1. PICK n \in 1..18 : BoundaryOrder[n] = x
    BY Orders DEF Boundaries, Range
  <2> QED
    BY <2>1, PositionIs
\* through the lifecycle evaluator
<1>2. ASSUME NEW s \in {b, WithoutPractice(b)}, k \in s \cap LifecycleBroken
      PROVE  \E x \in Lifecycle(s) : Before(x, Layer[k])
  BY <1>2, LifecycleJudgement DEF Lifecycle
<1>3. ASSUME Lifecycle({k}) # {} PROVE k \in LifecycleBroken
  BY <1>3, LifecycleJudgement DEF Lifecycle
<1>4. ASSUME Lifecycle(WithoutPractice({k})) # {}
      PROVE  k \in LifecycleBroken \cap WithoutPractice(b)
  <2> DEFINE s == WithoutPractice({k})
  <2>1. s \cap LifecycleBroken # {}
    <3> HIDE DEF s
    <3>1. Lifecycle(s) # {}
      BY <1>4 DEF s
    <3> QED
      BY <3>1, LifecycleJudgement DEF Lifecycle
  <2> QED
    BY <2>1 DEF WithoutPractice
<1>5. CASE c = "agent_bounded"
  <2>1. k \in {"unbounded_turn", "misordered_turn"} /\ "agent_trajectory" \in Blamed(c, b, FALSE) /\ Layer[k] = "agent_trajectory"
    BY <1>5 DEF Blamed, If, SeenLate, Layer
  <2> QED
    BY <2>1, <1>1, NamedBoundaries
<1>6. CASE c = "knowledge_unknown"
  <2>1. k = "unknown_grounded" /\ "knowledge" \in Blamed(c, b, FALSE) /\ Layer[k] = "knowledge"
    BY <1>6 DEF Blamed, If, SeenLate, Layer
  <2> QED
    BY <2>1, <1>1, NamedBoundaries
<1>7. CASE c = "practice_stale"
  <2>1. k = "stale_accepted" /\ "practice_generation" \in Blamed(c, b, FALSE) /\ Layer[k] = "practice_submission"
    BY <1>7 DEF Blamed, If, SeenLate, Layer
  <2>2. Position(BoundaryOrder, "practice_generation") <= Position(BoundaryOrder, "practice_submission")
    BY Positions
  <2> QED
    BY <2>1, <2>2
<1>8. CASE c = "product_band"
  <2>1. k = "provider_band" /\ "evaluation" \in Blamed(c, b, FALSE) /\ Layer[k] = "evaluation"
    BY <1>8 DEF Blamed, If, SeenLate, Layer
  <2> QED
    BY <2>1, <1>1, NamedBoundaries
<1>9. CASE c = "provider_invalid"
  <2>1. k = "invalid_output" /\ "provider_contract" \in Blamed(c, b, FALSE) /\ Layer[k] = "provider_contract"
    BY <1>9 DEF Blamed, If, SeenLate, Layer
  <2> QED
    BY <2>1, <1>1, NamedBoundaries
<1>10. CASE c = "recommendation_cross"
  <2>1. k = "cross_learner" /\ "recommendation" \in Blamed(c, b, FALSE) /\ Layer[k] = "recommendation"
    BY <1>10 DEF Blamed, If, SeenLate, Layer
  <2> QED
    BY <2>1, <1>1, NamedBoundaries
<1>11. CASE c = "retry_exhaustion"
  <2>1. k = "exhaustion_writes" /\ "provider_contract" \in Blamed(c, b, FALSE) /\ Layer[k] = "provider_contract"
    BY <1>11 DEF Blamed, If, SeenLate, Layer
  <2> QED
    BY <2>1, <1>1, NamedBoundaries
<1>12. CASE c = "learning_update_replay"
  <2>1. CASE Lifecycle(WithoutPractice({k})) # {}
    <3>1. k \in LifecycleBroken \cap WithoutPractice(b)
      BY <1>4, <2>1
    <3>2. \E x \in Lifecycle(WithoutPractice(b)) : Before(x, Layer[k])
      BY <1>2, <3>1
    <3>3. Lifecycle(WithoutPractice(b)) \subseteq Blamed(c, b, FALSE)
      BY <1>12 DEF Blamed
    <3> QED
      BY <3>2, <3>3
  <2>2. CASE Lifecycle(WithoutPractice({k})) = {}
    <3>1. k \in Replays
      BY <1>12, <2>2 DEF Blamed, If
    <3>2. "persistence" \in Blamed(c, b, FALSE) /\ Layer[k] = "learning_update"
      BY <1>12, <3>1 DEF Blamed, If, Layer, Replays
    <3>3. Position(BoundaryOrder, "persistence") <= Position(BoundaryOrder, "learning_update")
      BY Positions
    <3> QED
      BY <3>2, <3>3
  <2> QED
    BY <2>1, <2>2
<1>13. CASE c = "memory_planner_tie"
  <2>1. CASE Lifecycle(WithoutPractice({k})) # {}
    <3>1. k \in LifecycleBroken \cap WithoutPractice(b)
      BY <1>4, <2>1
    <3>2. \E x \in Lifecycle(WithoutPractice(b)) : Before(x, Layer[k])
      BY <1>2, <3>1
    <3>3. Lifecycle(WithoutPractice(b)) \subseteq Blamed(c, b, FALSE)
      BY <1>13 DEF Blamed
    <3> QED
      BY <3>2, <3>3
  <2>2. CASE Lifecycle(WithoutPractice({k})) = {}
    <3>1. k = "memory_weighs"
      BY <1>13, <2>2 DEF Blamed, If
    <3>2. "memory" \in Blamed(c, b, FALSE) /\ Layer[k] = "planner"
      BY <1>13, <3>1 DEF Blamed, If, Layer
    <3>3. Position(BoundaryOrder, "memory") <= Position(BoundaryOrder, "planner")
      BY Positions
    <3> QED
      BY <3>2, <3>3
  <2> QED
    BY <2>1, <2>2
<1>14. CASE c = "state_late_arrival"
  <2>1. CASE Lifecycle(WithoutPractice({k})) # {}
    <3>1. k \in LifecycleBroken \cap WithoutPractice(b)
      BY <1>4, <2>1
    <3>2. \E x \in Lifecycle(WithoutPractice(b)) : Before(x, Layer[k])
      BY <1>2, <3>1
    <3>3. Lifecycle(WithoutPractice(b)) \subseteq Blamed(c, b, FALSE)
      BY <1>14 DEF Blamed
    <3> QED
      BY <3>2, <3>3
  <2>2. CASE Lifecycle(WithoutPractice({k})) = {}
    <3>1. k = "arrival_state"
      BY <1>14, <2>2 DEF Blamed, If
    <3>2. "state" \in Blamed(c, b, FALSE) /\ Layer[k] = "state"
      BY <1>14, <3>1 DEF Blamed, If, Layer
    <3> QED
      BY <3>2, <1>1, NamedBoundaries
  <2> QED
    BY <2>1, <2>2
<1>15. CASE c = "multi_episode"
  <2>1. CASE Lifecycle({k}) # {}
    <3>1. k \in LifecycleBroken
      BY <1>3, <2>1
    <3>2. \E x \in Lifecycle(b) : Before(x, Layer[k])
      BY <1>2, <3>1
    <3>3. Lifecycle(b) \subseteq Blamed(c, b, FALSE)
      BY <1>15 DEF Blamed
    <3> QED
      BY <3>2, <3>3
  <2>2. CASE Lifecycle({k}) = {}
    <3>1. k \in Replays \cup {"current_update"}
      BY <1>15, <2>2 DEF Blamed, If
    <3>2. k \in {k} \cap LifecycleBroken
      BY <3>1 DEF LifecycleBroken, Replays
    <3> QED
      BY <2>2, <3>2, LifecycleBlames
  <2> QED
    BY <2>1, <2>2
<1> QED
  BY <1>5, <1>6, <1>7, <1>8, <1>9, <1>10, <1>11, <1>12, <1>13, <1>14, <1>15 DEF Registered, CanonicalCases

-----------------------------------------------------------------------------
(***************************************************************************)
(* The inductive invariant                                                 *)
(***************************************************************************)

Cleaning == {"reset", "execute", "clean", "record", "report"}
Steps == Cleaning \cup {"start", "self_tests", "load", "done"}

\* Cases and self-tests run only against a database that was accepted.
Aimed ==
    /\ target \in Targets
    /\ pc = "load" => target # "unset"
    /\ pc \in Cleaning \cup {"self_tests"} => target \in Accepted

\* The process ends before the first case with an error, or after the last with the suite's code.
Ended ==
    \/ results = << >> /\ struck = {} /\ exit \in 1..5
    \/ /\ Len(results) = 11 /\ target \in Accepted /\ file \in Corpora
       /\ exit = IF SuiteStatus(results) = "pass" THEN 0 ELSE 1

\* There is one verdict for each case that has run, and cases run of a corpus that loads.
Staged ==
    /\ entry \in Entries /\ file \in Files /\ broken \in SUBSET Contracts /\ rows \in BOOLEAN
    /\ pc \in Steps
    /\ results \in Seq(Verdicts)
    /\ pc \in {"start", "self_tests", "load"} => results = << >>
    /\ pc \in Cleaning \ {"report"} => Len(results) < 11
    /\ pc = "report" => Len(results) = 11
    /\ pc \in Cleaning => file \in Corpora
    /\ pc # "done" => exit = Running
    /\ pc = "done" => Ended

\* The verdict a case comes to.
Verdict(c) == IF c \in struck THEN BlockedCase ELSE Alone(c)

\* A case starts on an empty database, the infrastructure has failed in no case still to come,
\* and every verdict recorded or at hand is its own case's.
Isolated ==
    /\ pc = "execute" => rows = FALSE
    /\ struck \subseteq {Order[n] : n \in 1..Len(results)}
                          \cup {c \in {Current} : pc \in {"clean", "record"}}
    /\ pc \in {"clean", "record"} => pending = Verdict(Current)
    /\ pc \notin {"clean", "record"} => pending = None
    /\ \A n \in DOMAIN results : results[n] = Verdict(Order[n])

IInv == Aimed /\ Staged /\ Isolated

-----------------------------------------------------------------------------
(* Where the gate is aimed.                                                *)

\* Every step keeps the gate aimed at an accepted database.
LEMMA AimedHolds == ASSUME Aimed, [Next]_vars PROVE Aimed'
<1> USE DEF Aimed, Cleaning, Targets, Accepted
<1>1. CASE Start
  BY <1>1 DEF Start, Exit, Go, ValidTestDatabase, inputs
<1>2. CASE SelfTests
  BY <1>2 DEF SelfTests, Exit, Go, inputs
<1>3. CASE Load
  BY <1>3 DEF Load, Exit, Go, ValidatedUrl, ValidTestDatabase, inputs
<1>4. CASE Reset
  BY <1>4 DEF Reset, ResetDatabase, inputs
<1>5. CASE Execute
  BY <1>5 DEF Execute, inputs
<1>6. CASE Clean
  BY <1>6 DEF Clean, ResetDatabase, inputs
<1>7. CASE Record
  BY <1>7 DEF Record, inputs
<1>8. CASE Report
  BY <1>8 DEF Report, Exit, inputs
<1>9. CASE Done \/ UNCHANGED vars
  BY <1>9 DEF Done, vars
<1> QED
  BY <1>1, <1>2, <1>3, <1>4, <1>5, <1>6, <1>7, <1>8, <1>9 DEF Next

\* Rows disappear only while self-tests or cases run.
LEMMA WipesAimed == ASSUME Aimed, [Next]_vars, rows, ~rows' PROVE target \in Accepted
<1> USE DEF Aimed, Cleaning
<1>1. CASE Start \/ Load \/ Record \/ Report \/ Done \/ UNCHANGED vars
  BY <1>1 DEF Start, Load, Record, Report, Done, vars
<1>2. CASE SelfTests
  BY <1>2 DEF SelfTests
<1>3. CASE Reset \/ Clean
  BY <1>3 DEF Reset, Clean
<1>4. CASE Execute
  BY <1>4 DEF Execute
<1> QED
  BY <1>1, <1>2, <1>3, <1>4 DEF Next

-----------------------------------------------------------------------------
(* One case at a time.                                                     *)

\* The verdict of every case of a corpus that loads tells whether it fails the gate.
LEMMA VerdictTells ==
    ASSUME file \in Corpora, NEW c \in Registered PROVE Telling(Verdict(c))
<1>1. Telling(Alone(c))
  BY CaseTells, InvalidAndBlocked DEF Alone
<1> QED
  BY <1>1, InvalidAndBlocked DEF Verdict

\* While cases run, the current case is one of the corpus and none of those before it.
LEMMA CurrentIsNext ==
    ASSUME Staged, pc \in Cleaning \ {"report"}
    PROVE  /\ Current \in Registered /\ Len(results) \in Nat /\ DOMAIN results = 1..Len(results)
           /\ \A n \in DOMAIN results : Order[n] # Current
           /\ Len(results) + 1 \in 1..11
<1>1. Len(results) \in Nat /\ DOMAIN results = 1..Len(results) /\ Len(results) < 11
  BY DEF Staged
<1>2. Len(results) + 1 \in 1..11 /\ \A n \in DOMAIN results : n \in 1..11 /\ n # Len(results) + 1
  BY <1>1
<1>3. Current \in Registered
  BY <1>2, Cases, Orders DEF Current, Range
<1>4. \A n \in DOMAIN results : Order[n] # Current
  BY <1>2, Orders DEF Current
<1> QED
  BY <1>1, <1>2, <1>3, <1>4

\* What a case comes to alone depends on what is fixed for the run.
LEMMA AloneFixed == ASSUME UNCHANGED <<file, broken>> PROVE \A c : Alone(c)' = Alone(c)
BY DEF Alone

\* A failure in the current case changes no verdict recorded before.
LEMMA PastKept ==
    ASSUME Staged, Isolated, pc \in Cleaning \ {"report"}, UNCHANGED <<file, broken, results>>,
           struck' \in {struck, struck \cup {Current}}
    PROVE  /\ \A n \in DOMAIN results' : results'[n] = Verdict(Order[n])'
           /\ Current' = Current
           /\ \A c : Alone(c)' = Alone(c)
<1>1. Current' = Current
  BY DEF Current
<1>2. \A c : Alone(c)' = Alone(c)
  BY AloneFixed
<1>3. \A n \in DOMAIN results : Order[n] \in struck' <=> Order[n] \in struck
  BY CurrentIsNext
<1>4. \A n \in DOMAIN results : Verdict(Order[n])' = Verdict(Order[n])
  BY <1>2, <1>3 DEF Verdict
<1> QED
  BY <1>1, <1>2, <1>4 DEF Isolated

\* A case that was blocked is at hand as blocked.
LEMMA StruckKept ==
    ASSUME Staged, Isolated, pc \in Cleaning \ {"report"}, UNCHANGED <<file, broken, results>>,
           struck' = struck \cup {Current}, pending' = BlockedCase, pc' \in {"clean", "record"}
    PROVE  Isolated'
<1>1. /\ \A n \in DOMAIN results' : results'[n] = Verdict(Order[n])'
      /\ Current' = Current
  BY PastKept
<1>2. Verdict(Current)' = BlockedCase
  BY <1>1 DEF Verdict
<1>3. struck' \subseteq {Order[n] : n \in 1..Len(results')} \cup {Current'}
  BY <1>1 DEF Isolated
<1> QED
  BY <1>1, <1>2, <1>3 DEF Isolated

\* Before the first case.
LEMMA BeginningKeeps ==
    ASSUME IInv, Start \/ SelfTests \/ Load PROVE Staged' /\ Isolated'
<1>1. /\ results = << >> /\ pc \in {"start", "self_tests", "load"} /\ struck = {} /\ pending = None
      /\ exit = Running
  <2>1. results = << >> /\ pc \in {"start", "self_tests", "load"} /\ exit = Running
    BY DEF IInv, Staged, Start, SelfTests, Load
  <2>2. 1..Len(results) = {}
    BY <2>1
  <2> QED
    BY <2>1, <2>2 DEF IInv, Isolated
<1>2. UNCHANGED <<inputs, struck, pending, results>>
  BY DEF Start, SelfTests, Load
<1>3. \/ pc' \in {"self_tests", "load"} /\ exit' = Running
      \/ pc' = "done" /\ exit' \in 1..5
      \/ pc' = "reset" /\ exit' = Running /\ file \in Corpora
  <2>1. CASE Start
    BY <1>1, <2>1 DEF Start, Exit, Go
  <2>2. CASE SelfTests
    BY <1>1, <2>2 DEF SelfTests, Exit, Go, SelfTestCodes
  <2>3. CASE Load
    <3>1. ASSUME CaseIds(file) = Registered, file # "unloadable" PROVE file \in Corpora
      <4>1. "retry_exhaustion" \in Registered /\ "unwritten" \notin Registered
        BY DEF Registered, CanonicalCases
      <4>2. file \in Files
        BY DEF IInv, Staged
      <4> QED
        BY <3>1, <4>1, <4>2 DEF Files, CaseIds, Corpora
    <3> QED
      BY <1>1, <2>3, <3>1 DEF Load, Exit, Go
  <2> QED
    BY <2>1, <2>2, <2>3
<1>4. rows' \in BOOLEAN
  BY DEF IInv, Staged, Start, SelfTests, Load
<1>5. Isolated'
  BY <1>1, <1>2, <1>3 DEF Isolated, inputs
<1>6. Staged'
  <2>1. /\ entry' \in Entries /\ file' \in Files /\ broken' \in SUBSET Contracts
        /\ results' \in Seq(Verdicts)
    BY <1>2 DEF IInv, Staged, inputs
  <2>2. results' = << >> /\ Len(results') = 0 /\ struck' = {}
    BY <1>1, <1>2
  <2>3. pc' \in Steps
    BY <1>3 DEF Steps, Cleaning
  <2>4. pc' = "done" => Ended'
    BY <1>3, <2>2 DEF Ended
  <2>5. pc' \in Cleaning => pc' = "reset" /\ file' \in Corpora
    BY <1>2, <1>3 DEF Cleaning, inputs
  <2>6. pc' # "done" => exit' = Running
    BY <1>3
  <2>7. "reset" # "report"
    OBVIOUS
  <2>8. pc' # "report"
    BY <2>5, <2>7 DEF Cleaning
  <2>9. Len(results') < 11
    BY <2>2
  <2>10. /\ pc' \in {"start", "self_tests", "load"} => results' = << >>
         /\ pc' \in Cleaning \ {"report"} => Len(results') < 11
         /\ pc' = "report" => Len(results') = 11
         /\ pc' \in Cleaning => file' \in Corpora
    BY <2>2, <2>5, <2>8, <2>9
  <2>11. /\ entry' \in Entries /\ file' \in Files /\ broken' \in SUBSET Contracts
         /\ rows' \in BOOLEAN /\ pc' \in Steps /\ results' \in Seq(Verdicts)
    BY <1>4, <2>1, <2>3
  <2> QED
    BY <2>4, <2>6, <2>10, <2>11 DEF Staged
<1> QED
  BY <1>5, <1>6

\* What the steps of a case leave alone.
LEMMA CaseStaged ==
    ASSUME IInv, pc \in Cleaning \ {"report"}, UNCHANGED <<inputs, results, exit>>,
           pc' \in Cleaning \ {"report"}, rows' \in BOOLEAN
    PROVE  Staged'
<1>1. pc # "done" /\ pc' # "done" /\ pc' \notin {"start", "self_tests", "load"} /\ pc' # "report"
      /\ pc' \in Steps
  BY DEF Cleaning, Steps
<1>2. Len(results) < 11 /\ file \in Corpora /\ exit = Running
  BY <1>1 DEF IInv, Staged, Cleaning
<1>3. /\ entry' \in Entries /\ file' \in Files /\ broken' \in SUBSET Contracts
      /\ results' \in Seq(Verdicts)
  BY DEF IInv, Staged, inputs
<1>4. Len(results') < 11 /\ file' \in Corpora /\ exit' = Running
  BY <1>2 DEF inputs
<1> QED
  BY <1>1, <1>3, <1>4 DEF Staged

\* A reset empties the database or blocks the case.
LEMMA ResetKeeps == ASSUME IInv, Reset PROVE Staged' /\ Isolated'
<1>1. /\ pc = "reset" /\ UNCHANGED <<inputs, results, exit>> /\ UNCHANGED <<file, broken, results>>
      /\ ResetDatabase("execute", "record")
  BY DEF Reset, inputs
<1>2. pc \in Cleaning \ {"report"} /\ Staged /\ Isolated
  BY <1>1 DEF IInv, Cleaning
<1>3. CASE rows' = FALSE /\ pc' = "execute" /\ UNCHANGED <<struck, pending>>
  <2>1. /\ \A n \in DOMAIN results' : results'[n] = Verdict(Order[n])'
        /\ Current' = Current
    BY <1>1, <1>2, <1>3, PastKept
  <2>2. struck' \subseteq {Order[n] : n \in 1..Len(results')} /\ pending' = None
    BY <1>1, <1>2, <1>3 DEF Isolated
  <2>3. Isolated'
    BY <1>3, <2>1, <2>2 DEF Isolated
  <2>4. Staged'
    BY <1>1, <1>2, <1>3, CaseStaged DEF Cleaning
  <2> QED
    BY <2>3, <2>4
<1>4. CASE Strike /\ pc' = "record" /\ pending' = BlockedCase /\ UNCHANGED rows
  <2>1. Isolated'
    BY <1>1, <1>2, <1>4, StruckKept DEF Strike
  <2>2. rows' \in BOOLEAN
    BY <1>2, <1>4 DEF Staged
  <2>3. Staged'
    BY <1>1, <1>2, <1>4, <2>2, CaseStaged DEF Cleaning
  <2> QED
    BY <2>1, <2>3
<1> QED
  BY <1>1, <1>3, <1>4 DEF ResetDatabase

\* The executor starts on an empty database, so that its verdict is the case's own.
LEMMA ExecuteKeeps == ASSUME IInv, Execute PROVE Staged' /\ Isolated'
<1>1. /\ pc = "execute" /\ pc' = "clean" /\ UNCHANGED <<inputs, results, exit>>
      /\ UNCHANGED <<file, broken, results>>
  BY DEF Execute, inputs
<1>2. pc \in Cleaning \ {"report"} /\ Staged /\ Isolated
  BY <1>1 DEF IInv, Cleaning
<1>3. rows = FALSE /\ struck \subseteq {Order[n] : n \in 1..Len(results)}
  BY <1>1, <1>2 DEF Isolated
<1>4. rows' \in BOOLEAN
  BY <1>3 DEF Execute
<1>5. Staged'
  BY <1>1, <1>2, <1>4, CaseStaged DEF Cleaning
<1>6. CASE Strike /\ pending' = BlockedCase
  BY <1>1, <1>2, <1>5, <1>6, StruckKept DEF Strike
<1>7. CASE /\ pending' = IF Raises(Current, broken, rows) THEN BlockedCase
                         ELSE CaseResult(file, Current, Evidence(Current, broken, rows))
           /\ UNCHANGED struck
  <2>1. /\ \A n \in DOMAIN results' : results'[n] = Verdict(Order[n])'
        /\ Current' = Current /\ \A c : Alone(c)' = Alone(c)
    BY <1>1, <1>2, <1>7, PastKept
  <2>2. Current \notin struck
    BY <1>2, <1>3, CurrentIsNext
  <2>3. pending' = Alone(Current)
    BY <1>3, <1>7 DEF Alone
  <2>4. Verdict(Current)' = Alone(Current)
    BY <1>7, <2>1, <2>2 DEF Verdict
  <2>5. Isolated'
    BY <1>1, <1>3, <1>7, <2>1, <2>3, <2>4 DEF Isolated
  <2> QED
    BY <1>5, <2>5
<1> QED
  BY <1>6, <1>7 DEF Execute

\* The reset after a case keeps its verdict or blocks it.
LEMMA CleanKeeps == ASSUME IInv, Clean PROVE Staged' /\ Isolated'
<1>1. /\ pc = "clean" /\ UNCHANGED <<inputs, results, exit>> /\ UNCHANGED <<file, broken, results>>
      /\ ResetDatabase("record", "record")
  BY DEF Clean, inputs
<1>2. pc \in Cleaning \ {"report"} /\ Staged /\ Isolated
  BY <1>1 DEF IInv, Cleaning
<1>3. pc' = "record" /\ rows' \in BOOLEAN
  BY <1>1, <1>2 DEF ResetDatabase, Staged
<1>4. Staged'
  BY <1>1, <1>2, <1>3, CaseStaged DEF Cleaning
<1>5. CASE Strike /\ pending' = BlockedCase
  BY <1>1, <1>2, <1>3, <1>4, <1>5, StruckKept DEF Strike
<1>6. CASE UNCHANGED <<struck, pending>>
  <2>1. /\ \A n \in DOMAIN results' : results'[n] = Verdict(Order[n])'
        /\ Current' = Current /\ \A c : Alone(c)' = Alone(c)
    BY <1>1, <1>2, <1>6, PastKept
  <2>2. Verdict(Current)' = Verdict(Current)
    BY <1>6, <2>1 DEF Verdict
  <2>3. pending' = Verdict(Current)
    BY <1>1, <1>2, <1>6 DEF Isolated
  <2>4. struck' \subseteq {Order[n] : n \in 1..Len(results')} \cup {Current'}
    BY <1>1, <1>2, <1>6, <2>1 DEF Isolated
  <2>5. Isolated'
    BY <1>3, <2>1, <2>2, <2>3, <2>4 DEF Isolated
  <2> QED
    BY <1>4, <2>5
<1> QED
  BY <1>1, <1>5, <1>6 DEF ResetDatabase

\* The verdict at hand joins those recorded.
LEMMA RecordKeeps == ASSUME IInv, Record PROVE Staged' /\ Isolated'
<1> DEFINE L == Len(results)
<1>1. /\ pc = "record" /\ UNCHANGED <<inputs, struck, rows, exit>> /\ results' = Append(results, pending)
      /\ pending' = None /\ UNCHANGED <<entry, file, broken>>
      /\ pc' = IF L + 1 = Cardinality(CaseIds(file)) THEN "report" ELSE "reset"
  BY DEF Record, inputs
<1>2. pc \in Cleaning \ {"report"} /\ Staged /\ Isolated
  BY <1>1 DEF IInv, Cleaning
<1>3. L \in Nat /\ L < 11 /\ file \in Corpora /\ exit = Running /\ DOMAIN results = 1..L
  BY <1>1, <1>2, CurrentIsNext DEF Staged, Cleaning
<1>4. pending = Verdict(Current) /\ Current = Order[L + 1] /\ Current \in Registered
  BY <1>1, <1>2, CurrentIsNext DEF Isolated, Current
<1>5. pending \in Verdicts
  BY <1>3, <1>4, VerdictTells DEF Telling
<1>6. /\ results' \in Seq(Verdicts) /\ Len(results') = L + 1
      /\ \A n \in 1..L : results'[n] = results[n]
      /\ results'[L + 1] = pending
  <2>1. results \in Seq(Verdicts)
    BY <1>2 DEF Staged
  <2> QED
    BY <1>1, <1>5, <2>1
<1>7. Cardinality(CaseIds(file)) = 11
  <2>1. CaseIds(file) = Registered
    BY <1>3 DEF CaseIds, Corpora
  <2> QED
    BY <2>1, Cases
<1>8. pc' = IF L + 1 = 11 THEN "report" ELSE "reset"
  BY <1>1, <1>7
<1>9. Staged'
  <2>1. /\ entry' \in Entries /\ file' \in Files /\ broken' \in SUBSET Contracts
        /\ rows' \in BOOLEAN /\ exit' = Running /\ file' \in Corpora
    BY <1>1, <1>2, <1>3 DEF Staged
  <2>2. pc' \in Steps /\ pc' \in {"report", "reset"}
    BY <1>8 DEF Steps, Cleaning
  <2>3. (pc' = "report" => Len(results') = 11) /\ (pc' = "reset" => Len(results') < 11)
    BY <1>3, <1>6, <1>8
  <2>4. /\ pc' \in Cleaning \ {"report"} => pc' = "reset"
        /\ pc' # "done" /\ pc' \notin {"start", "self_tests", "load"}
    BY <2>2 DEF Cleaning
  <2>5. results' \in Seq(Verdicts)
    BY <1>6
  <2>6. /\ pc' \in {"start", "self_tests", "load"} => results' = << >>
        /\ pc' \in Cleaning \ {"report"} => Len(results') < 11
        /\ pc' = "report" => Len(results') = 11
        /\ pc' \in Cleaning => file' \in Corpora
        /\ pc' # "done" => exit' = Running
        /\ pc' = "done" => Ended'
    BY <2>1, <2>3, <2>4
  <2>7. /\ entry' \in Entries /\ file' \in Files /\ broken' \in SUBSET Contracts
        /\ rows' \in BOOLEAN /\ pc' \in Steps
    BY <2>1, <2>2
  <2> QED
    BY <2>5, <2>6, <2>7 DEF Staged
<1>10. \A c : Verdict(c)' = Verdict(c)
  <2>1. \A c : Alone(c)' = Alone(c)
    BY <1>1, AloneFixed
  <2> QED
    BY <1>1, <2>1 DEF Verdict
<1>11. \A n \in DOMAIN results' : results'[n] = Verdict(Order[n])'
  <2>1. DOMAIN results' = 1..(L + 1)
    BY <1>3, <1>6
  <2>2. ASSUME NEW n \in 1..(L + 1) PROVE results'[n] = Verdict(Order[n])
    <3>1. CASE n \in 1..L
      BY <1>2, <1>3, <1>6, <3>1 DEF Isolated
    <3>2. CASE n = L + 1
      BY <1>4, <1>6, <3>2
    <3> QED
      BY <1>3, <3>1, <3>2
  <2> QED
    BY <1>10, <2>1, <2>2
<1>12. struck' \subseteq {Order[n] : n \in 1..Len(results')}
  <2>1. struck \subseteq {Order[n] : n \in 1..L} \cup {Order[L + 1]}
    BY <1>2, <1>4 DEF Isolated
  <2>2. 1..L \subseteq 1..(L + 1) /\ L + 1 \in 1..(L + 1)
    BY <1>3
  <2> HIDE DEF L
  <2>3. struck \subseteq {Order[n] : n \in 1..(L + 1)}
    BY <2>1, <2>2
  <2> QED
    BY <1>1, <1>6, <2>3
<1>13. pc' \notin {"execute", "clean", "record"}
  BY <1>8
<1>14. Isolated'
  BY <1>1, <1>11, <1>12, <1>13 DEF Isolated
<1> QED
  BY <1>9, <1>14

\* The report ends the process with the suite's code.
LEMMA ReportKeeps == ASSUME IInv, Report PROVE Staged' /\ Isolated'
<1>1. /\ pc = "report" /\ pc' = "done" /\ UNCHANGED <<inputs, struck, rows, pending, results>>
      /\ exit' = IF SuiteStatus(results) = "pass" THEN 0 ELSE 1
      /\ UNCHANGED <<entry, target, file, broken>>
  BY DEF Report, Exit, inputs
<1>2. Len(results) = 11 /\ target \in Accepted /\ file \in Corpora /\ pending = None
      /\ struck \subseteq {Order[n] : n \in 1..Len(results)}
  BY <1>1 DEF IInv, Staged, Aimed, Isolated, Cleaning
<1>3. SuiteStatus(results)' = SuiteStatus(results)
  BY <1>1 DEF SuiteStatus
<1>4. Ended'
  BY <1>1, <1>2, <1>3 DEF Ended
<1>5. Staged'
  BY <1>1, <1>4 DEF IInv, Staged, Steps, Cleaning
<1>6. \A c : Verdict(c)' = Verdict(c)
  BY <1>1, AloneFixed DEF Verdict
<1>7. Isolated'
  BY <1>1, <1>2, <1>6 DEF IInv, Isolated
<1> QED
  BY <1>5, <1>7

-----------------------------------------------------------------------------
(***************************************************************************)
(* The theorems                                                            *)
(***************************************************************************)

\* The gate is aimed at an accepted database while it runs tests or cases, and each verdict is its case's own.
THEOREM GateInvariant == Spec => []IInv
<1>1. Init => IInv
  <2> SUFFICES ASSUME Init PROVE IInv
    OBVIOUS
  <2>1. results = << >> /\ results \in Seq(Verdicts) /\ DOMAIN results = {} /\ struck = {}
    BY DEF Init
  <2>2. Staged
    BY <2>1 DEF Init, Staged, Steps, Cleaning
  <2>3. Isolated
    BY <2>1 DEF Init, Isolated
  <2>4. Aimed
    BY DEF Init, Aimed, Cleaning
  <2> QED
    BY <2>2, <2>3, <2>4 DEF IInv
<1>2. IInv /\ [Next]_vars => IInv'
  <2> SUFFICES ASSUME IInv, [Next]_vars PROVE Staged' /\ Isolated'
    BY AimedHolds DEF IInv
  <2>1. CASE UNCHANGED vars
    <3>1. UNCHANGED <<entry, target, file, broken, struck, rows, pc, pending, results, exit>>
      BY <2>1 DEF vars
    <3>2. \A c : Verdict(c)' = Verdict(c)
      BY <3>1, AloneFixed DEF Verdict
    <3>3. Ended' = Ended /\ Current' = Current
      BY <3>1 DEF Ended, Current, SuiteStatus
    <3>4. Staged'
      BY <3>1, <3>3 DEF IInv, Staged
    <3>5. Isolated'
      BY <3>1, <3>2, <3>3 DEF IInv, Isolated
    <3> QED
      BY <3>4, <3>5
  <2> QED
    BY <2>1, BeginningKeeps, ResetKeeps, ExecuteKeeps, CleanKeeps, RecordKeeps, ReportKeeps
       DEF Next, Done
<1> QED
  BY <1>1, <1>2, PTL DEF Spec

\* However many contracts are broken and however often the infrastructure fails, a case in which
\* it did not fail has the verdict it would have alone on an empty database.
THEOREM CasesDoNotMix == Spec => []CasesIndependent
<1>1. IInv => CasesIndependent
  BY DEF IInv, Isolated, CasesIndependent, Verdict
<1> QED
  BY <1>1, GateInvariant, PTL

\* OnlyAcceptedWiped of every run: whichever entry is used and whatever is broken, rows are removed
\* only from a database whose URL the isolation check has let pass.  What it lets pass may be the
\* application's own database; nothing is claimed about that.
THEOREM WipesAreAccepted == Spec => OnlyAcceptedWiped
<1>1. IInv /\ [Next]_vars => [rows /\ ~rows' => target \in Accepted]_rows
  BY WipesAimed DEF IInv
<1> QED
  BY <1>1, GateInvariant, PTL DEF Spec, OnlyAcceptedWiped

\* Nothing is the foremost status but a pass.
LEMMA OnlyPasses ==
    ASSUME NEW F, F \subseteq {StatusOrder[n] : n \in DOMAIN StatusOrder}, "pass" \in F
    PROVE  Foremost(StatusOrder, F) = "pass" <=> F = {"pass"}
<1>1. /\ DOMAIN StatusOrder = 1..4 /\ StatusOrder[4] = "pass"
      /\ \A n \in 1..4 : StatusOrder[n] = "pass" => n = 4
  BY Orders DEF StatusOrder
<1>2. PICK n \in 1..4 : /\ Foremost(StatusOrder, F) = StatusOrder[n] /\ StatusOrder[n] \in F
                        /\ \A k \in 1..4 : StatusOrder[k] \in F => n <= k
  BY <1>1, ForemostFound
<1>3. ASSUME F = {"pass"} PROVE Foremost(StatusOrder, F) = "pass"
  BY <1>2, <1>3
<1>4. ASSUME Foremost(StatusOrder, F) = "pass", NEW x \in F PROVE x = "pass"
  <2>1. PICK k \in 1..4 : StatusOrder[k] = x
    BY <1>1
  <2>2. n = 4 /\ n <= k
    BY <1>1, <1>2, <1>4, <2>1
  <2>3. k = 4
    BY <2>2
  <2> QED
    BY <1>1, <2>1, <2>3
<1> QED
  BY <1>3, <1>4

\* The suite passes when each of its cases does.
LEMMA SuitePasses ==
    ASSUME results \in Seq(Verdicts)
    PROVE  SuiteStatus(results) = "pass" <=> \A n \in DOMAIN results : results[n].status = "pass"
<1> DEFINE F == {"pass"} \cup {results[n].status : n \in DOMAIN results}
<1>1. \A n \in DOMAIN results : results[n] \in Verdicts
  OBVIOUS
<1>2. \A n \in DOMAIN results : results[n].status \in {StatusOrder[k] : k \in DOMAIN StatusOrder}
  BY <1>1 DEF Verdicts
<1>3. "pass" \in {StatusOrder[k] : k \in DOMAIN StatusOrder}
  <2>1. StatusOrder[4] = "pass"
    BY DEF StatusOrder
  <2> QED
    BY <2>1, Orders
<1>4. F \subseteq {StatusOrder[k] : k \in DOMAIN StatusOrder} /\ "pass" \in F
  BY <1>2, <1>3
<1>5. F = {"pass"} <=> \A n \in DOMAIN results : results[n].status = "pass"
  OBVIOUS
<1> HIDE DEF F
<1>6. Foremost(StatusOrder, F) = "pass" <=> F = {"pass"}
  BY <1>4, OnlyPasses
<1> QED
  BY <1>5, <1>6 DEF SuiteStatus, F

\* There is never a verdict too many, and none before the corpus is loaded.
LEMMA ResultsBounded ==
    ASSUME IInv
    PROVE  /\ Len(results) \in Nat /\ DOMAIN results = 1..Len(results) /\ Len(results) <= 11
           /\ results # << >> => file \in Corpora
<1> DEFINE L == Len(results)
<1>1. L \in Nat /\ DOMAIN results = 1..L
  BY DEF IInv, Staged
<1>2. results = << >> => L = 0
  OBVIOUS
<1> HIDE DEF L
<1>3. \/ results = << >>
      \/ (L < 11 \/ L = 11) /\ file \in Corpora
  <2>1. pc \in {"start", "self_tests", "load"} => results = << >>
    BY DEF IInv, Staged
  <2>2. pc \in Cleaning => (L < 11 \/ L = 11) /\ file \in Corpora
    BY DEF IInv, Staged, L
  <2>3. pc = "done" => results = << >> \/ (L = 11 /\ file \in Corpora)
    BY DEF IInv, Staged, Ended, L
  <2>4. pc \in {"start", "self_tests", "load"} \/ pc \in Cleaning \/ pc = "done"
    BY DEF IInv, Staged, Steps
  <2> QED
    BY <2>1, <2>2, <2>3, <2>4
<1>4. L = 0 \/ L < 11 \/ L = 11
  BY <1>2, <1>3
<1>5. L <= 11
  BY <1>1, <1>4
<1>6. results # << >> => file \in Corpora
  BY <1>3
<1> QED
  BY <1>1, <1>5, <1>6 DEF L

\* What is known once the cases have run.
LEMMA AfterTheCases ==
    ASSUME IInv, pc = "done", results # << >>
    PROVE  /\ Len(results) = 11 /\ DOMAIN results = 1..11 /\ target \in Accepted /\ file \in Corpora
           /\ exit = IF \A n \in 1..11 : results[n].status = "pass" THEN 0 ELSE 1
           /\ \A n \in 1..11 : results[n] = Verdict(Order[n]) /\ Order[n] \in Registered
           /\ struck \subseteq {Order[n] : n \in 1..11}
<1>1. /\ Len(results) = 11 /\ target \in Accepted /\ file \in Corpora
      /\ exit = IF SuiteStatus(results) = "pass" THEN 0 ELSE 1
  BY DEF IInv, Staged, Ended
<1>2. results \in Seq(Verdicts) /\ DOMAIN results = 1..11
  BY <1>1 DEF IInv, Staged
<1>3. \A n \in 1..11 : Order[n] \in Registered
  BY Cases, Orders DEF Range
<1>4. struck \subseteq {Order[n] : n \in 1..11}
  BY <1>1 DEF IInv, Isolated
<1>5. \A n \in 1..11 : results[n] = Verdict(Order[n])
  BY <1>2 DEF IInv, Isolated
<1> QED
  BY <1>1, <1>2, <1>3, <1>4, <1>5, SuitePasses

\* TypeOK of every run: verdicts are at hand exactly between a case's end and its record, and there
\* is an exit code exactly when the process is done.
THEOREM GateTypeCorrect == Spec => []TypeOK
<1>1. IInv => TypeOK
  <2> SUFFICES ASSUME IInv PROVE TypeOK
    OBVIOUS
  <2>1. /\ entry \in Entries /\ target \in Targets /\ file \in Files /\ broken \subseteq Contracts
        /\ rows \in BOOLEAN /\ results \in Seq(Verdicts)
        /\ pc \in {"start", "self_tests", "load", "reset", "execute", "clean", "record",
                   "report", "done"}
    BY DEF IInv, Aimed, Staged, Steps, Cleaning
  <2>2. Len(results) \in Nat /\ Len(results) <= 11 /\ Len(Order) = 11
    BY ResultsBounded, Orders
  <2>3. struck \subseteq Registered
    <3>1. \A n \in 1..Len(results) : Order[n] \in Registered
      BY <2>2, Cases, Orders DEF Range
    <3>2. pc \in {"clean", "record"} => Current \in Registered
      BY CurrentIsNext DEF IInv, Cleaning
    <3> QED
      BY <3>1, <3>2 DEF IInv, Isolated
  <2>4. ASSUME pc \in {"clean", "record"} PROVE pending \in Verdicts /\ pending # None
    <3>1. Telling(pending)
      BY <2>4, VerdictTells, CurrentIsNext DEF IInv, Staged, Isolated, Cleaning
    <3>2. \A v \in Verdicts : v.status # "none"
      <4>1. \A n \in DOMAIN StatusOrder : StatusOrder[n] # "none"
        BY DEF StatusOrder
      <4> QED
        BY <4>1 DEF Verdicts
    <3>3. pending \in Verdicts /\ pending.status # "none" /\ None.status = "none"
      BY <3>1, <3>2 DEF Telling, None
    <3> QED
      BY <3>3
  <2>5. pc \notin {"clean", "record"} => pending = None
    BY DEF IInv, Isolated
  <2>6. exit \in SelfTestCodes \union {Running} /\ (exit = Running <=> pc # "done")
    BY DEF IInv, Staged, Ended, SelfTestCodes, Running
  <2>7. pending \in {None} \union Verdicts /\ (pending # None <=> pc \in {"clean", "record"})
    BY <2>4, <2>5
  <2> QED
    BY <2>1, <2>2, <2>3, <2>6, <2>7 DEF TypeOK
<1> QED
  BY <1>1, GateInvariant, PTL

\* VerdictIsRight of every run: exit code 0 means that the whole canonical corpus ran against an
\* accepted database with no contract broken and no failure of the infrastructure, however many of the
\* contracts are broken together; and a run of that kind does exit with 0.
THEOREM ExitCodeRight == Spec => []VerdictIsRight
<1>1. IInv => VerdictIsRight
  <2> SUFFICES ASSUME IInv PROVE VerdictIsRight
    OBVIOUS
  <2>1. exit = 0 => pc = "done" /\ results # << >>
    <3>1. exit = 0 => pc = "done"
      BY DEF IInv, Staged, Running
    <3>2. pc = "done" => Ended
      BY DEF IInv, Staged
    <3>3. Ended /\ exit = 0 => Len(results) = 11
      BY DEF Ended
    <3> QED
      BY <3>1, <3>2, <3>3
  <2>2. ASSUME pc = "done", results # << >>, NEW n \in 1..11, results[n].status = "pass"
        PROVE  /\ Order[n] \notin struck /\ ~Raises(Order[n], broken, FALSE)
               /\ Judgeable(file, Order[n]) /\ Blamed(Order[n], broken, FALSE) = {}
    <3> DEFINE c == Order[n] v == CaseResult(file, c, Evidence(c, broken, FALSE))
    <3>1. c \in Registered /\ file \in Corpora /\ results[n] = Verdict(c)
      BY <2>2, AfterTheCases
    <3>2. Verdict(c) # BlockedCase
      BY <2>2, <3>1, InvalidAndBlocked
    <3>3. c \notin struck /\ ~Raises(c, broken, FALSE) /\ Verdict(c) = v
      BY <3>2 DEF Verdict, Alone
    <3>4. v.status = "pass"
      BY <2>2, <3>1, <3>3
    <3> HIDE DEF c
    <3>5. Judgeable(file, c)
      <4>1. ~Judgeable(file, c) => v = InvalidCase
        BY <3>1, CaseVerdict
      <4> HIDE DEF v
      <4> QED
        BY <3>4, <4>1, InvalidAndBlocked
    <3>6. Blamed(c, broken, FALSE) = {}
      <4>1. Blamed(c, broken, FALSE) # {} => v \in Blaming(Blamed(c, broken, FALSE))
        BY <3>1, <3>5, CaseVerdict
      <4> HIDE DEF v
      <4>2. v \in Blaming(Blamed(c, broken, FALSE)) => v.status = "fail"
        BY DEF Blaming
      <4> QED
        BY <3>4, <4>1, <4>2
    <3> QED
      BY <3>3, <3>5, <3>6 DEF c
  <2>3. ASSUME exit = 0
        PROVE  /\ target \in Accepted /\ file = "canonical" /\ Len(results) = Len(Order)
               /\ broken = {} /\ struck = {}
    <3>1. pc = "done" /\ results # << >>
      BY <2>1, <2>3
    <3>2. \A n \in 1..11 : results[n].status = "pass"
      BY <2>3, <3>1, AfterTheCases
    <3>3. struck = {}
      BY <2>2, <3>1, <3>2, AfterTheCases
    <3>4. \A c \in Registered : /\ ~Raises(c, broken, FALSE) /\ Judgeable(file, c)
                                /\ Blamed(c, broken, FALSE) = {}
      BY <2>2, <3>1, <3>2, Cases, Orders DEF Range
    <3>5. broken = {}
      BY <3>4, BrokenNoticed DEF IInv, Staged
    <3>6. file = "canonical"
      <4>1. "retry_exhaustion" \in Registered
        BY DEF Registered, CanonicalCases
      <4> QED
        BY <3>1, <3>4, <4>1, AfterTheCases DEF Judgeable, Corpora
    <3> QED
      BY <3>1, <3>3, <3>5, <3>6, AfterTheCases, Orders
  <2>4. ASSUME Ran, file = "canonical", broken = {}, struck = {} PROVE exit = 0
    <3>1. ASSUME NEW n \in 1..11 PROVE results[n].status = "pass"
      <4> DEFINE c == Order[n] v == CaseResult(file, c, Evidence(c, broken, FALSE))
      <4>1. c \in Registered /\ file \in Corpora /\ results[n] = Verdict(c)
        BY <2>4, AfterTheCases DEF Ran
      <4>2. Blamed(c, broken, FALSE) = {} /\ ~Raises(c, broken, FALSE) /\ Judgeable(file, c)
        BY <2>4, <4>1, NothingBroken DEF Judgeable
      <4> HIDE DEF c
      <4>3. v = Clear
        BY <4>1, <4>2, CaseVerdict
      <4>4. Verdict(c) = v
        BY <2>4, <4>2 DEF Verdict, Alone
      <4>5. results[n] = Clear
        BY <4>1, <4>3, <4>4
      <4> QED
        BY <4>5 DEF Clear
    <3> QED
      BY <2>4, <3>1, AfterTheCases DEF Ran
  <2> QED
    BY <2>3, <2>4 DEF VerdictIsRight
<1> QED
  BY <1>1, GateInvariant, PTL

\* EarliestBlamed of every run: however many contracts are broken together, a failing case blames
\* no boundary later than the layer of any of them that it would notice alone.
THEOREM BlameIsEarliest == Spec => []EarliestBlamed
<1>1. IInv => EarliestBlamed
  <2> SUFFICES ASSUME IInv, NEW n \in DOMAIN results, results[n].status = "fail",
                      NEW k \in broken \ SeenLate, Shows(Order[n], k)
               PROVE  Position(BoundaryOrder, results[n].first)
                        <= Position(BoundaryOrder, Layer[k])
    BY DEF EarliestBlamed
  <2> DEFINE c == Order[n] X == Blamed(c, broken, FALSE) Y == Blamed(c, {k}, FALSE)
             first == Foremost(BoundaryOrder, X)
  <2>1. /\ broken \in SUBSET Contracts /\ results[n] = Verdict(c)
        /\ n \in 1..Len(results) /\ Len(results) \in Nat
    BY DEF IInv, Staged, Isolated
  <2>2. file \in Corpora /\ Len(results) <= 11
    <3>1. results # << >>
      BY <2>1
    <3> QED
      BY <3>1, ResultsBounded
  <2>3. c \in Registered
    BY <2>1, <2>2, Cases, Orders DEF Range
  <2> HIDE DEF c
  <2>4. Verdict(c) = CaseResult(file, c, Evidence(c, broken, FALSE))
    BY <2>1, InvalidAndBlocked DEF Verdict, Alone
  <2>5. Judgeable(file, c) /\ X # {} /\ results[n] \in Blaming(X)
    <3> DEFINE v == CaseResult(file, c, Evidence(c, broken, FALSE))
    <3>1. /\ ~Judgeable(file, c) => v = InvalidCase
          /\ Judgeable(file, c) /\ X = {} => v = Clear
          /\ Judgeable(file, c) /\ X # {} => v \in Blaming(X)
      BY <2>2, <2>3, CaseVerdict
    <3>2. v.status = "fail" /\ v = results[n]
      BY <2>1, <2>4
    <3> HIDE DEF v, X
    <3>3. Clear.status = "pass" /\ InvalidCase.status = "invalid_case"
      BY InvalidAndBlocked DEF Clear
    <3> QED
      BY <3>1, <3>2, <3>3
  <2>6. Y # {}
    <3> DEFINE v == CaseResult(file, c, Evidence(c, {k}, FALSE))
    <3>1. Y = {} => v = Clear
      BY <2>2, <2>3, <2>5, CaseVerdict
    <3>2. v.status = "fail"
      BY DEF Shows, c
    <3> HIDE DEF v, Y
    <3> QED
      BY <3>1, <3>2 DEF Clear
  <2>7. PICK x \in X : Position(BoundaryOrder, x) <= Position(BoundaryOrder, Layer[k])
    BY <2>1, <2>3, <2>6, BlamedBefore
  <2>8. Position(BoundaryOrder, first) <= Position(BoundaryOrder, x)
    BY <2>3, BlamedBoundaries, FirstIsEarliest
  <2>9. results[n].first = first
    <3> HIDE DEF first, X
    <3>1. results[n].first \in {Foremost(BoundaryOrder, X)}
      BY <2>5 DEF Blaming
    <3> QED
      BY <3>1 DEF first
  <2>10. /\ Position(BoundaryOrder, first) \in 1..18 /\ Position(BoundaryOrder, x) \in 1..18
         /\ Position(BoundaryOrder, Layer[k]) \in 1..18
    <3>1. \A y \in Boundaries : Position(BoundaryOrder, y) \in 1..18
      BY PositionIs, Orders DEF Boundaries, Range
    <3>2. first \in Boundaries /\ x \in Boundaries
      BY <2>3, BlamedBoundaries, FirstIsEarliest
    <3>3. Layer[k] \in Boundaries
      BY <2>1, LayersAreBoundaries
    <3> QED
      BY <3>1, <3>2, <3>3
  <2> HIDE DEF first, X
  <2> QED
    BY <2>7, <2>8, <2>9, <2>10
<1> QED
  BY <1>1, GateInvariant, PTL

\* ReportAgrees of every run: the exit code, the counts of the report and the verdicts that fail the
\* gate say the same.
THEOREM ReportConsistent == Spec => []ReportAgrees
<1>1. IInv => ReportAgrees
  <2> SUFFICES ASSUME IInv, pc = "done", results # << >>
               PROVE  /\ exit = 0 <=> Counted(results, "pass") = Len(results)
                      /\ exit # 0 <=> \E n \in DOMAIN results : results[n].gateFailed
                      /\ exit = 0 => VetoCount(results) = 0
                      /\ Counted(results, "blocked") + Counted(results, "invalid_case")
                           <= VetoCount(results)
    BY DEF ReportAgrees, Ran
  <2> DEFINE D == DOMAIN results
             With(status) == {n \in D : results[n].status = status}
             Vetoes == {n \in D : /\ results[n].severity = "veto"
                                  /\ results[n].status \in {"fail", "blocked", "invalid_case"}}
  <2>1. Len(results) = 11 /\ D = 1..11 /\ IsFiniteSet(D) /\ Cardinality(D) = 11
    BY AfterTheCases, CountTo
  <2>2. exit = 0 <=> \A n \in D : results[n].status = "pass"
    BY <2>1, AfterTheCases
  <2>3. \A n \in D : Telling(results[n])
    BY <2>1, AfterTheCases, VerdictTells
  <2>4. exit = 0 <=> Cardinality(With("pass")) = 11
    <3>1. With("pass") \in SUBSET D
      OBVIOUS
    <3>2. With("pass") = D <=> \A n \in D : results[n].status = "pass"
      OBVIOUS
    <3> HIDE DEF D, With
    <3>3. Cardinality(D) = Cardinality(With("pass")) => D = With("pass")
      BY <2>1, <3>1, FS_Subset
    <3> QED
      BY <2>1, <2>2, <3>2, <3>3
  <2>5. exit # 0 <=> \E n \in D : results[n].gateFailed
    BY <2>2, <2>3 DEF Telling
  <2>6. exit = 0 => Cardinality(Vetoes) = 0
    <3>1. exit = 0 => Vetoes = {}
      BY <2>2
    <3> HIDE DEF Vetoes
    <3> QED
      BY <3>1, FS_EmptySet
  <2>7. Cardinality(With("blocked")) + Cardinality(With("invalid_case")) <= Cardinality(Vetoes)
    <3> DEFINE B == With("blocked") I == With("invalid_case") U == B \cup I
    <3>1. B \in SUBSET D /\ I \in SUBSET D /\ Vetoes \in SUBSET D /\ B \cap I = {}
      OBVIOUS
    <3>2. U \in SUBSET Vetoes
      BY <2>3 DEF Telling
    <3> HIDE DEF B, I, D, Vetoes
    <3>3. IsFiniteSet(B) /\ IsFiniteSet(I) /\ IsFiniteSet(Vetoes)
      BY <2>1, <3>1, FS_Subset
    <3>4. Cardinality(U) = Cardinality(B) + Cardinality(I) - Cardinality(B \cap I)
      BY <3>3, FS_Union
    <3>5. Cardinality(B \cap I) = 0
      BY <3>1, FS_EmptySet
    <3>6. Cardinality(U) <= Cardinality(Vetoes)
      <4> HIDE DEF U
      <4> QED
        BY <3>2, <3>3, FS_Subset
    <3>7. Cardinality(B) \in Nat /\ Cardinality(I) \in Nat
      BY <3>3, FS_CardinalityType
    <3>8. Cardinality(B) + Cardinality(I) <= Cardinality(Vetoes)
      BY <3>4, <3>5, <3>6, <3>7
    <3> QED
      BY <3>8 DEF B, I
  <2>8. /\ Counted(results, "pass") = Cardinality(With("pass"))
        /\ Counted(results, "blocked") = Cardinality(With("blocked"))
        /\ Counted(results, "invalid_case") = Cardinality(With("invalid_case"))
        /\ VetoCount(results) = Cardinality(Vetoes)
    BY DEF Counted, VetoCount
  <2> HIDE DEF With, Vetoes
  <2> QED
    BY <2>1, <2>4, <2>5, <2>6, <2>7, <2>8
<1> QED
  BY <1>1, GateInvariant, PTL
=============================================================================

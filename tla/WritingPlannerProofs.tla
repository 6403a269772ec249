------------------------ MODULE WritingPlannerProofs ------------------------
(***************************************************************************)
(* What the planner decides for every target, every skill states and every *)
(* memory, for any number of skills.                                       *)
(***************************************************************************)
EXTENDS LearningTables, FiniteSetTheorems, TLAPS

-----------------------------------------------------------------------------
(***************************************************************************)
(* Least elements                                                          *)
(***************************************************************************)

\* A non-empty set of naturals has a least element: the intervals from 0 are ordered
\* by inclusion, which is well-founded on finite sets.
LEMMA LeastNatural ==
    ASSUME NEW N \in SUBSET Nat, N # {}
    PROVE  \E m \in N : \A n \in N : m <= n
<1> DEFINE Intervals == {0..n : n \in N}
<1>1. Intervals \subseteq FiniteSubsetsOf(Nat)
  <2> SUFFICES ASSUME NEW n \in N PROVE 0..n \in FiniteSubsetsOf(Nat)
    OBVIOUS
  <2>1. IsFiniteSet(0..n)
    BY FS_Interval
  <2> QED
    BY <2>1 DEF FiniteSubsetsOf
<1>2. Intervals # {}
  OBVIOUS
<1>3. PICK I \in Intervals : \A J \in Intervals : <<J, I>> \notin StrictSubsetOrdering(Nat)
  BY <1>1, <1>2, FS_StrictSubsetOrderingWellFounded, WFMin
<1>4. PICK m \in N : I = 0..m
  OBVIOUS
<1>5. \A n \in N : ~(0..n \subseteq 0..m /\ 0..n # 0..m)
  <2> SUFFICES ASSUME NEW n \in N, 0..n \subseteq 0..m, 0..n # 0..m PROVE FALSE
    OBVIOUS
  <2>1. 0..n \in SUBSET Nat /\ 0..m \in SUBSET Nat
    OBVIOUS
  <2>2. <<0..n, 0..m>> \in StrictSubsetOrdering(Nat)
    BY <2>1 DEF StrictSubsetOrdering
  <2> QED
    BY <1>3, <1>4, <2>2
<1>6. ASSUME NEW n \in N, n < m PROVE FALSE
  <2>1. 0..n \subseteq 0..m
    BY <1>6
  <2>2. m \in 0..m /\ m \notin 0..n
    BY <1>6
  <2> QED
    BY <1>5, <2>1, <2>2
<1> QED
  BY <1>6

\* So every measure of the elements of a set is least somewhere.
LEMMA LeastMeasure ==
    ASSUME NEW S, S # {}, NEW f, \A s \in S : f[s] \in Nat
    PROVE  \E s \in S : \A t \in S : f[s] <= f[t]
<1> DEFINE N == {f[s] : s \in S}
<1>1. PICK m \in N : \A n \in N : m <= n
  BY LeastNatural
<1> QED
  BY <1>1

\* First names the candidate of the highest priority.
LEMMA FirstOf ==
    ASSUME NEW S \in SUBSET Skills, S # {}
    PROVE  First(S) \in S
<1>1. \A s \in S : Priority[s] \in Nat
  BY PriorityAssumption
<1>2. \E s \in S : \A t \in S : Priority[s] <= Priority[t]
  BY <1>1, LeastMeasure
<1> QED
  BY <1>2 DEF First

\* A set that is not several is the singleton of its first element.
LEMMA SingleOf ==
    ASSUME NEW S \in SUBSET Skills, S # {}, ~Several(S)
    PROVE  S = {First(S)}
BY FirstOf DEF Several

-----------------------------------------------------------------------------
(***************************************************************************)
(* The stages of a tie                                                     *)
(***************************************************************************)

\* Each stage leaves some of the candidates it was given.
LEMMA GapStage ==
    ASSUME NEW S \in SUBSET Skills, S # {}, NEW memory \in [Skills -> Memory]
    PROVE  AfterGap(S, memory) # {} /\ AfterGap(S, memory) \subseteq S
BY DEF AfterGap, Narrowed

LEMMA TrendStage ==
    ASSUME NEW S \in SUBSET Skills, S # {}, NEW memory \in [Skills -> Memory]
    PROVE  AfterTrend(S, memory) # {} /\ AfterTrend(S, memory) \subseteq S
<1>1. CASE \A s \in S : memory[s].trend \in DOMAIN Concern
  <2> DEFINE concern == [s \in S |-> Concern[memory[s].trend]]
  <2>1. \A s \in S : concern[s] \in Nat
    BY <1>1 DEF Concern
  <2>2. \E s \in S : \A t \in S : concern[s] <= concern[t]
    BY <2>1, LeastMeasure
  <2> QED
    BY <1>1, <2>2 DEF AfterTrend
<1> QED
  BY <1>1 DEF AfterTrend

LEMMA RecentStage ==
    ASSUME NEW S \in SUBSET Skills, S # {}, NEW memory \in [Skills -> Memory]
    PROVE  AfterRecent(S, memory) # {} /\ AfterRecent(S, memory) \subseteq S
<1> DEFINE count == [s \in S |-> memory[s].recent]
<1>1. \A s \in S : count[s] \in Nat
  BY DEF Memory
<1>2. \E s \in S : \A t \in S : count[s] <= count[t]
  BY <1>1, LeastMeasure
<1> QED
  BY <1>2 DEF AfterRecent

\* The whole trace satisfies its contract: four stages at most, each from two candidates
\* or more to some of them, and the last one to the selected skill.
LEMMA TieTrace ==
    ASSUME NEW S \in SUBSET Skills, Several(S), NEW memory \in [Skills -> Memory],
           NEW trace, trace.initial = S, trace.stages = Stages(S, memory),
           trace.selected = First(trace.stages[Len(trace.stages)])
    PROVE  ValidTrace(trace) /\ trace.selected \in S
<1> DEFINE gap == AfterGap(S, memory)
           trend == AfterTrend(gap, memory)
           recent == AfterRecent(trend, memory)
<1>1. S # {} /\ gap # {} /\ gap \subseteq S
  BY GapStage DEF Several
<1>2. trend # {} /\ trend \subseteq gap
  BY <1>1, TrendStage
<1>3. recent # {} /\ recent \subseteq trend
  BY <1>1, <1>2, RecentStage
<1>4. \A T \in SUBSET Skills : T # {} /\ ~Several(T) => T = {First(T)}
  BY SingleOf
<1> HIDE DEF gap, trend, recent
<1>5. CASE ~Several(gap)
  <2>1. trace.stages = <<gap>>
    BY <1>5 DEF Stages, gap
  <2> QED
    BY <2>1, <1>1, <1>4, <1>5 DEF ValidTrace, ValidStage
<1>6. CASE Several(gap) /\ ~Several(trend)
  <2>1. trace.stages = <<gap, trend>>
    BY <1>6 DEF Stages, gap, trend
  <2> QED
    BY <2>1, <1>1, <1>2, <1>4, <1>6 DEF ValidTrace, ValidStage
<1>7. CASE Several(gap) /\ Several(trend) /\ ~Several(recent)
  <2>1. trace.stages = <<gap, trend, recent>>
    BY <1>7 DEF Stages, gap, trend, recent
  <2> QED
    BY <2>1, <1>1, <1>2, <1>3, <1>4, <1>7 DEF ValidTrace, ValidStage
<1>8. CASE Several(gap) /\ Several(trend) /\ Several(recent)
  <2>1. trace.stages = <<gap, trend, recent, {First(recent)}>>
    BY <1>8 DEF Stages, gap, trend, recent
  <2>2. First(recent) \in recent /\ First({First(recent)}) = First(recent)
    BY <1>1, <1>2, <1>3, FirstOf
  <2> QED
    BY <2>1, <2>2, <1>1, <1>2, <1>3, <1>8 DEF ValidTrace, ValidStage
<1> QED
  BY <1>5, <1>6, <1>7, <1>8

-----------------------------------------------------------------------------
(***************************************************************************)
(* The candidates                                                          *)
(***************************************************************************)

\* There is something to practise exactly when the target is set, every skill is
\* observed and one is below the target.
LEMMA PracticeIsDue ==
    ASSUME NEW target, NEW states
    PROVE  NoPracticeReasons(target, states) = {} <=>
             /\ target # None
             /\ Observed(states) = Skills
             /\ ~Achieved(target, states)
BY PriorityAssumption DEF NoPracticeReasons

\* Then some skill has the largest gap, and every such skill is below the target.
LEMMA CandidatesBelowTarget ==
    ASSUME NEW target \in Nat \cup {None}, NEW states \in [Skills -> State],
           NoPracticeReasons(target, states) = {}
    PROVE  /\ LargestGap(target, states) # {}
           /\ \A s \in LargestGap(target, states) :
                states[s].estimate \in Nat /\ states[s].estimate < target
<1>1. target \in Nat /\ Observed(states) = Skills /\ ~Achieved(target, states)
  BY PracticeIsDue
<1>2. \A s \in Skills : states[s].estimate \in Nat
  BY <1>1 DEF Observed, State
<1> DEFINE estimate == [s \in Skills |-> states[s].estimate]
<1>3. \E s \in Skills : \A t \in Skills : estimate[s] <= estimate[t]
  BY <1>2, LeastMeasure, PriorityAssumption
<1>4. LargestGap(target, states) # {}
  BY <1>1, <1>2, <1>3 DEF LargestGap, Gap
<1>5. PICK t \in Skills : states[t].estimate < target
  BY <1>1, <1>2 DEF Achieved
<1> QED
  BY <1>1, <1>2, <1>4, <1>5 DEF LargestGap, Gap

-----------------------------------------------------------------------------
(***************************************************************************)
(* The decision                                                            *)
(***************************************************************************)

\* A practice for a candidate, with the count of its evidence stated in its reasons,
\* passes _check_practice.
LEMMA PracticePasses ==
    ASSUME NEW target \in Nat \cup {None}, NEW states \in [Skills -> State],
           NoPracticeReasons(target, states) = {},
           NEW s \in LargestGap(target, states), NEW tiebreak \in BOOLEAN
    PROVE  /\ Practice(target, states, s, tiebreak).type = "practice"
           /\ ValidDecision(Practice(target, states, s, tiebreak))
<1> DEFINE d == Practice(target, states, s, tiebreak)
<1>1. s \in Skills /\ s # None /\ target # None
  BY PracticeIsDue, NoneAssumption DEF LargestGap
<1>2. states[s].estimate < target /\ states[s].estimate # None
  BY CandidatesBelowTarget, NoneAssumption
<1>3. Qualifier(states[s]) = IF states[s].count < MinEstablishedEvidenceCount
                             THEN {"insufficient_evidence"} ELSE {}
  BY DEF Qualifier, FewEvidence
<1>4. d.reasons \in PracticeReasons
  <2> DEFINE more == (IF tiebreak THEN {"priority_tiebreak"} ELSE {}) \cup Qualifier(states[s])
  <2>1. more \in SUBSET {"priority_tiebreak", "insufficient_evidence"}
    BY <1>3
  <2>2. d.reasons = {"largest_target_gap"} \cup more
    BY DEF Practice
  <2> QED
    BY <2>1, <2>2 DEF PracticeReasons
<1>5. Insufficient(d) <=> states[s].count < MinEstablishedEvidenceCount
  BY <1>3 DEF Practice, Insufficient
<1> QED
  BY <1>1, <1>2, <1>4, <1>5 DEF Practice, ValidDecision, ValidPractice

\* A decision that there is nothing to practise passes _check_no_practice.
LEMMA NoPracticePasses ==
    ASSUME NEW target \in Nat \cup {None}, NEW states \in [Skills -> State],
           NoPracticeReasons(target, states) # {}
    PROVE  ValidDecision(NoPractice(target, states))
<1> DEFINE d == NoPractice(target, states)
<1>1. d.type = "no_practice" /\ d.skill = None /\ d.estimate = None
      /\ d.target = target /\ d.states = states /\ d.reasons = NoPracticeReasons(target, states)
  BY DEF NoPractice
<1>2. CASE target = None \/ Observed(states) # Skills
  BY <1>1, <1>2, PriorityAssumption DEF NoPracticeReasons, ValidDecision, ValidNoPractice
<1>3. CASE target # None /\ Observed(states) = Skills
  <2> DEFINE qualifiers == UNION {Qualifier(states[s]) : s \in Skills}
             few == \E s \in Skills : states[s].count < MinEstablishedEvidenceCount
  <2>1. qualifiers = IF few THEN {"insufficient_evidence"} ELSE {}
    BY DEF Qualifier, FewEvidence
  <2>2. Achieved(target, states) /\ d.reasons = {"target_achieved"} \cup qualifiers
    BY <1>1, <1>3, PriorityAssumption DEF NoPracticeReasons
  <2>3. d.reasons = IF few THEN {"target_achieved", "insufficient_evidence"}
                    ELSE {"target_achieved"}
    BY <2>1, <2>2
  <2> QED
    BY <1>1, <1>3, <2>2, <2>3 DEF Achieved, Insufficient, ValidDecision, ValidNoPractice
<1> QED
  BY <1>2, <1>3

\* RecordsReconstruct of every decision: whatever the target, the skill states and the
\* memory, what plan_practice_v2 decides passes the validators it is persisted under,
\* and the persisted envelope replays to the same decision.
THEOREM PlanReconstructs ==
    ASSUME NEW target \in Nat \cup {None}, NEW states \in [Skills -> State],
           NEW memory \in [Skills -> Memory]
    PROVE  Reconstructs(PlanV2(target, states, memory))
<1> DEFINE r == PlanV2(target, states, memory)
           candidates == LargestGap(target, states)
<1>1. CASE NoPracticeReasons(target, states) # {}
  <2>1. r = [decision |-> NoPractice(target, states), snapshot |-> {}]
    BY <1>1 DEF PlanV2
  <2> QED
    BY <2>1, <1>1, NoPracticePasses DEF Reconstructs, ValidRecord, NoPractice
<1>2. CASE NoPracticeReasons(target, states) = {} /\ ~Several(candidates)
  <2>1. r = [decision |-> Practice(target, states, First(candidates), FALSE),
             snapshot |-> {}]
    BY <1>2 DEF PlanV2, TieCandidates
  <2>2. First(candidates) \in candidates
    BY <1>2, CandidatesBelowTarget, FirstOf DEF LargestGap
  <2>3. ValidDecision(Practice(target, states, First(candidates), FALSE))
    BY <1>2, <2>2, PracticePasses
  <2>4. r.decision.target = target /\ r.decision.states = states /\ r.snapshot = {}
    BY <2>1 DEF Practice
  <2> QED
    <3>1. r.decision = Practice(target, states, First(candidates), FALSE)
      BY <2>1
    <3>2. Reconstructs(r)
      <4> HIDE DEF r, candidates
      <4> QED
        BY <1>2, <2>3, <2>4, <3>1 DEF Reconstructs, ValidRecord, candidates
    <3> QED
      BY <3>2
<1>3. CASE NoPracticeReasons(target, states) = {} /\ Several(candidates)
  <2> DEFINE stages == Stages(candidates, memory)
             selected == First(stages[Len(stages)])
             tiebreak == Len(stages) = 4
             trace == [memory |-> memory, initial |-> candidates, stages |-> stages,
                       selected |-> selected]
             d == Practice(target, states, selected, tiebreak)
  <2>1. r = ResolveTie(target, states, memory)
    BY <1>3 DEF PlanV2, TieCandidates
  <2>2. r = [decision |-> d, snapshot |-> {trace}]
    BY <2>1 DEF ResolveTie, TieCandidates
  <2>3. ValidTrace(trace) /\ selected \in candidates
    <3>1. /\ trace.initial = candidates /\ trace.stages = stages /\ trace.selected = selected
          /\ candidates \in SUBSET Skills
      BY DEF LargestGap
    <3> HIDE DEF trace, selected, candidates
    <3>2. trace.selected = First(trace.stages[Len(trace.stages)])
      BY <3>1 DEF selected
    <3> QED
      BY <1>3, <3>1, <3>2, TieTrace
  <2>4. ValidDecision(d)
    <3>1. tiebreak \in BOOLEAN
      OBVIOUS
    <3> QED
      BY <1>3, <2>3, <3>1, PracticePasses
  <2>5. d.type = "practice" /\ d.target = target /\ d.states = states /\ d.skill = selected
    BY DEF Practice
  <2>6. trace.memory = memory /\ trace.initial = candidates /\ trace.selected = selected
    OBVIOUS
  <2>7. ValidRecord(r)
    <3> HIDE DEF r, d, trace, candidates
    <3> QED
      BY <1>3, <2>2, <2>3, <2>4, <2>5, <2>6 DEF ValidRecord, candidates
  <2>8. \A t \in r.snapshot : ResolveTie(r.decision.target, r.decision.states, t.memory) = r
    <3>1. r.decision = d /\ r.snapshot = {trace}
      BY <2>2
    <3>2. ResolveTie(d.target, d.states, trace.memory) = ResolveTie(target, states, memory)
      BY <2>5, <2>6
    <3> HIDE DEF r, d, trace
    <3> QED
      BY <2>1, <3>1, <3>2
  <2> QED
    BY <2>7, <2>8 DEF Reconstructs
<1> QED
  BY <1>1, <1>2, <1>3

\* MemoryOnlyBreaksTies of every decision: outside a tie of the largest gap version 2
\* decides as version 1; in a tie both practise a skill with the largest gap.
THEOREM PlanBreaksTiesOnly ==
    ASSUME NEW target \in Nat \cup {None}, NEW states \in [Skills -> State],
           NEW memory \in [Skills -> Memory]
    PROVE  LET d == PlanV2(target, states, memory).decision
               v1 == PlanV1(target, states)
           IN \/ d = v1
              \/ /\ Several(LargestGap(target, states))
                 /\ v1.type = "practice" /\ d.type = "practice"
                 /\ v1.skill \in LargestGap(target, states)
                 /\ d.skill \in LargestGap(target, states)
                 /\ d.estimate = v1.estimate
<1> DEFINE d == PlanV2(target, states, memory).decision
           v1 == PlanV1(target, states)
           candidates == LargestGap(target, states)
<1>1. CASE NoPracticeReasons(target, states) # {}
  BY <1>1 DEF PlanV2, PlanV1
<1>2. CASE NoPracticeReasons(target, states) = {} /\ ~Several(candidates)
  <2>1. d = Practice(target, states, First(candidates), FALSE)
    BY <1>2 DEF PlanV2, TieCandidates
  <2>2. v1 = Practice(target, states, First(candidates), Several(candidates))
    BY <1>2 DEF PlanV1
  <2>3. d = v1
    BY <1>2, <2>1, <2>2 DEF Practice
  <2> QED
    BY <2>3
<1>3. CASE NoPracticeReasons(target, states) = {} /\ Several(candidates)
  <2> DEFINE stages == Stages(candidates, memory)
             selected == First(stages[Len(stages)])
             trace == [initial |-> candidates, stages |-> stages, selected |-> selected]
  <2>1. d = Practice(target, states, selected, Len(stages) = 4)
    BY <1>3 DEF PlanV2, ResolveTie, TieCandidates
  <2>2. v1 = Practice(target, states, First(candidates), TRUE)
    BY <1>3 DEF PlanV1
  <2>3. First(candidates) \in candidates
    BY <1>3, CandidatesBelowTarget, FirstOf DEF LargestGap
  <2>4. selected \in candidates
    <3>1. trace.selected \in candidates
      BY <1>3, TieTrace DEF LargestGap
    <3> QED
      BY <3>1
  <2>5. \A s, t \in candidates : states[s].estimate = states[t].estimate
    <3>1. target \in Nat
      BY <1>3, PracticeIsDue
    <3> SUFFICES ASSUME NEW s \in candidates, NEW t \in candidates
                 PROVE  states[s].estimate = states[t].estimate
      OBVIOUS
    <3>2. states[s].estimate \in Nat /\ states[t].estimate \in Nat
      BY <1>3, CandidatesBelowTarget
    <3>3. /\ target - states[s].estimate <= target - states[t].estimate
          /\ target - states[t].estimate <= target - states[s].estimate
      BY DEF LargestGap, Gap
    <3> QED
      BY <3>1, <3>2, <3>3
  <2> QED
    BY <1>3, <2>1, <2>2, <2>3, <2>4, <2>5 DEF Practice
<1> QED
  BY <1>1, <1>2, <1>3

\* RowsStorable of every decision: the constraints of practice_recommendations accept
\* whatever version 2 decides, for all targets, states and memories.
THEOREM PlanStorable ==
    ASSUME NEW target, target # None => HalfBand(target),
           NEW states \in [Skills -> State],
           \A s \in Skills : states[s].estimate # None => states[s].estimate \in BandRange,
           NEW memory \in [Skills -> Memory]
    PROVE  StorableRecommendation(PlanV2(target, states, memory).decision)
<1> DEFINE r == PlanV2(target, states, memory)
           d == r.decision
           candidates == LargestGap(target, states)
<1>1. target \in Nat \cup {None}
  BY DEF HalfBand, BandRange
<1>2. ValidDecision(d)
  BY <1>1, PlanReconstructs DEF Reconstructs, ValidRecord
<1>3. CASE NoPracticeReasons(target, states) # {}
  <2>1. d = NoPractice(target, states)
    BY <1>3 DEF PlanV2
  <2>2. d.type = "no_practice" /\ d.target = target /\ d.states = states
    BY <2>1 DEF NoPractice
  <2>3. ValidNoPractice(d)
    BY <1>2, <2>2 DEF ValidDecision
  <2>4. d.target # None => HalfBand(d.target)
    BY <2>2
  <2>5. DOMAIN d.states = Skills
    BY <2>2
  <2>6. d.reasons \in NoPracticeReasonSequences /\ (d.reasons = {"target_unset"} <=> d.target = None)
    <3> HIDE DEF d
    <3> QED
      BY <2>3 DEF ValidNoPractice, NoPracticeReasonSequences
  <2>7. StorableRecommendation(d)
    <3> HIDE DEF d
    <3> QED
      BY <2>2, <2>3, <2>4, <2>5, <2>6 DEF ValidNoPractice, StorableRecommendation
  <2> QED
    BY <2>7
<1>4. CASE NoPracticeReasons(target, states) = {}
  <2>1. \E s \in candidates, tiebreak \in BOOLEAN : d = Practice(target, states, s, tiebreak)
    <3>1. CASE ~Several(candidates)
      BY <1>1, <1>4, <3>1, CandidatesBelowTarget, FirstOf DEF PlanV2, TieCandidates, LargestGap
    <3>2. CASE Several(candidates)
      <4> DEFINE stages == Stages(candidates, memory)
                 selected == First(stages[Len(stages)])
                 trace == [initial |-> candidates, stages |-> stages, selected |-> selected]
      <4>1. d = Practice(target, states, selected, Len(stages) = 4)
        BY <1>4, <3>2 DEF PlanV2, ResolveTie, TieCandidates
      <4>2. trace.selected \in candidates
        BY <3>2, TieTrace DEF LargestGap
      <4> QED
        BY <4>1, <4>2
    <3> QED
      BY <3>1, <3>2
  <2>2. PICK s \in candidates, tiebreak \in BOOLEAN : d = Practice(target, states, s, tiebreak)
    BY <2>1
  <2>3. s \in Skills
    BY <2>2 DEF LargestGap
  <2>4. /\ d.type = "practice" /\ d.target = target /\ d.states = states /\ d.skill = s
        /\ d.estimate = states[s].estimate
    BY <2>2 DEF Practice
  <2>5. ValidPractice(d)
    BY <1>2, <2>4 DEF ValidDecision
  <2>6. d.reasons \in PracticeReasonSequences
    BY <2>5 DEF ValidPractice, PracticeReasons, PracticeReasonSequences
  <2>7. d.reasons # {"target_unset"}
    BY <2>6 DEF PracticeReasonSequences
  <2>8. d.target # None => HalfBand(d.target)
    BY <2>4
  <2>9. d.estimate # None => d.estimate \in BandRange
    BY <2>3, <2>4
  <2>10. DOMAIN d.states = Skills
    BY <2>4
  <2>11. StorableRecommendation(d)
    <3> HIDE DEF d
    <3> QED
      BY <2>3, <2>4, <2>5, <2>6, <2>7, <2>8, <2>9, <2>10 DEF ValidPractice, StorableRecommendation
  <2> QED
    BY <2>11
<1> QED
  BY <1>3, <1>4
=============================================================================

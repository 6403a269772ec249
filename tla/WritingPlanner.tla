--------------------------- MODULE WritingPlanner ---------------------------
(***************************************************************************)
(* The planner: from a learner's target band and skill states it decides   *)
(* what to practise next.  Version 1 breaks a tie of the largest gap by    *)
(* priority; version 2 first asks what memory knows of the tied skills.    *)
(* The second half is the contract that every persisted decision is held   *)
(* to when it is written and whenever it is read.                          *)
(*                                                                         *)
(* Bands are in hundredths.  Reasons and candidates are kept in one fixed  *)
(* order by the code, so a set stands for each list.                       *)
(***************************************************************************)
EXTENDS Integers, Sequences

CONSTANTS
    Skills,
    Priority,   \* PRACTICE_TIEBREAK_PRIORITY: a skill's place, the smallest first
    None

ASSUME PriorityAssumption ==
    /\ Skills # {}
    /\ Priority \in [Skills -> Nat]
    /\ \A s, t \in Skills : Priority[s] = Priority[t] => s = t
ASSUME NoneAssumption == None \notin Int /\ None \notin Skills

MinEstablishedEvidenceCount == 3

\* estimate is None for a skill that was never observed.
State == [estimate: Nat \cup {None}, count: Nat]
Trends == {"improving", "stable", "declining", "insufficient_history"}
\* gap holds only with an established history.
Memory == [trend: Trends, gap: BOOLEAN, recent: Nat]

Several(S) == \E s, t \in S : s # t
First(S) == CHOOSE s \in S : \A t \in S : Priority[s] <= Priority[t]
Observed(states) == {s \in Skills : states[s].estimate # None}
FewEvidence(state) == state.count < MinEstablishedEvidenceCount
QualifierOffByOne(state) ==   \* mutant: three observations are still too few
    IF state.count <= MinEstablishedEvidenceCount THEN {"insufficient_evidence"} ELSE {}
Qualifier(state) == IF FewEvidence(state) THEN {"insufficient_evidence"} ELSE {}

-----------------------------------------------------------------------------
(***************************************************************************)
(* plan_practice and select_practice_v2_base                               *)
(***************************************************************************)
Achieved(target, states) == \A s \in Skills : states[s].estimate >= target

\* Why there is nothing to practise; {} when there is.
NoPracticeReasons(target, states) ==
    IF target = None THEN {"target_unset"}
    ELSE IF Observed(states) = {} THEN {"cold_start"}
    ELSE IF Observed(states) # Skills THEN {"incomplete_state"}
    ELSE IF Achieved(target, states)
    THEN {"target_achieved"} \cup UNION {Qualifier(states[s]) : s \in Skills}
    ELSE {}

Gap(target, state) == target - state.estimate
LargestGap(target, states) ==
    {s \in Skills : \A t \in Skills : Gap(target, states[t]) <= Gap(target, states[s])}

NoPractice(target, states) ==
    [type |-> "no_practice", skill |-> None, target |-> target, estimate |-> None,
     reasons |-> NoPracticeReasons(target, states), states |-> states]
PracticeForTiebreak(target, states, skill, tiebreak) ==   \* mutant: one reason for two
    [type |-> "practice", skill |-> skill, target |-> target,
     estimate |-> states[skill].estimate,
     reasons |-> {IF tiebreak THEN "priority_tiebreak" ELSE "largest_target_gap"}
                 \cup Qualifier(states[skill]),
     states |-> states]
Practice(target, states, skill, tiebreak) ==
    [type |-> "practice", skill |-> skill, target |-> target,
     estimate |-> states[skill].estimate,
     reasons |-> {"largest_target_gap"}
                 \cup (IF tiebreak THEN {"priority_tiebreak"} ELSE {})
                 \cup Qualifier(states[skill]),
     states |-> states]

PlanV1(target, states) ==
    LET candidates == LargestGap(target, states) IN
    IF NoPracticeReasons(target, states) # {} THEN NoPractice(target, states)
    ELSE Practice(target, states, First(candidates), Several(candidates))

-----------------------------------------------------------------------------
(***************************************************************************)
(* resolve_practice_v2_exact_tie.  Each stage takes the candidates of the  *)
(* one before; a filter that would leave none of them leaves all.          *)
(***************************************************************************)
Narrowed(before, proposed) == IF proposed = {} THEN before ELSE proposed

AfterGap(S, memory) == Narrowed(S, {s \in S : memory[s].gap})

Concern == [declining |-> 0, stable |-> 1, improving |-> 2]
AfterTrend(S, memory) ==
    IF \A s \in S : memory[s].trend \in DOMAIN Concern
    THEN {s \in S : \A t \in S : Concern[memory[s].trend] <= Concern[memory[t].trend]}
    ELSE S

AfterRecent(S, memory) == {s \in S : \A t \in S : memory[s].recent <= memory[t].recent}

\* The candidates after each stage, up to the stage that leaves one.
Stages(S, memory) ==
    LET gap == AfterGap(S, memory)
        trend == AfterTrend(gap, memory)
        recent == AfterRecent(trend, memory)
    IN IF ~Several(gap) THEN <<gap>>
       ELSE IF ~Several(trend) THEN <<gap, trend>>
       ELSE IF ~Several(recent) THEN <<gap, trend, recent>>
       ELSE <<gap, trend, recent, {First(recent)}>>

TieCandidatesBelowTarget(target, states) ==   \* mutant: every gap is a tie
    {s \in Skills : states[s].estimate < target}
TieCandidates(target, states) == LargestGap(target, states)

ResolveTie(target, states, memory) ==
    LET candidates == TieCandidates(target, states)
        stages == Stages(candidates, memory)
        selected == First(stages[Len(stages)])
    IN [decision |-> Practice(target, states, selected, Len(stages) = 4),
        snapshot |-> {[memory |-> memory, initial |-> candidates, stages |-> stages,
                       selected |-> selected]}]

\* plan_practice_v2, with the envelope that is persisted beside the decision; {} is none.
PlanV2(target, states, memory) ==
    LET candidates == TieCandidates(target, states) IN
    IF NoPracticeReasons(target, states) # {}
    THEN [decision |-> NoPractice(target, states), snapshot |-> {}]
    ELSE IF ~Several(candidates)
    THEN [decision |-> Practice(target, states, First(candidates), FALSE), snapshot |-> {}]
    ELSE ResolveTie(target, states, memory)

-----------------------------------------------------------------------------
(***************************************************************************)
(* The contract of a persisted decision                                    *)
(***************************************************************************)
PracticeReasons == {{"largest_target_gap"} \cup more :
                      more \in SUBSET {"priority_tiebreak", "insufficient_evidence"}}
Insufficient(d) == "insufficient_evidence" \in d.reasons

\* _check_practice and _check_no_practice.
ValidPractice(d) ==
    /\ d.reasons \in PracticeReasons
    /\ d.skill # None /\ d.target # None /\ d.estimate # None
    /\ d.estimate = d.states[d.skill].estimate
    /\ d.estimate < d.target
    /\ Insufficient(d) <=> d.states[d.skill].count < MinEstablishedEvidenceCount

ValidNoPractice(d) ==
    /\ d.skill = None /\ d.estimate = None
    /\ \/ d.reasons = {"target_unset"} /\ d.target = None
       \/ /\ d.reasons \in {{"target_achieved"}, {"target_achieved", "insufficient_evidence"}}
          /\ d.target # None
          /\ Observed(d.states) = Skills
          /\ \A s \in Skills : d.states[s].estimate >= d.target
          /\ Insufficient(d) <=>
               \E s \in Skills : d.states[s].count < MinEstablishedEvidenceCount
       \/ d.reasons = {"cold_start"} /\ d.target # None /\ Observed(d.states) = {}
       \/ /\ d.reasons = {"incomplete_state"} /\ d.target # None
          /\ Observed(d.states) \notin {{}, Skills}

ValidDecision(d) == IF d.type = "practice" THEN ValidPractice(d) ELSE ValidNoPractice(d)

\* A stage starts with two candidates or more, where the one before ended.
ValidStage(before, after, stage) ==
    /\ Several(before)
    /\ after # {} /\ after \subseteq before
    /\ stage = 4 => after = {First(before)}
ValidTrace(trace) ==
    LET stages == trace.stages IN
    /\ Len(stages) \in 1..4
    /\ \A i \in 1..Len(stages) :
         ValidStage(IF i = 1 THEN trace.initial ELSE stages[i - 1], stages[i], i)
    /\ stages[Len(stages)] = {trace.selected}

\* A version 2 decision carries its envelope exactly when the largest gap is a tie.
ValidRecord(r) ==
    LET d == r.decision candidates == LargestGap(d.target, d.states) IN
    /\ ValidDecision(d)
    /\ IF d.type = "practice" /\ Several(candidates)
       THEN \E trace \in r.snapshot :
              /\ r.snapshot = {trace}
              /\ ValidTrace(trace)
              /\ trace.initial = candidates
              /\ trace.selected = d.skill
       ELSE r.snapshot = {}

\* reconstruct_persisted_planning_record: the envelope is replayed from itself.
Reconstructs(r) ==
    /\ ValidRecord(r)
    /\ \A trace \in r.snapshot :
         ResolveTie(r.decision.target, r.decision.states, trace.memory) = r
=============================================================================

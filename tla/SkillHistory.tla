---------------------------- MODULE SkillHistory ----------------------------
(***************************************************************************)
(* One learner's history as the planner sees it.  Essays are written in    *)
(* one order (created_at, id) and applied in another; each application     *)
(* replays all accepted evidence in the canonical order of writing, and    *)
(* persists a decision with the facts it was decided on.                   *)
(***************************************************************************)
EXTENDS LearningTables, FiniteSets

CONSTANTS
    Bands,        \* observed bands
    Targets,      \* writing_target_band of a learner
    MaxAttempts   \* bound: essays written

ASSUME BandAssumption == \A band \in Bands \cup Targets : HalfBand(band)
ASSUME BoundAssumption == MaxAttempts \in Nat

VARIABLES
    target,
    attempts,   \* evaluated essays in canonical order; answers is the update whose practice
                \* the essay was written for, or 0
    updates,    \* accepted updates in id order: the attempt each has applied
    skill,      \* learner_skill_states
    records     \* the recommendation of each update with its envelope

vars == <<target, attempts, updates, skill, records>>

TrendWindow == 3
PlanningRecentPracticeWindow == 3
TrendDeltaThreshold == 50

Attempt == [bands: [Skills -> Bands], answers: 0..MaxAttempts]
MaterializedState == [estimate: BandRange \cup {None}, count: 0..MaxAttempts]

TypeOK ==
    /\ target \in Targets
    /\ attempts \in Seq(Attempt) /\ Len(attempts) <= MaxAttempts
    /\ updates \in Seq(DOMAIN attempts) /\ Len(updates) <= Len(attempts)
    /\ skill \in [Skills -> MaterializedState]
    /\ Len(records) = Len(updates)
    /\ \A n \in DOMAIN records :
         /\ records[n].decision.states \in [Skills -> MaterializedState]
         /\ records[n].decision.skill \in Skills \cup {None}

Unobserved == [estimate |-> None, count |-> 0]

Init ==
    /\ target \in Targets
    /\ attempts = << >>
    /\ updates = << >>
    /\ skill = [s \in Skills |-> Unobserved]
    /\ records = << >>

-----------------------------------------------------------------------------
(***************************************************************************)
(* state_engine.py                                                         *)
(***************************************************************************)
Accepted(applied) == {applied[n] : n \in DOMAIN applied}
\* The accepted among the first attempts, by (source_created_at, source_attempt_id).
InOrder(accepted) ==
    LET sorted[i \in Nat] ==
          IF i = 0 THEN << >>
          ELSE IF i \in accepted THEN Append(sorted[i - 1], i) ELSE sorted[i - 1]
    IN sorted
NewestFirst(applied) ==   \* mutant: created_at descending
    LET order == InOrder(Accepted(applied))[Len(attempts)]
    IN [i \in DOMAIN order |-> order[Len(order) + 1 - i]]
ArrivalOrder(applied) == applied   \* mutant: evidence in the order of its ids
CanonicalOrder(applied) == InOrder(Accepted(applied))[Len(attempts)]

Values(applied, s) ==
    LET order == CanonicalOrder(applied)
    IN [i \in DOMAIN order |-> attempts[order[i]].bands[s]]

BlendUnweighted(value, e) ==   \* mutant: alpha weighs the old estimate only
    [num |-> 2 * value * e.den + e.num, den |-> 2 * e.den]
\* value * 0.5 + estimate * 0.5, exact: the estimate is num / den.
Blend(value, e) == [num |-> value * e.den + e.num, den |-> 2 * e.den]
EwmaEstimate(values) ==
    LET replay[i \in 1..Len(values)] ==
          IF i = 1 THEN [num |-> values[1], den |-> 1]
          ELSE Blend(values[i], replay[i - 1])
    IN replay[Len(values)]

\* ROUND_HALF_UP to a hundredth.
Quantize(e) == (2 * e.num + e.den) \div (2 * e.den)

RebuildSkillState(applied, s) ==
    IF applied = << >> THEN Unobserved
    ELSE [estimate |-> Quantize(EwmaEstimate(Values(applied, s))), count |-> Len(applied)]

-----------------------------------------------------------------------------
(***************************************************************************)
(* build_memory_aware_planning_context                                     *)
(***************************************************************************)
LastOf(seq, n) == SubSeq(seq, IF Len(seq) > n THEN Len(seq) - n + 1 ELSE 1, Len(seq))
TrendOf(values) ==
    LET window == LastOf(values, TrendWindow)
        delta == window[Len(window)] - window[1]
    IN IF Len(values) < TrendWindow THEN "insufficient_history"
       ELSE IF delta >= TrendDeltaThreshold THEN "improving"
       ELSE IF delta <= -TrendDeltaThreshold THEN "declining"
       ELSE "stable"
PersistentGap(values) ==
    /\ Len(values) >= TrendWindow
    /\ LET window == LastOf(values, TrendWindow)
       IN \A i \in DOMAIN window : window[i] < target
\* The completed practices for s among the latest updates by id.
RecentPractices(applied, s) ==
    LET window == LastOf(applied, PlanningRecentPracticeWindow)
        practised(a) == LET n == attempts[a].answers
                        IN n # 0 /\ records[n].decision.skill = s
    IN Cardinality({i \in DOMAIN window : practised(window[i])})

MemoryContext(applied) ==
    [s \in Skills |-> [trend |-> TrendOf(Values(applied, s)),
                       gap |-> PersistentGap(Values(applied, s)),
                       recent |-> RecentPractices(applied, s)]]

-----------------------------------------------------------------------------
\* An essay of the learner's choice is evaluated.
Write(bands) ==
    /\ Len(attempts) < MaxAttempts
    /\ attempts' = Append(attempts, [bands |-> bands, answers |-> 0])
    /\ UNCHANGED <<target, updates, skill, records>>

\* The practice of update n is generated and its essay submitted.
Practise(n, bands) ==
    /\ Len(attempts) < MaxAttempts
    /\ n \in DOMAIN records /\ records[n].decision.type = "practice"
    /\ \A a \in DOMAIN attempts : attempts[a].answers # n
    /\ attempts' = Append(attempts, [bands |-> bands, answers |-> n])
    /\ UNCHANGED <<target, updates, skill, records>>

\* apply_writing_evaluation: all evidence is replayed, then the planner decides.
Apply(a) ==
    LET applied == Append(updates, a)
        states == [s \in Skills |-> RebuildSkillState(applied, s)] IN
    /\ a \in DOMAIN attempts
    /\ \A n \in DOMAIN updates : updates[n] # a
    /\ updates' = applied
    /\ skill' = states
    /\ records' = Append(records, PlanV2(target, states, MemoryContext(applied)))
    /\ UNCHANGED <<target, attempts>>

Next ==
    \/ \E bands \in [Skills -> Bands] : Write(bands)
    \/ \E n \in 1..MaxAttempts, bands \in [Skills -> Bands] : Practise(n, bands)
    \/ \E a \in 1..MaxAttempts : Apply(a)

Spec == Init /\ [][Next]_vars

-----------------------------------------------------------------------------
(***************************************************************************)
(* Properties                                                              *)
(***************************************************************************)

\* The weight of the k-th of n observations, out of 2^(n - 1): the newest has half,
\* each older one half of the next, and the two oldest the same.
PowerOfTwo[n \in Nat] == IF n = 0 THEN 1 ELSE 2 * PowerOfTwo[n - 1]
Weight(k) == IF k = 1 THEN 1 ELSE PowerOfTwo[k - 2]
Applied == Accepted(updates)
Place(a) == Cardinality({b \in Applied : b <= a})
Weighted(a, s) == IF a \in Applied THEN Weight(Place(a)) * attempts[a].bands[s] ELSE 0
\* The sum of the accepted evidence of the first attempts, each with its weight.
WeightedSum(s) ==
    LET sum[a \in Nat] == IF a = 0 THEN 0 ELSE sum[a - 1] + Weighted(a, s) IN sum

\* A materialized state depends on which essays were accepted and not on the order in
\* which they arrived: it is the weighted mean of the evidence in the order of writing,
\* to the nearest hundredth, half up.
StateIgnoresArrival ==
    updates # << >> =>
      \A s \in Skills :
        LET sum == WeightedSum(s)[Len(attempts)]
            total == PowerOfTwo[Cardinality(Applied) - 1]
            twice == 2 * sum + total   \* twice the mean of the evidence, plus one
        IN /\ 2 * total * skill[s].estimate <= twice
           /\ twice < 2 * total * (skill[s].estimate + 1)
           /\ skill[s].count = Cardinality(Applied)

\* Every decision the planner makes satisfies the contract it is persisted and read
\* back under, and replays to itself: an application never fails on its own decision,
\* and an old recommendation can always be shown.
RecordsReconstruct == \A n \in DOMAIN records : Reconstructs(records[n])

\* PostgreSQL accepts every row an application writes: the target, the evidence of the
\* essay, the skill states rebuilt from all of it and the decision made on them satisfy the
\* tables' constraints, so an application is never refused for what was computed.
RowsStorable ==
    /\ StorableLearner(target)
    /\ \A a \in Applied : StorableEvidence(attempts[a].bands)
    /\ \A s \in Skills : StorableState(skill[s])
    /\ \A n \in DOMAIN records : StorableRecommendation(records[n].decision)

\* Memory only ever breaks ties: where one skill has the largest gap, or none is to be
\* practised, version 2 decides as version 1 does, and a tie stays within the tied skills.
MemoryOnlyBreaksTies ==
    \A n \in DOMAIN records :
      LET d == records[n].decision v1 == PlanV1(d.target, d.states) IN
      \/ d = v1
      \/ /\ v1.type = "practice" /\ d.type = "practice"
         /\ "priority_tiebreak" \in v1.reasons
         /\ d.estimate = v1.estimate

\* A newest essay at or above the target in every criterion never turns an achieved
\* target back into practice, for all the rounding in between.
AchievedStaysAchieved ==
    [][LET a == updates'[Len(updates')] IN
         /\ Len(updates') > Len(updates)
         /\ Observed(skill) = Skills /\ Achieved(target, skill)
         /\ \A b \in Applied : b < a
         /\ \A s \in Skills : attempts[a].bands[s] >= target
         => records'[Len(records')].decision.type = "no_practice"]_vars
=============================================================================

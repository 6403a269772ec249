--------------------------- MODULE LearningTables ---------------------------
(***************************************************************************)
(* The CHECK constraints of the learning tables: what PostgreSQL lets an   *)
(* application commit.  They state the planner's contract once more, apart *)
(* from the planner and from the validators, in SQL; a decision they       *)
(* refuse could never be stored, and its application would fail each time  *)
(* it is tried.                                                            *)
(***************************************************************************)
EXTENDS WritingPlanner

BandRange == 0..900
HalfBand(band) == band \in BandRange /\ band % 50 = 0

\* learners
StorableLearner(target) == HalfBand(target)

\* learning_evidence: one row of an update for each skill.
StorableEvidence(bands) == DOMAIN bands = Skills /\ \A s \in Skills : HalfBand(bands[s])

\* learner_skill_states: the observed and the unobserved shape.
StorableState(state) ==
    \/ state.count = 0 /\ state.estimate = None
    \/ state.count > 0 /\ state.estimate \in BandRange

PracticeReasonSequences ==
    {{"largest_target_gap"}, {"largest_target_gap", "priority_tiebreak"},
     {"largest_target_gap", "insufficient_evidence"},
     {"largest_target_gap", "priority_tiebreak", "insufficient_evidence"}}
NoPracticeReasonSequences ==
    {{"target_achieved"}, {"target_achieved", "insufficient_evidence"},
     {"cold_start"}, {"incomplete_state"}, {"target_unset"}}

\* practice_recommendations: each conjunct is a constraint of the table.
StorableRecommendation(d) ==
    /\ d.skill \in Skills \cup {None}
    /\ d.target # None => HalfBand(d.target)
    /\ d.estimate # None => d.estimate \in BandRange
    /\ \/ d.type = "practice" /\ d.reasons \in PracticeReasonSequences
       \/ d.type = "no_practice" /\ d.reasons \in NoPracticeReasonSequences
    /\ d.reasons = {"target_unset"} <=> d.target = None
    /\ \/ d.type = "practice" /\ d.skill # None /\ d.target # None /\ d.estimate # None
       \/ d.type = "no_practice" /\ d.skill = None /\ d.estimate = None
    /\ DOMAIN d.states = Skills
=============================================================================

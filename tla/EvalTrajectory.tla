--------------------------- MODULE EvalTrajectory ---------------------------
(***************************************************************************)
(* evaluate_trajectory: what the evaluation gate says of one agent turn,   *)
(* from its first observation, the outcomes of its steps and its stop      *)
(* reason.  The code returns the first violation it meets; here are all of *)
(* them, and a turn passes when there is none.                             *)
(***************************************************************************)
EXTENDS Naturals, Sequences, FiniteSets

ToolOf ==
    [observation_classified |-> "observe",
     practice_generated |-> "generate", practice_resolved |-> "generate",
     generation_stale_discarded |-> "generate",
     submission_submitted |-> "submit", submission_reused |-> "submit",
     submission_in_progress |-> "submit", submission_conflict |-> "submit",
     completion_applied |-> "complete", completion_reused |-> "complete"]
Outcomes == DOMAIN ToolOf

MaxMutations == 3
MaxObservations == 4
MaxProviderCalls == 2
MaxGenerations == 1
MaxCompletions == 1

Prepared == {"practice_generated", "practice_resolved"}
Stored == {"submission_submitted", "submission_reused"}
ProviderBacked == {"practice_generated", "submission_submitted"}
StopAfter == [submission_conflict |-> "submission_conflict",
              submission_in_progress |-> "await_submission"]

Numbered(steps, outcomes) == {i \in DOMAIN steps : steps[i] \in outcomes}
By(tool) == {o \in Outcomes : ToolOf[o] = tool}
Count(steps, tool) == Cardinality(Numbered(steps, By(tool)))
Mutating == Outcomes \ By("observe")
Before(steps, i, outcomes) == \E j \in Numbered(steps, outcomes) : j < i

BoundViolations(steps) ==
    {v \in {"initial_observation", "observation_bound", "mutation_bound", "generation_bound",
            "completion_bound", "provider_bound"} :
       CASE v = "initial_observation" -> steps = << >> \/ ToolOf[Head(steps)] # "observe"
         [] v = "observation_bound" -> Count(steps, "observe") > MaxObservations
         [] v = "mutation_bound" -> Cardinality(Numbered(steps, Mutating)) > MaxMutations
         [] v = "generation_bound" -> Count(steps, "generate") > MaxGenerations
         [] v = "completion_bound" -> Count(steps, "complete") > MaxCompletions
         [] v = "provider_bound" ->
              Cardinality(Numbered(steps, ProviderBacked)) > MaxProviderCalls}

\* The observations that give a turn a practice to submit or a submission to complete.
PracticeContext == {"needs_practice_submission", "needs_completion"}
OwnSubmission == {}   \* mutant: only a submission of this turn can be completed
SubmissionContext == {"needs_completion"}

StepViolations(first, steps, i) ==
    LET o == steps[i] IN
    {v \in {"mutation_after_terminal", "generation_without_valid_state",
            "submission_after_completion", "submission_after_generation",
            "submission_without_practice", "duplicate_submission",
            "completion_without_submission"} :
       CASE v = "mutation_after_terminal" ->
              o \in Mutating /\ Before(steps, i, DOMAIN StopAfter)
         [] v = "generation_without_valid_state" ->
              /\ ToolOf[o] = "generate"
              /\ first # "needs_generation" /\ ~Before(steps, i, By("complete"))
         [] v = "submission_after_completion" ->
              ToolOf[o] = "submit" /\ Before(steps, i, By("complete"))
         [] v = "submission_after_generation" ->
              ToolOf[o] = "submit" /\ Before(steps, i, Prepared)
         [] v = "submission_without_practice" ->
              /\ ToolOf[o] = "submit" /\ o # "submission_reused"
              /\ first \notin PracticeContext /\ ~Before(steps, i, Prepared)
         [] v = "duplicate_submission" -> o \in Stored /\ Before(steps, i, Stored)
         [] v = "completion_without_submission" ->
              /\ ToolOf[o] = "complete"
              /\ first \notin SubmissionContext /\ ~Before(steps, i, Stored)}

StopViolations(steps, stop) ==
    {o \in DOMAIN StopAfter : Numbered(steps, {o}) # {} /\ stop # StopAfter[o]} \cup
    {o \in {"generation_stale_discarded"} :
       Numbered(steps, {o}) # {} /\ stop # "max_actions"}

Violations(first, steps, stop) ==
    BoundViolations(steps) \cup StopViolations(steps, stop)
      \cup UNION {StepViolations(first, steps, i) : i \in DOMAIN steps}
=============================================================================

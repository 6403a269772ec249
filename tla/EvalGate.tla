------------------------------ MODULE EvalGate ------------------------------
(***************************************************************************)
(* The deterministic evaluation gate: `python -m app.eval.gate` (or the    *)
(* narrower `app.eval.regression_runtime`) checks that it is aimed at a    *)
(* test database, runs the canonical corpus one case at a time against the *)
(* real services, resets the database around every case, reduces each      *)
(* case's findings to one verdict and turns the suite into an exit code.   *)
(* The services are what is on trial, so they come in here broken in any   *)
(* of the ways the corpus is meant to notice.                              *)
(***************************************************************************)
EXTENDS Naturals, Sequences, FiniteSets, Functions

CONSTANTS
    MaxBroken,   \* how many contracts the services break at once
    MaxFaults    \* how many cases the infrastructure fails in

ASSUME BoundsAssumption == MaxBroken \in Nat /\ MaxFaults \in Nat

BoundaryOrder ==
    <<"case_validation", "provider_contract", "evaluation", "persistence", "learning_update",
      "state", "memory", "planner", "recommendation", "knowledge", "practice_generation",
      "practice_submission", "practice_completion", "agent_trajectory", "authority",
      "calibration", "reporting", "infrastructure">>
StatusOrder == <<"invalid_case", "blocked", "fail", "pass">>
SeverityOrder == <<"veto", "major", "minor", "info">>
Position(seq, x) == CHOOSE n \in DOMAIN seq : seq[n] = x
Foremost(seq, found) == seq[CHOOSE n \in DOMAIN seq :
                              seq[n] \in found /\ \A k \in DOMAIN seq : seq[k] \in found => n <= k]

-----------------------------------------------------------------------------
(* The corpus, in the order of its case ids.                               *)

Case(category, severity, evaluators) ==
    [category |-> category, severity |-> severity, evaluators |-> evaluators]
CanonicalCases ==
    [agent_bounded |-> Case("agent_trajectory", "major", {"trajectory", "outcome"}),
     knowledge_unknown |-> Case("knowledge", "veto", {"knowledge_grounding", "authority"}),
     learning_update_replay |-> Case("persistence", "veto", {"outcome", "lifecycle"}),
     memory_planner_tie |-> Case("memory", "major", {"outcome", "lifecycle"}),
     multi_episode |-> Case("lifecycle", "veto", {"outcome", "lifecycle", "authority"}),
     practice_stale |-> Case("practice", "major", {"outcome", "authority"}),
     product_band |-> Case("evaluation", "veto", {"outcome", "authority"}),
     provider_invalid |-> Case("provider_contract", "veto", {"outcome", "authority"}),
     recommendation_cross |-> Case("recommendation", "veto", {"outcome", "authority"}),
     retry_exhaustion |-> Case("provider_contract", "major", {"outcome", "authority"}),
     state_late_arrival |-> Case("state", "major", {"outcome", "lifecycle"})]
Order ==
    <<"agent_bounded", "knowledge_unknown", "learning_update_replay", "memory_planner_tie",
      "multi_episode", "practice_stale", "product_band", "provider_invalid",
      "recommendation_cross", "retry_exhaustion", "state_late_arrival">>
Registered == DOMAIN CanonicalCases

\* The corpus file as it may be edited: the canonical one, one that does not load, one that
\* drops a case, adds one, or asks a case for an evaluator its executor does not run.
Files == {"canonical", "unloadable", "dropped", "added", "widened"}
CaseIds(file) == CASE file = "dropped" -> Registered \ {"retry_exhaustion"}
                   [] file = "added" -> Registered \union {"unwritten"}
                   [] OTHER -> Registered
Applicable(file, c) == CanonicalCases[c].evaluators
                         \union (IF file = "widened" /\ c = "retry_exhaustion"
                                 THEN {"lifecycle"} ELSE {})

-----------------------------------------------------------------------------
(* The evaluators.  A finding carries the boundary it blames.              *)

Finding(evaluator, status, severity, boundary) ==
    [evaluator |-> evaluator, status |-> status, severity |-> severity, boundary |-> boundary]
Judge(evaluator, wrong, severity, boundary) ==
    IF wrong THEN Finding(evaluator, "fail", severity, boundary)
             ELSE Finding(evaluator, "pass", "info", "none")

CategoryBoundary(category) == CASE category = "practice" -> "practice_generation"
                                [] category = "lifecycle" -> "learning_update"
                                [] OTHER -> category
EvaluateOutcome(c, wrong) ==
    Judge("outcome", wrong, CanonicalCases[c].severity,
          CategoryBoundary(CanonicalCases[c].category))
EvaluateAuthority(wrong) == Judge("authority", wrong, "veto", "authority")
\* Of what the trajectory evaluator checks, the fixed turn can exceed a bound, which comes
\* first, or generate before it has completed.
EvaluateTrajectory(broken) ==
    Judge("trajectory", broken \cap {"unbounded_turn", "misordered_turn"} # {},
          IF "unbounded_turn" \in broken THEN "veto" ELSE "major", "agent_trajectory")
\* The unknown knowledge id must be rejected: not to reject it is the failure.
ExpectedFailClosed(grounded) == Judge("knowledge_grounding", grounded, "veto", "knowledge")

LifecycleCheck(broken, boundary, severity) ==
    [broken |-> broken, boundary |-> boundary, severity |-> severity]
\* The checks that can fail on evidence that _build_lifecycle assembles.  The others compare
\* values it takes from the same rows, or raise before there is any evidence.
LifecycleChecks ==
    <<LifecycleCheck("update_twice", "evaluation", "veto"),
      LifecycleCheck("replay_duplicates", "learning_update", "veto"),
      LifecycleCheck("arrival_state", "state", "major"),
      LifecycleCheck("memory_order", "memory", "major"),
      LifecycleCheck("current_update", "recommendation", "veto"),
      LifecycleCheck("practice_owner", "practice_generation", "veto"),
      LifecycleCheck("writing_read", "infrastructure", "veto")>>
EvaluateLifecycle(broken) ==
    LET failed == {check \in Range(LifecycleChecks) : check.broken \in broken}
        first == Foremost(LifecycleChecks, failed)
    IN IF failed = {} THEN Judge("lifecycle", FALSE, "info", "none")
       ELSE Judge("lifecycle", TRUE, first.severity, first.boundary)

-----------------------------------------------------------------------------
(* The executors.  Layer is the boundary a broken contract belongs to.     *)

Layer ==
    [invalid_output |-> "provider_contract", retry_count |-> "provider_contract",
     exhaustion_writes |-> "provider_contract", provider_band |-> "evaluation",
     no_recommendation |-> "recommendation", update_twice |-> "learning_update",
     replay_duplicates |-> "learning_update",
     arrival_state |-> "state", memory_order |-> "memory", memory_weighs |-> "planner",
     current_update |-> "recommendation", cross_learner |-> "recommendation",
     unknown_grounded |-> "knowledge", knowledge_context |-> "knowledge",
     practice_owner |-> "practice_generation", stale_accepted |-> "practice_submission",
     unbounded_turn |-> "agent_trajectory", misordered_turn |-> "agent_trajectory",
     writing_read |-> "infrastructure"]
Contracts == DOMAIN Layer

\* The cases that build two episodes, with or without a practice.
Episodes == {"learning_update_replay", "memory_planner_tie", "multi_episode",
             "practice_stale", "recommendation_cross", "state_late_arrival"}
WithPractice == {"multi_episode"}

\* Rows left by somebody else make an episode's insert fail; so do the assertions.
Raises(c, broken, rows) ==
    \/ c \in Episodes /\ (rows \/ "no_recommendation" \in broken)
    \/ c \in WithPractice /\ "knowledge_context" \in broken

BuildLifecycle(c, broken) == broken \ (IF c \in WithPractice THEN {} ELSE {"practice_owner"})

Both(c, wrong) == <<EvaluateOutcome(c, wrong), EvaluateAuthority(wrong)>>
WithLifecycle(c, broken, wrong) ==
    <<EvaluateOutcome(c, wrong), EvaluateLifecycle(BuildLifecycle(c, broken))>>

ProviderInvalid(broken) == Both("provider_invalid", "invalid_output" \in broken)
ProductBand(broken) == Both("product_band", "provider_band" \in broken)
RetryExhaustion(broken, rows) ==
    LET writes == rows \/ "exhaustion_writes" \in broken IN
    <<EvaluateOutcome("retry_exhaustion", writes),
      EvaluateAuthority(writes \/ "retry_count" \in broken)>>
\* A replay that changes rows: it adds an update of its own, or changes what there is.
Replays == {"update_twice", "replay_duplicates"}
IdempotentReplay(broken) ==
    WithLifecycle("learning_update_replay", broken, broken \cap Replays # {})
LateArrival(broken) == WithLifecycle("state_late_arrival", broken, "arrival_state" \in broken)
MemoryPlannerTie(broken) ==
    WithLifecycle("memory_planner_tie", broken, "memory_weighs" \in broken)
CrossLearner(broken) == Both("recommendation_cross", "cross_learner" \in broken)
StalePractice(broken) == Both("practice_stale", "stale_accepted" \in broken)
UnknownKnowledge(broken) ==
    LET grounded == "unknown_grounded" \in broken IN
    <<ExpectedFailClosed(grounded), EvaluateAuthority(grounded)>>
BoundedAgent(broken) ==
    <<EvaluateTrajectory(broken), EvaluateOutcome("agent_bounded", FALSE)>>
MultiEpisode(broken) ==
    LET unsafe == broken \cap (Replays \union {"current_update"}) # {} IN
    Append(WithLifecycle("multi_episode", broken, unsafe), EvaluateAuthority(unsafe))

Evidence(c, broken, rows) ==
    CASE c = "provider_invalid" -> ProviderInvalid(broken)
      [] c = "product_band" -> ProductBand(broken)
      [] c = "retry_exhaustion" -> RetryExhaustion(broken, rows)
      [] c = "learning_update_replay" -> IdempotentReplay(broken)
      [] c = "state_late_arrival" -> LateArrival(broken)
      [] c = "memory_planner_tie" -> MemoryPlannerTie(broken)
      [] c = "recommendation_cross" -> CrossLearner(broken)
      [] c = "practice_stale" -> StalePractice(broken)
      [] c = "knowledge_unknown" -> UnknownKnowledge(broken)
      [] c = "agent_bounded" -> BoundedAgent(broken)
      [] c = "multi_episode" -> MultiEpisode(broken)

-----------------------------------------------------------------------------
(* Attribution and the runner's verdict on a case.                         *)

Causes(findings, status) ==
    {f \in Range(findings) : f.status = status /\ f.boundary # "none"}
FirstReported(findings, status) ==   \* mutant: the evaluators' order, not the boundaries'
    LET causes == Causes(findings, status) IN
    IF causes = {} THEN "none" ELSE Foremost(findings, causes).boundary
FirstBoundary(findings, status) ==
    LET causes == Causes(findings, status) IN
    IF causes = {} THEN "none" ELSE Foremost(BoundaryOrder, {f.boundary : f \in causes})

AttributeFindings(findings) ==
    LET status == Foremost(StatusOrder, {f.status : f \in Range(findings)})
        severity == Foremost(SeverityOrder, {f.severity : f \in Range(findings)})
    IN [status |-> status, severity |-> severity, first |-> FirstBoundary(findings, status),
        gateFailed |-> \/ status \in {"invalid_case", "blocked"}
                       \/ status = "fail" /\ severity \in {"veto", "major"}]
InvalidCase == AttributeFindings(<<Finding("outcome", "invalid_case", "veto",
                                           "case_validation")>>)
BlockedCase == AttributeFindings(<<Finding("outcome", "blocked", "veto", "infrastructure")>>)

CaseResult(file, c, findings) ==
    IF Applicable(file, c) \subseteq {f.evaluator : f \in Range(findings)}
    THEN AttributeFindings(findings) ELSE InvalidCase
SuiteIgnoringBlocked(results) ==   \* mutant: a case that could not run does not count
    IF \E n \in DOMAIN results : results[n].status \in {"invalid_case", "fail"}
    THEN "fail" ELSE "pass"
SuiteStatus(results) ==
    Foremost(StatusOrder, {"pass"} \union {results[n].status : n \in DOMAIN results})

\* build_structured_report, as far as its summary goes.
Counted(results, status) == Cardinality({n \in DOMAIN results : results[n].status = status})
VetoFailuresOnly(results) ==   \* mutant: only a failing case is counted
    Cardinality({n \in DOMAIN results :
                   results[n].severity = "veto" /\ results[n].status = "fail"})
VetoCount(results) ==
    Cardinality({n \in DOMAIN results :
                   results[n].severity = "veto"
                     /\ results[n].status \in {"fail", "blocked", "invalid_case"}})

-----------------------------------------------------------------------------
(* The run.                                                                *)

Entries == {"gate", "regression_runtime"}
\* What IELTS_TEST_DATABASE_URL names: nothing; a database of its own with the token "test" in
\* its name; one without the token; the URL in the environment's IELTS_DATABASE_URL; or, with
\* the token in its name, the application's own database whose URL the environment does not
\* hold, because only .env has it or because it is spelled with another host, driver or user.
Targets == {"unset", "test", "other", "shared", "unrecognised"}
SelfTestCodes == 0..5

VARIABLES
    entry,     \* how the gate was started
    target,    \* the database it was pointed at
    file,      \* the corpus file
    broken,    \* the contracts the services break
    struck,    \* the cases in which the infrastructure failed
    rows,      \* the target holds rows of somebody else's
    pc,        \* the step
    pending,   \* the verdict on the current case
    results,   \* the verdicts so far, in order
    exit       \* the process's exit code, or "running"
vars == <<entry, target, file, broken, struck, rows, pc, pending, results, exit>>
inputs == <<entry, target, file, broken>>

None == [status |-> "none"]
Running == 9   \* no exit code yet

Init == /\ entry \in Entries /\ target \in Targets /\ file \in Files
        /\ broken \in SUBSET Contracts /\ Cardinality(broken) <= MaxBroken
        /\ struck = {} /\ rows \in BOOLEAN /\ pc = "start" /\ pending = None
        /\ results = << >> /\ exit = Running

\* The next case: the corpus holds exactly the registered ones when its cases run.
Current == Order[Len(results) + 1]
ValidTestDatabase == target \notin {"other", "shared"}
AnyDatabase == TRUE   \* mutant: only the gate's own check is left
ValidatedUrl == ValidTestDatabase

Exit(code) == exit' = code /\ pc' = "done"
Go(step) == pc' = step /\ UNCHANGED exit

Start == /\ pc = "start"
         /\ CASE target = "unset" -> Exit(2)
              [] entry = "gate" /\ target # "unset" ->
                   IF ValidTestDatabase THEN Go("self_tests") ELSE Exit(2)
              [] OTHER -> Go("load")
         /\ UNCHANGED <<inputs, struck, rows, pending, results>>

\* pytest runs first, on the same database: its tests truncate it and may leave rows behind.
SelfTests == /\ pc = "self_tests"
             /\ \E code \in SelfTestCodes : IF code = 0 THEN Go("load") ELSE Exit(code)
             /\ rows' \in BOOLEAN
             /\ UNCHANGED <<inputs, struck, pending, results>>

\* The URL is validated, the corpus loaded, the schema upgraded and the registry compared with
\* the corpus; whatever raises ends the process with 2.
Load == /\ pc = "load"
        /\ \E upgraded \in BOOLEAN :
             IF ValidatedUrl /\ file # "unloadable" /\ upgraded /\ CaseIds(file) = Registered
             THEN Go("reset") ELSE Exit(2)
        /\ UNCHANGED <<inputs, struck, rows, pending, results>>

Strike == Cardinality(struck) < MaxFaults /\ struck' = struck \union {Current}

KeepDatabase(next, blocked) ==   \* mutant: nothing is truncated
    pc' = next /\ UNCHANGED <<rows, struck, pending>>
ResetDatabase(next, blocked) ==
    \/ rows' = FALSE /\ pc' = next /\ UNCHANGED <<struck, pending>>
    \/ Strike /\ pc' = blocked /\ pending' = BlockedCase /\ UNCHANGED rows

Reset == /\ pc = "reset"
         /\ ResetDatabase("execute", "record")
         /\ UNCHANGED <<inputs, results, exit>>

Execute == /\ pc = "execute" /\ pc' = "clean"
           /\ \/ /\ pending' = IF Raises(Current, broken, rows) THEN BlockedCase
                               ELSE CaseResult(file, Current, Evidence(Current, broken, rows))
                 /\ UNCHANGED struck
              \/ Strike /\ pending' = BlockedCase
           /\ rows' \in {rows, rows \/ Current \in Episodes}
           /\ UNCHANGED <<inputs, results, exit>>

\* The reset of the finally clause: if it raises, the executor's verdict is lost.
Clean == /\ pc = "clean"
         /\ ResetDatabase("record", "record")
         /\ UNCHANGED <<inputs, results, exit>>

RecordKeepingVerdict ==   \* mutant: the verdict of the case before is still at hand
    /\ pc = "record" /\ results' = Append(results, pending)
    /\ pc' = IF Len(results) + 1 = Cardinality(CaseIds(file)) THEN "report" ELSE "reset"
    /\ UNCHANGED <<inputs, struck, rows, pending, exit>>
Record == /\ pc = "record"
          /\ results' = Append(results, pending) /\ pending' = None
          /\ pc' = IF Len(results) + 1 = Cardinality(CaseIds(file)) THEN "report" ELSE "reset"
          /\ UNCHANGED <<inputs, struck, rows, exit>>

Report == /\ pc = "report"
          /\ Exit(IF SuiteStatus(results) = "pass" THEN 0 ELSE 1)
          /\ UNCHANGED <<inputs, struck, rows, pending, results>>

Done == pc = "done" /\ UNCHANGED vars

Next == Start \/ SelfTests \/ Load \/ Reset \/ Execute \/ Clean \/ Record \/ Report \/ Done
Spec == Init /\ [][Next]_vars

-----------------------------------------------------------------------------
(* Properties.                                                             *)

Verdicts == [status : {StatusOrder[n] : n \in DOMAIN StatusOrder},
             severity : {SeverityOrder[n] : n \in DOMAIN SeverityOrder},
             first : {"none"} \union {BoundaryOrder[n] : n \in DOMAIN BoundaryOrder},
             gateFailed : BOOLEAN]

\* The types; the process has an exit code exactly when it is done, and a verdict is at hand
\* exactly between a case's execution (or its failed reset) and its recording.
TypeOK == /\ entry \in Entries /\ target \in Targets /\ file \in Files
          /\ broken \subseteq Contracts /\ struck \subseteq Registered /\ rows \in BOOLEAN
          /\ pc \in {"start", "self_tests", "load", "reset", "execute", "clean", "record",
                     "report", "done"}
          /\ pending \in {None} \union Verdicts
          /\ pending # None <=> pc \in {"clean", "record"}
          /\ results \in Seq(Verdicts) /\ Len(results) <= Len(Order)
          /\ exit \in SelfTestCodes \union {Running}
          /\ exit = Running <=> pc # "done"

Ran == pc = "done" /\ results # << >>
Accepted == {"test", "unrecognised"}

\* The exit code can be relied on (gate.py suite_exit_code and everything below it): 0 means that
\* every case of the canonical corpus ran, against a database that was accepted, with nothing broken
\* and nothing failing, and a run of that kind that gets to its cases exits with 0.  In particular each of the
\* contracts, broken alone or with another, is noticed by some case.
VerdictIsRight ==
    /\ exit = 0 => /\ target \in Accepted /\ file = "canonical" /\ Len(results) = Len(Order)
                   /\ broken = {} /\ struck = {}
    /\ Ran /\ file = "canonical" /\ broken = {} /\ struck = {} => exit = 0

Alone(c) == IF Raises(c, broken, FALSE) THEN BlockedCase
            ELSE CaseResult(file, c, Evidence(c, broken, FALSE))

\* Whatever rows were there before, and whatever failed in the cases before it, a case gets the
\* verdict it would get alone on an empty database, unless the infrastructure failed in that very
\* case (_isolated resets before the executor and again when it returns or raises).
CasesIndependent ==
    \A n \in DOMAIN results : Order[n] \notin struck => results[n] = Alone(Order[n])

\* retry_exhaustion sees a wrong number of attempts only through its authority evidence.
SeenLate == {"retry_count"}
Shows(c, contract) == CaseResult(file, c, Evidence(c, {contract}, FALSE)).status = "fail"

\* The policy's first-failure rule, about causes and not only about findings: a failing case blames
\* no boundary later than the layer of any broken contract it could notice by itself
\* (attribution.py attribute_findings, over the boundaries the evaluators choose).
EarliestBlamed ==
    \A n \in DOMAIN results : results[n].status = "fail" =>
        \A contract \in broken \ SeenLate : Shows(Order[n], contract) =>
            Position(BoundaryOrder, results[n].first)
              <= Position(BoundaryOrder, Layer[contract])

\* The exit code, the report's summary and the cases' own gate verdicts are computed apart and say
\* the same: 0 with all cases passed and no veto failure, else some case has failed the gate
\* (runner.py _suite_status, reporting.py, attribution.py deterministic_gate_failed).
ReportAgrees ==
    Ran => /\ exit = 0 <=> Counted(results, "pass") = Len(results)
           /\ exit # 0 <=> \E n \in DOMAIN results : results[n].gateFailed
           /\ exit = 0 => VetoCount(results) = 0
           /\ Counted(results, "blocked") + Counted(results, "invalid_case") <= VetoCount(results)

\* Whatever is wiped has been checked: rows are removed, by the self-tests or around a case, only
\* from a database with the token "test" in its name and another URL than the environment's
\* IELTS_DATABASE_URL, whichever entry is used (isolation.py, called by gate.py main and again by
\* run_canonical_regression).  That is all the check can tell: such a database may still be the
\* application's own.
OnlyAcceptedWiped == [][rows /\ ~rows' => target \in Accepted]_rows
=============================================================================

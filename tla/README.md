# TLA+ verification of the IELTS learning agent

The program is a FastAPI service over PostgreSQL. A learner's essay is evaluated
by a language model, the evaluation is applied to the learner's skill states, a
planner recommends what to practise, a practice is generated for the
recommendation, and the practice's essay is evaluated and applied in turn. An
"agent turn" runs a few of those steps in one request. Several servers may run
at once. They share nothing but the database, and every wait for a provider
happens outside a transaction, so the system is right only if its short
transactions, row locks, unique constraints and re-checks are.

Paths below are relative to the repository's root (`src/` here).

## 1. Inventory

| Component | State it keeps | Operations | Interacts with |
| --- | --- | --- | --- |
| Practice submission (`app/services/practice_submission.py`) | claim columns of `writing_practices`: lifecycle state, fingerprint, token, `submission_claimed_at`, attempt | `submit`: `_claim`, evaluate, `_finalize` or `_reset_claim_if_owned` | writing evaluation (awaited), learner row lock, agent turn |
| Learning application (`app/services/learning_application.py`) | `learning_updates`, skill evidence, `learner_skill_states`, `practice_recommendations` | `apply_writing_evaluation`, `_resolve_existing` | learner row lock, unique index, state engine and planner (pure) |
| Practice completion (`app/services/practice_completion.py`) | none of its own | `complete_with_outcome` | learning application |
| Practice generation (`app/services/practice_generation.py`) | rows of `writing_practices` (one for each recommendation) | `generate_or_resolve`, `generate_or_resolve_current` with its two-point fence | generator (awaited), learner row lock |
| Agent turn (`app/agent/`) | locals of one request | observe, select, run a tool, observe again | all of the above |
| Resume context and memory reads (`app/memory/`) | none (reads) | `build_learner_context`, episodes, profile | reads what the others write |
| Skill state engine and planners (`app/learner/`, `app/memory/pattern_engine.py`, `app/schemas/planning.py`) | none (pure); their results are persisted by the application | EWMA over canonical evidence, memory context, selection of a skill, validation and reconstruction of stored decisions | called by learning application and by every read of a recommendation |
| Provider adapters and retry (`app/llm/`) | none | HTTP call, three attempts with backoff | evaluation and generation |
| Learning tables (`app/models/learning.py`) | CHECK constraints | refuse rows at commit | every application |
| Evaluation gate (`app/eval/`) | rows of a test database, results of the cases | `python -m app.eval.gate`: checks, eleven cases, report, exit code | runs all the services above, judges the agent's trajectories |
| Initial evaluation, knowledge, calibration and promotion, routes, migrations, web client | see `PROJECT.json` | | |

What is hard here, and what makes each part correct:

* **Submission.** Two calls for one practice overlap around an evaluation that
  takes seconds. A call may be cancelled (`CancelledError` is no `Exception`, so
  nothing resets its claim), its server may die, a commit may succeed and its
  acknowledgement be lost, or its lease may run out under it. Correct means: one
  attempt for each practice, of one essay; a live claim is nobody else's; a dead
  claim does not block the practice for ever.
* **Application.** Calls for one learner are serialised by the learner's row;
  calls for one evaluation and two learners meet only at a unique index. Correct
  means: no update is lost, each evaluation has one owner, and a decision can be
  reconstructed from ids.
* **Agent turn.** Everything it observed may be stale when it acts. Correct
  means: it acts only for the latest update, within its bounds, and a client that
  keeps asking is not stuck.
* **Generation.** A granular call takes its unique index entry first and the
  learner's row after it (for the foreign key); an agent's fenced call takes them
  the other way round. Correct means: one practice for a recommendation, the one
  that every caller is given, stored by a fenced call only while it is current.
* **Context reads.** Several SELECTs without a common snapshot, and an order
  (`created_at`) that differs from the order of decisions (`id`); the client acts
  on the advice when it may be old. Correct means: late advice is a replay and
  not a mistake, and a client that follows it gets its practices done unless a
  claim whose call is gone holds it up.
* **Evaluation gate.** It truncates tables, it runs eleven cases on one database
  and reduces many findings to one verdict. Correct means: only a
  database that the isolation check accepted is wiped, no case sees another's
  rows, a case that could not run fails the gate, and no layer later than the one
  that broke is blamed.
* **State engine and planner.** Essays are applied in any order, but the EWMA
  depends on the order in which they were written; rounding decides ties; the
  planner and the validators of what it decides are written separately, and a
  disagreement would make an application, or a later read, fail. Correct means:
  a state depends on what was accepted only, and every decision can be stored,
  read back and replayed.

`PROJECT.json` lists each hazard at its line with the properties that cover it.

## 2. Modules

### PracticeSubmission (and its promise, OneShotSubmission)

One action for each transaction or awaited step of `submit`. Row locks are held
until the commit and rows are read after they are locked, so a transaction is
atomic. The agent's fence is part of the claim (`expect`), and `Decision` keeps
`_claim`'s order of checks.

| TLA+ | Code |
| --- | --- |
| `practice[p]` | the submission columns of `writing_practices` |
| `attempts[p]` | the attempt/evaluation pairs that `_finalize` stores |
| `latest[l]` | the greatest `learning_updates.id` of a learner |
| `request[r]` | the locals of one `submit` call |
| `Submit`, `ClaimRefused`, `ClaimGranted`, `ClaimFails` | arrival and `_claim` |
| `EvaluationSucceeds`, `EvaluationFails`, `Crash` | the awaited evaluation |
| `Finalize`, `FinalizeFails`, `ResetClaim`, `ResetFails` | `_finalize`, `_reset_claim_if_owned` |
| `Tick` | `clock_timestamp()`; ages matter only up to the lease |
| `Advance` | an application for that learner, elsewhere |

The fingerprint is a hash of practice, question and essay; a practice's question
never changes, so the essay stands for it. A token is fresh when it is drawn
(`secrets.token_urlsafe`). `elapsed` is history: no guard but the bound on the
evaluation's time reads it. An evaluation is up to three provider attempts
(`try`) of at most `AttemptLimit` ticks each, with the categories and retries of
`ProviderPolicy`. `Init` includes rows that migration 0006 has found: a claim in
progress whose `submission_claimed_at` is NULL and which anybody may take over.

### ProviderPolicy

Constants and functions shared by PracticeSubmission and PracticeGeneration: the outcomes
of one exchange with the provider, the category each adapter gives it
(`deepseek.py`, `deepseek_practice.py`), which categories are retried and how
long the delay is (`retry.py`, `practice_retry.py`), and the HTTP status. A provider
that is not configured is a category of its own, which no exchange has: the
generator cannot be built (`Unconfigured` in PracticeGeneration).

`OneShotSubmission` is the promise: a practice takes at most one essay, for
good, and whoever is told of success is the owner and sent that essay. The
refinement maps `accepted` to the attempts and `confirmed` to the answers of
success that calls hold.

### LearningApplication (and its promise, OneOwnerApplication)

One transaction of several steps: reads, `SELECT ... FOR UPDATE` on the learner,
the idempotency re-check, insert (which may wait for the unique index), rebuild,
commit. Uncommitted rows live in the call, since nobody else reads them.

| TLA+ | Code |
| --- | --- |
| `updates` | committed `learning_updates`, each with the evidence its recommendation was decided on |
| `skill[l]` | `learner_skill_states`: the evidence replayed, and how often |
| `lock[l]` | holder of the learner's row lock |
| `nextId` | the id sequence; rollbacks leave gaps |
| `begun` | transactions started, a bound only |
| `Start`, `AcquireLock`, `Recheck`, `Insert`, `Rebuild`, `Commit`, `Resolve`, `Fail` | `apply_writing_evaluation` in its order |

`OneOwnerApplication` is the promise: an evaluation is applied once, to one
learner, and "applied", "reused" and "cross owner" are true.

### PracticeGeneration (and its promise, OnePracticeEach)

`generate_or_resolve` and `generate_or_resolve_current`, read by read and lock by
lock.

| TLA+ | Code |
| --- | --- |
| `rows[r]` | the practices stored for a recommendation |
| `lock[l]` | who holds the learner's row `FOR UPDATE` |
| `latest[l]` | the greatest `learning_updates.id` |
| `Unconfigured` | the route's dependency, or the agent's tool, cannot build the generator |
| `LoadRecommendation`, `CheckFence`, `ResolveExisting`, `Generate` | the short transaction before the provider, and the provider with its retries |
| `LockLearner`, `Recheck` | the second fence |
| `Insert`, `Commit` | the insert takes the unique index entry, the commit needs the foreign key's `KEY SHARE` lock on the learner |
| `ResolveWinner`, `EndDeadlock`, `Fail` | IntegrityError, PostgreSQL's deadlock detector, failures |

`OnePracticeEach` is the promise: a recommendation gets at most one practice, for
good, and whoever is given one is given that.

### AgentTurn

`AgentTurnExecutor.execute`, `observe_agent_state`, `select_agent_action`,
`generate_or_resolve_current` and the completion, together with the granular
endpoints (`Direct...`). Submission and application appear with what the
turn can tell of them: the claim's lease is open here (a claim with a matching
essay may be live or expired at any time) and an application is one step. Update
`n` names its recommendation and practice too, since each has at most one.
Each SELECT of an observation is a step (`ReadLatest`, `ReadPractice`,
`ReadCompletion`), because READ COMMITTED gives each its own snapshot.
`target_achieved` is a `no_practice` with another label and is folded into it.
`disturbed` is history: the turns during which somebody else changed the
learner's rows.

`AgentTurn` extends `EvalTrajectory`, the evaluation gate's
`evaluate_trajectory`: from the first kind observed, the outcomes of the steps
and the stop reason it finds the violations of the policy. The executor and the
evaluator state one policy apart from each other; here they meet, and
`EvaluatorAccepts` says where they agree.

### LearnerContext

Clients that read the resume context (`ReadLatest`, `ReadPractice`,
`ReadCompletion`: one action for each SELECT) and then do what it says through
the granular endpoints (`WriteEssay`, `Generate`, `Submit`, `Finish`, `Complete`,
`Apply`). It composes what the other modules establish for one learner: each
handler is a step up to its provider call. `created` keeps the order in which
apply transactions began (`created_at`), `updates` the order of ids. `known` is
history: how many updates there were at the context's first SELECT.

A practice's `holder` is the call that has claimed it, and None once that call is
gone without giving the claim back (`LeaveClaim`: its server died, its request was
cancelled, or the reset failed too). `TakeOver` is the endpoint's takeover of an
expired claim; it is free when the holder is gone and a counted stray when the
holder is only slow. A submission that meets another essay is answered 200 with
the status "conflict" (`essay_conflict`).

### WritingPlanner and SkillHistory

`WritingPlanner` has the pure functions: planner version 1 (`PlanV1`), version 2
(`PlanV2`, with the tie stages of `resolve_practice_v2_exact_tie`), and the
contract of a stored decision (`ValidRecord`, `Reconstructs`), which the code
states a second time in pydantic validators and in the reconstruction. Each
validator is translated from its own lines, not from the planner's.

| TLA+ | Code |
| --- | --- |
| `PlanV1` | `plan_practice` |
| `TieCandidates`, `PlanV2` | `select_practice_v2_base`, `plan_practice_v2` |
| `AfterGap`, `AfterTrend`, `AfterRecent`, `Stages`, `ResolveTie` | `resolve_practice_v2_exact_tie` |
| `ValidPractice`, `ValidNoPractice` | `_check_practice`, `_check_no_practice` |
| `ValidStage`, `ValidTrace`, `ValidRecord` | the validators of trace and record |
| `Reconstructs` | `reconstruct_persisted_planning_record` |

`SkillHistory` puts them into a learner's history: `Write` and `Practise` add
evaluated essays in the order of writing (`created_at, id`), `Apply` accepts one
of them at any later time, rebuilds the skill states from all evidence
(`state_engine.py`), builds the memory context (`memory_planning_context.py`,
`pattern_engine.py`) and appends the decision. `updates` is in the order of ids,
which `LearningApplication` shows to be the order of the decisions. Bands are
integers in hundredths and an estimate is a fraction until it is quantized.
Reason codes and candidates are lists in one fixed order in the code, so sets
stand for them; a stage's `candidates_before` and `narrowed` follow from the stage
before it and are left out.

`LearningTables` has the CHECK constraints of the learning tables, the third
statement of the same contract, this time in SQL.

### EvalGate

`python -m app.eval.gate` and the narrower `app.eval.regression_runtime` from
their start to the exit code.

| TLA+ | Code |
| --- | --- |
| `entry`, `target`, `file` | which command, the database its environment names, the corpus file |
| `Start`, `SelfTests`, `Load` | `gate.py` and `isolation.py`: the checks before a case runs |
| `Reset`, `Execute`, `Clean`, `Record` | one case: `EvalRunner.run_deterministic` runs its executor, which `CanonicalRegressionRuntime._isolated` wraps in two resets |
| `Evidence` and an operator for each case | the case executors of `regression_runtime.py` |
| `EvaluateOutcome`, `EvaluateLifecycle`, ... | the evaluators |
| `AttributeFindings`, `CaseResult`, `SuiteStatus` | `attribution.py`, `runner.py` |
| `Report`, `VetoCount`, `Counted` | `reporting.py` and the exit code |
| `rows` | whether the database has rows of an earlier case or of somebody else |
| `struck` | history: the cases in which the infrastructure failed |

The services on trial come in as `broken`, a set of up to `MaxBroken` contracts
of nineteen that a regression could break, each placed at the layer that owns
it (`Layer`). They are the ones the executors look at: that each is noticed says
something of the evaluators, the attribution, the runner and the exit code, and
nothing of a contract that no executor looks at.

`target` is the database named by `IELTS_TEST_DATABASE_URL`: none, a test database,
one without the `test` token in its name, the very URL of `IELTS_DATABASE_URL`, or
(`unrecognised`) the application's own database with the token in its name and a URL
the check does not recognise. The check accepts the last (section 5).

`LifecycleChecks` has the checks of `evaluate_lifecycle` that can fail on what
`_build_lifecycle` assembles. Left out are those that cannot: the ids of evaluations
and of the updates' evaluations are the same column of the same rows; the attempts
are sorted by the runtime just before; the second comparison of the memory's order
repeats the first; the recommendation is read by its update's id and only learner 1
has one; `GroundingEvidence` refuses an empty list of knowledge ids before there is
any evidence; and the knowledge ids and grounding context are assembled from the
rows they are compared with, after `_build_lifecycle` has compared the retrieval itself and
raised (`Raises`, contract `knowledge_context`).

`MC*.tla` give TLC its sets and symmetries.

## 3. Runs

| Run | Shows | Instance |
| --- | --- | --- |
| `submission_safety` | one attempt for each practice, live claims kept, claims change hands only as allowed, promise implemented | one practice, its owner and a stranger, two concurrent calls (each repeated without limit), two essays, lease 2, up to three provider attempts of 1 tick, 3 faults |
| `submission_liveness` | no two evaluations of a practice at once, and the practice gets submitted | one learner, two calls, two essays, lease 4, attempts of 1 tick, 2 faults |
| `application_safety` | no lost update, decisions follow ids, one owner, no closed chain of waits | two learners, two usable evaluations and a refused one, three concurrent calls, 5 transactions, 2 faults |
| `generation` | one practice for a recommendation, fenced ones current, every call answered, promise implemented | one learner's two recommendations of which one asks for practice, a second learner, two concurrent calls, two contents, 2 updates, 1 fault |
| `learner_context` | advice is never refused as a mistake, and only an abandoned claim or another learner keeps clients that follow it from getting a practice done; when the branch called unreachable is reached | two clients, one with one essay and one with both, 3 updates, 2 strays |
| `agent_safety` | bounds of a turn, the trajectory evaluator accepts what undisturbed turns do | two turns at once, two essays, 3 updates, 1 granular call |
| `agent_liveness` | turns act on the latest update, submitted essays are settled | one turn, two essays, 3 updates, 3 granular calls, 1 fault |
| `planner_history` | states do not depend on arrival, decisions pass validators and tables and replay, memory only breaks ties, an achieved target stays achieved | two skills, three bands, two targets, three essays, applied in any order |
| `eval_gate` | exit 0 means every case ran and passed, cases are independent, no layer later than the broken one is blamed, only an accepted database is wiped | all eleven cases, up to 2 of 19 contracts broken, 1 infrastructure failure, five corpus files, five kinds of database, two commands |
| `generation_deadlock`, `agent_replay`, `agent_overtaken` | disagreements with comments and documents, section 5 | the smallest instance that has the case |

Why the bounds are enough. A claim meets at most the claim it takes over and the
calls that arrive between, so two calls at a time, each reused for any number of
later calls, give every pairing of a live, late and dead holder; a third dead
holder is a token nobody has, which faults produce. Lease 2 tells "young", "one
tick short" and "expired" apart, and an evaluation of three attempts outlives it;
lease 4 is the smallest that it does not outlive. Three tokens are one for the
row and one for each call. In an application, two calls of one learner and one of
another give the races for the lock and for the index with a bystander; the other
transactions are replays. Generation needs two calls to race, one more update to
overtake a fenced one, and a second learner to ask for what is not its own. In a
context, a second client is everybody else, and three updates are the one that is
advised, the one that overtakes it and one that began before either. In a turn,
the third update is one that overtakes the second while the turn acts on it, which
needs a turn that has itself completed the first; the second essay is the one that
a turn sends for a practice submitted with the first. Three essays fill the trend
window, establish the evidence (`MIN_ESTABLISHED_EVIDENCE_COUNT`) and fill the
recent-practice window; with the bands 5.5, 6 and 6.5 two skills reach every stage
of a tie, each kind of reason that an application can give (it observes every
skill, and a learner always has a target, so `cold_start`, `incomplete_state` and
`target_unset` stay with the proofs), and estimates that need rounding. More
skills are left to the proofs. In the gate, two broken contracts are the smallest
number for which "the earliest is blamed" says something. `MaxUpdates`,
`MaxDirect`, `MaxFaults`, `MaxStrays`, `MaxCalls`, `MaxAttempts` and `MaxBroken`
are the bounds of counters and are named in the guards.

Deadlock is switched off where transactions, updates or granular calls are
counted and run out (LearningApplication, AgentTurn, SkillHistory): there a system
with nothing left to do stops; and in `generation_deadlock`, which asks about
answers only. It is checked everywhere else. In LearningApplication `WaitsEnd`
takes its place: whoever waits for a lock or an index entry waits, in the end, for
a call that can go on.

Fairness:

* `PracticeSubmission!FairSpec`: weak fairness of each call's own steps (a server
  runs its coroutines) and of the clock; strong fairness of the owner sending
  each essay again, the only party that can revive a practice after a crash.
  Nothing is assumed of faults, which are bounded. `OneEvaluation` and
  `EventuallySubmitted` also need evaluations that end within the lease. No code
  enforces that. With the default timeout of 30 s for each of three phases of a
  request, three attempts and their delays take at most 3 * 3 * 30 + 0.75 =
  270.75 s, below the lease of 300 s, but the setting allows 120 s
  (`app/llm/deepseek.py:49`), with which three attempts do not.
* `PracticeGeneration!FairSpec`: weak fairness of a call's reads and its provider,
  strong fairness of its steps under locks, since PostgreSQL serves waiters of a
  lock or an index entry in turn.
* `LearnerContext!FairSpec`: weak fairness of reading the context, strong fairness
  of doing what it says (`Obey`), strays bounded. A client told `await_submission`
  only asks again, as the shipped one does: the dashboard explains and offers nothing
  else (`web/src/app/dashboard/page.tsx:138`), the practice page hides the essay and
  offers a refresh, and `docs/WEB_PRODUCT_CONTRACT.md:124` forbids another submit. It
  may send its essay once more (the endpoint takes it over after the lease), but
  nothing makes it. So `GuidanceAdvances` has the alternative `<>[]Abandoned(n)`, a
  claim left for good by a call that is gone, and without it TLC finds just that. That
  a practice is submitted in spite of dead claims is `EventuallySubmitted`, whose
  owner does send the essay again.
* `AgentTurn!FairSpec`: weak fairness of a turn's steps, strong fairness of the
  client's next "continue". Granular calls and faults are bounded and not fair.

Each property of a passing run has a mutant of the code that breaks it
(`PROJECT.json`, and the definitions marked "mutant" in the modules).

## 4. Proofs

TLAPS proves these for every value of the constants, without the bounds of the
runs.

* `PracticeSubmissionProofs`: `TypeCorrect`, `OneAttempt`, `LeaseHolds`,
  `Handover`, `EvaluatedOnceAtATime`, `OneShotImplemented`. Assumed of the
  constants: every practice has an owner, the lease is positive, NULL is neither
  an essay nor a token; `EvaluatedOnceAtATime` also assumes
  `AttemptLimit * MaxProviderAttempts < Lease`.
  `RowMatchesAttempts` and `LiveClaimKept` are not inductive, so `IInv` adds to
  them `CallConsistent` and `TokensDistinct`. A call that finalizes must hold
  the essay its claim was fingerprinted with; while it owns the claim the row is
  exactly as old as the call, which is how a young call knows that nobody could
  take it over; and no two calls share a token, so that what one does to its
  claim says nothing of another's. What clients have been told is part of
  `CallConsistent` for the refinement.
* `LearningApplicationProofs`: `TypeCorrect`, `NoLostUpdate`,
  `DecisionsFollowIds`, `NoEndlessWait`, `OneOwnerImplemented`. Assumed: NULL is
  no request. The argument is about what a call knows while it holds its learner's
  lock: nobody else changes that learner's updates, so what it replayed is
  still all there is when it commits (`seen`), and its id, drawn under
  the lock, is larger than all of them. Open inserts of one evaluation exclude
  each other (`InsertsDistinct`), and an open insert's evaluation is not
  persisted, which keeps an evaluation unique also across learners. A chain of
  waits is short: whoever waits for a learner's row waits for its holder, the
  holder may wait for an open insert of its evaluation, and that waits for nobody.
* `PracticeGenerationProofs`: `GenerationTypeCorrect`, `FencedStoresCurrent`,
  `OnePracticeImplemented`. A fenced call that has passed its second check holds
  its learner's lock, and an update of that learner needs the lock, so what it
  checked is still true when it commits. Open inserts for a recommendation exclude
  each other and the stored practice, so a commit finds none; whatever a call
  answers, it has read from the one row.
* `AgentTurnProofs`: `AgentTypeCorrect`, `TurnsWithinBounds`, `TurnsActOnCurrent`,
  `TrajectoriesAccepted`, for any number of turns, updates, essays and granular calls. Bounds are not inductive:
  whether a turn may take a step is decided at one place of the loop and used at
  another. `Steady` says what a turn still has room for at each step: one about to
  observe has an observation left, one about to run a tool has a tool left, one
  that generates or completes has not done so yet, and one that still has an essay
  to send has run no tool at all. It is a statement about one turn, so others
  cannot break it, and that is why the bounds hold however stale what it observed
  is. The trace is at most three tools and four observations. Acting on the latest
  update follows from the checks under the lock and from a turn at its claim
  having observed the very update it carries the essay for.
  `TrajectoriesAccepted` is about the whole trace of a turn and needs an invariant of
  its own, `Ledger`, in three layers. `Rooted` and `Informed` say of the rows that they
  are reached in the order of the learning cycle and never go back, so that what a turn
  has read of an update stays true of it. `Recorded` says of any turn what its trace may
  hold: a refusal only as its last step, no tool while its essay is unsent. And
  `Undisturbed` says of a turn that was alone that its next observation would come to
  what its own steps make of the first one (`Remembers`) and that it is about to do
  what the evaluator allows after them (`Entitled`). `FlawsAppend` reduces what the
  evaluator says of a trace to what each new step adds, with one lemma for each tool.
* `EvalGateProofs`: `GateTypeCorrect`, `CasesDoNotMix`, `WipesAreAccepted`,
  `ExitCodeRight`, `BlameIsEarliest`, `ReportConsistent`, for any number of broken
  contracts (the run has two) and of failures. The invariant has three parts:
  `Aimed` (where the gate is aimed), `Staged` (what it has in hand at each step and
  how it may end) and `Isolated` (a case starts on an empty database, and each
  verdict recorded is the one its case comes to alone). `Isolated` alone gives
  `CasesDoNotMix` and uses only the order reset, execute, clean, record and the
  checks before it. The other three also need what each case says of each set of
  broken contracts. There is one lemma for each evaluator (which findings it
  has), one for `AttributeFindings` (the foremost status, the foremost boundary of
  its causes) and for each of the eleven cases one that says when it passes and
  which boundary it blames. Every contract is covered by some case, and so no set
  of broken contracts passes.
* `WritingPlannerProofs`: `PlanReconstructs`, `PlanBreaksTiesOnly` and
  `PlanStorable`, for any target, any number of skills, any states and any memory;
  these are what `RecordsReconstruct`, `MemoryOnlyBreaksTies` and `RowsStorable`
  say of one decision. Assumed: the priority is total on a non-empty set of
  skills, and None is neither a band nor a skill. The argument: a non-empty set of
  naturals has a least element (`LeastNatural`, from the well-foundedness of
  inclusion on finite sets), so some skill has the largest gap, no stage of a tie
  leaves nobody (`TieTrace`) and the last one leaves one skill; every candidate is
  below the target (`CandidatesBelowTarget`), which is what the validators ask of
  it.
* `SkillHistoryProofs`: `HistoryTypes`, `HistoryReconstructs`, `HistoryStorable`,
  `HistoryBreaksTiesOnly`, `HistoryIgnoresArrival`, `AchievedIsKept`, for any number
  of skills and essays and any half bands. They lift the planner's theorems from one
  decision to histories: the invariant says that the skill states are the replay of
  the accepted evidence (`Rebuilt`) and that each record is a decision of the
  planner on such states (`Decided`). What the EWMA computes is a recursive
  function. `NaturalInduction` is induction that takes a set for the predicate
  (the library's takes an operator), and with it `Iterates` shows that a fold over
  the evidence exists and stays in a set that its step keeps. The estimate is a
  fraction whose value lies between any bounds of the bands it weighs, so a
  quantized one is a band and, with evidence at or above the target, is not below
  it (`AchievedIsKept`). The order of the essays is unique, since ids are, and so
  the state cannot depend on the order of arrival. The bands are half bands
  (`BandAssumption`), as the schema has them; the arithmetic is exact.
* `LearnerContextProofs`: `ContextTypes`, `UnreachableIsOvertaken`,
  `AdviceIsGood`, for any number of clients, updates and strays. `Timeline` says of
  the learner that transactions have one place each in the order of their beginning
  and that an applied practice's update has a later committed one, because the
  update that applies it began after the practice's own had been committed. So the
  latest created one is not applied. `Sound` says of a client what it was told: a
  claim may be given back, but a practice once there stays, once submitted it keeps
  its attempt, and an evaluation keeps its owner (`Forward`, `Progress`); that is why
  advice may be late and is not wrong. A client whose first SELECT saw
  everything and whose third contradicts it has been overtaken. Assumed:
  clients' names are not update numbers (`ClientAssumption`; both stand for
  transactions in one sequence), and NULL is none of the other values.
* `Consistent`, `GenerationInvariant`, `AgentInvariant`, `LedgerKept`, `GateInvariant`,
  `HistoryInvariant` and `ContextInvariant` are the inductive invariants themselves.
  The step lemmas treat one action each.

Model-checked only: all liveness (`EventuallySubmitted`, `EveryCallAnswered`,
`GuidanceAdvances` and the like): fairness and ENABLED are beyond the prover.

## 5. Where the code and its documents differ

With a run:

1. `generation_deadlock`: a comment of `generate_or_resolve` says that the loser of
   a concurrent insert returns the winner. A granular call takes the unique index
   entry before the learner's row, a fenced one after it; PostgreSQL ends one of
   the two with a deadlock error, which is not the IntegrityError that is
   resolved, and that call is answered 503.
2. `agent_replay`: section 5 of `docs/CORE_LEARNING_AGENT_POLICY.md` makes a
   submitted matching practice replayable whatever is current. `_claim` checks the
   observed update first, so a turn that is overtaken between its observation and
   its claim by a turn with the same essay is answered 409.
3. `agent_overtaken`: after its own submission the turn observes afresh and
   forgets the practice. If another application has moved the learner on, the
   turn stops normally with the essay evaluated and not applied; section 5 says
   that it is completed first.

Seen while modelling, without a run of their own:

* `execute` tests its limit of three tools before it looks at the newest
  observation (`app/agent/executor.py:55`). The normal first submission (submit,
  complete, generate) is answered `max_actions`, where section 5 of the policy
  gives `practice_ready`, `target_achieved` or `no_practice` and section 6 keeps
  `max_actions` for turns without a valid classification. A unit test expects
  `max_actions`.
* The resume context orders updates by `created_at`, when the transaction began,
  and not by id (`app/memory/context.py:65`). An application that began first and
  was decided last is not the context's latest one. `LearnerContext` has both
  orders, and its properties hold all the same.
* Once another learner has taken a practice's evaluation, the owner's context is
  answered 503 until a newer update exists (`UnreachableOnlyIfOvertaken`,
  `GuidanceAdvances` name the exception).
* `evaluate_trajectory` does not know a matching essay sent for a claimed
  practice (`app/eval/trajectory.py:27`), which the policy prescribes, nor another
  essay sent for a practice that was submitted before and is current no more, which
  the policy answers with `submission_conflict` whatever the turn has observed: both
  are vetoed as `submission_without_practice`. It also asks a stale generation to end
  in `max_actions`, which a disturbed turn need not (`Unknown` and `Unforeseen` in
  AgentTurn).
* A claim left by a crashed server stops a client that follows the context, for
  good. The context goes on answering `await_submission`, nothing reclaims the claim in
  the background (`docs/CORE_LEARNING_AGENT_POLICY.md:366`), and the shipped client
  sends nothing while a submission is in progress. Only the same essay sent once more
  after the lease revives the practice, which the policy allows (lines 361-364) and
  the web contract does not ("do not issue another submit", line 124, beside "permit a
  later refresh/retry"). `LeaveClaim` and `Abandoned` in LearnerContext.
* The gate's isolation check compares with `IELTS_DATABASE_URL` as the process's
  environment has it (`app/eval/gate.py:51`, `app/eval/regression_runtime.py:981`),
  but the application's settings also read it from `.env`
  (`app/core/config.py:21`), and another host name, driver or user for the same
  database is a different URL. `docs/LOCAL_DEVELOPMENT.md:115` and the docstring of
  `validate_test_database_url` say that a URL shared with development is rejected. A
  development database that has the token `test` in its name and is not recognised
  is accepted and truncated (target `unrecognised`); `OnlyAcceptedWiped` says no more
  than that the check is never passed by.
* In the gate, a broken retry count is seen by the authority evaluator only
  although its layer is the provider's contract (`SeenLate` in EvalGate, which
  `EarliestBlamed` exempts by name). `evaluate_lifecycle` looks at the practice's owner
  before the knowledge it was generated with, although knowledge is the earlier
  boundary and `docs/PHASE10_GRAPH.md:862` asks for the earliest one; today wrong
  knowledge raises before it. Promotion accepts a case that has no executor, which
  then fails the load with exit code 2.

## 6. Not modelled

* Extraction of evidence from an evaluation (field checks), the explanation shown
  with a decision (labels), the product band (arithmetic on one evaluation), the
  28-digit limit of decimals (the models' EWMA is exact, and rounding would start
  after some 27 essays).
* Provider adapters: building requests and parsing bodies field by field; the
  models have their outcomes.
* Knowledge retrieval and guidance: read-only over packaged documents.
* Calibration and promotion: statistics and proposals that no command or service
  calls.
* Memory history and progress pages: they only read and project rows.
* In generation: a learner that is missing under its lock, a recommendation without
  a target skill, and the errors of missing grounding, which are not reachable through
  the routes' data and end the call before anything is written. A generated practice
  for another skill than the recommendation's
  (`GeneratedPracticeAuthorityError`) is one more invalid content, answered like one.
* Routes and schemas: validation of bodies; the statuses that properties are
  about are in `ProviderPolicy` and `LearnerContext`. Running migrations, and the
  web client's presentation.
* Two runs of the evaluation gate at once on one database, which nothing prevents
  and which fail visibly.
* Assumed of libraries: the ORM reloads a row it selects `FOR UPDATE` after the
  first session object was released; PostgreSQL releases row locks and
  unique-index waits when a transaction ends, serves waiters, and ends one member
  of a deadlock.

## 7. Plan

Done: `PracticeSubmission`, `LearningApplication` and `PracticeGeneration`, each
with its promise, its refinement and proofs; `AgentTurn` and `LearnerContext`, the
compositions as an agent and as a client see them; `WritingPlanner`,
`LearningTables` and `SkillHistory`; `EvalTrajectory` and `EvalGate`; proofs of
every invariant and action property that a run checks.

Left:

1. `ClosedLoop`: submission, application and generation of several learners with an
   abstract specification of the whole learning cycle, which `AgentTurn` and
   `LearnerContext` would implement.
2. The episode history of `app/memory/episode_queries.py`: pages read while rows
   are added.

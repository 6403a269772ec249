----------------------------- MODULE AgentTurn -----------------------------
(***************************************************************************)
(* The agent's turns of one learner: AgentTurnExecutor.execute observes    *)
(* the learner's state, selects one tool, runs it and observes again,      *)
(* within fixed bounds.  Turns of the learner run at once with each other  *)
(* and with the granular endpoints.                                        *)
(*                                                                         *)
(* Update n of the learner carries one recommendation, and that at most    *)
(* one practice, so n names all three.  The claim's lease is left open     *)
(* here: the claim of a dead or slow holder may be taken over at any time  *)
(* (PracticeSubmission has the clock).  Each SELECT of an observation is a *)
(* step of its own: READ COMMITTED gives each its own snapshot.            *)
(***************************************************************************)
EXTENDS EvalTrajectory

CONSTANTS
    Turns,       \* agent requests the servers can be running at once
    Essays,
    Client,      \* whoever submits through the granular endpoint
    None,
    MaxUpdates,  \* bound: accepted updates of the learner
    MaxDirect,   \* bound: granular calls that change state
    MaxFaults    \* bound: turns that fail or are lost

ASSUME BoundAssumption == MaxUpdates \in Nat /\ MaxDirect \in Nat /\ MaxFaults \in Nat
ASSUME HolderAssumption == Client \notin Turns /\ None \notin Turns /\ None # Client

VARIABLES
    updates,    \* accepted updates in id order: the decision each recommends
    practice,   \* the practice of each update's recommendation
    applied,    \* whose update each practice's evaluation has become
    turn,
    direct, faults,
    disturbed   \* history: turns during which somebody else changed the learner's rows

state == <<updates, practice, applied, turn, direct, faults>>
vars == <<state, disturbed>>

Numbers == 1..MaxUpdates
\* target_achieved is a no_practice with that reason, and changes nothing but the label.
Decisions == {"practice", "no_practice"}
Kinds == {"needs_initial_writing", "needs_generation", "needs_practice_submission",
          "await_submission", "needs_completion", "no_practice"}
ASSUME NullAssumption == None \notin Kinds
StopReasons == {"needs_initial_writing", "needs_practice_submission", "practice_ready",
                "await_submission", "no_practice", "submission_conflict", "max_actions"}
Steps == {"latest", "practice", "completion", "select", "fence", "existing", "generating",
          "claim", "evaluating", "complete", "done"}

Row == [state: {"none", "generated", "submission_in_progress", "submitted"},
        essay: Essays \cup {None}, holder: Turns \cup {Client, None}]

\* first is the kind first observed; update and kind are what was last observed, with
\* the fingerprint in essayFound.
Turn == [step: Steps, submits: BOOLEAN, target: Numbers \cup {0}, essay: Essays \cup {None},
         first: Kinds \cup {None}, update: 0..MaxUpdates, kind: Kinds \cup {None}, essayFound: Essays \cup {None},
         trace: Seq(Outcomes), providers: Nat, prepared: BOOLEAN,
         stop: StopReasons \cup {"stale", "error", None}]
Idle == [step |-> "idle"]

TypeOK ==
    /\ updates \in Seq(Decisions) /\ Len(updates) <= MaxUpdates
    /\ practice \in [Numbers -> Row]
    /\ applied \in [Numbers -> {None, "own", "other"}]
    /\ turn \in [Turns -> Turn \cup {Idle}]
    /\ direct \in 0..MaxDirect /\ faults \in 0..MaxFaults
    /\ disturbed \subseteq Turns

NoPractice == [state |-> "none", essay |-> None, holder |-> None]
Generated == [NoPractice EXCEPT !.state = "generated"]

Init ==
    /\ updates = << >>
    /\ practice = [n \in Numbers |-> NoPractice]
    /\ applied = [n \in Numbers |-> None]
    /\ turn = [t \in Turns |-> Idle]
    /\ direct = 0 /\ faults = 0 /\ disturbed = {}

-----------------------------------------------------------------------------
At(t, step) == turn[t].step = step
Active(t) == turn[t].step \notin {"idle", "done"}
Latest == Len(updates)
Mutations(t) == Len(turn[t].trace) - Count(turn[t].trace, "observe")

\* What is not in the response is gone with the turn.
Stopped(q, reason) == [q EXCEPT !.step = "done", !.stop = reason, !.essay = None, !.update = 0,
                                !.kind = None, !.essayFound = None, !.prepared = FALSE,
                                !.submits = FALSE]
Become(t, q) == turn' = [turn EXCEPT ![t] = q]
GoTo(t, step) == Become(t, [turn[t] EXCEPT !.step = step])
Refused(q, outcome) ==
    Stopped([q EXCEPT !.trace = Append(@, outcome)], StopAfter[outcome])
Stop(t, reason) == Become(t, Stopped(turn[t], reason))

\* _reobserve, after a tool has run.
Reobserve(q) == IF Count(q.trace, "observe") >= MaxObservations
                THEN Stopped(q, "max_actions")
                ELSE [q EXCEPT !.step = "latest"]
Ran(q, outcome) == Reobserve([q EXCEPT !.trace = Append(@, outcome)])

\* An essay is sent for a practice that the learner was given at some time.
Begin(t, submits, n, e) ==
    /\ ~Active(t)
    /\ IF submits THEN n # 0 /\ practice[n].state # "none" /\ e # None ELSE n = 0 /\ e = None
    /\ Become(t, [step |-> "latest", submits |-> submits, target |-> n, essay |-> e,
                  first |-> None, update |-> 0, kind |-> None, essayFound |-> None, trace |-> << >>,
                  providers |-> 0, prepared |-> FALSE, stop |-> None])
    /\ UNCHANGED <<updates, practice, applied, direct, faults>>
BeginContinue(t) == Begin(t, FALSE, 0, None)

-----------------------------------------------------------------------------
(***************************************************************************)
(* observe_agent_state                                                     *)
(***************************************************************************)
Classified(q, kind, essay) == [q EXCEPT !.step = "select", !.kind = kind, !.essayFound = essay,
                                        !.first = IF @ = None THEN kind ELSE @,
                                        !.trace = Append(@, "observation_classified")]

\* The update with the largest id, and its recommendation, which never changes.
ReadLatest(t) ==
    LET q == [turn[t] EXCEPT !.update = Latest] IN
    /\ At(t, "latest")
    /\ Become(t, IF Latest = 0 THEN Classified(q, "needs_initial_writing", None)
                 ELSE IF updates[Latest] = "practice" THEN [q EXCEPT !.step = "practice"]
                 ELSE Classified(q, "no_practice", None))
    /\ UNCHANGED <<updates, practice, applied, direct, faults>>

ReadPractice(t) ==
    LET q == turn[t] row == practice[q.update] IN
    /\ At(t, "practice")
    /\ Become(t, CASE row.state = "none" -> Classified(q, "needs_generation", None)
                   [] row.state = "generated" ->
                        Classified(q, "needs_practice_submission", None)
                   [] row.state = "submission_in_progress" ->
                        Classified(q, "await_submission", row.essay)
                   [] row.state = "submitted" ->
                        [q EXCEPT !.step = "completion", !.essayFound = row.essay])
    /\ UNCHANGED <<updates, practice, applied, direct, faults>>

\* MemoryInvariantError when the practice has been applied meanwhile.
ReadCompletion(t) ==
    LET q == turn[t] IN
    /\ At(t, "completion")
    /\ Become(t, IF applied[q.update] # None THEN Stopped(q, "error")
                 ELSE Classified(q, "needs_completion", q.essayFound))
    /\ UNCHANGED <<updates, practice, applied, direct, faults>>

-----------------------------------------------------------------------------
(***************************************************************************)
(* The loop of execute and select_agent_action                             *)
(***************************************************************************)
Selecting(t) == At(t, "select") /\ Mutations(t) < MaxMutations

OutOfActions(t) ==
    /\ At(t, "select") /\ Mutations(t) >= MaxMutations
    /\ Stop(t, "max_actions")

HasPractice(kind) ==
    kind \in {"needs_practice_submission", "await_submission", "needs_completion"}
IsCurrent(q) == HasPractice(q.kind) /\ q.update = q.target

\* resolve_submitted_replay for a practice that is no longer the observed one, with
\* the provider-free submit that follows it: a submitted practice does not change.
SelectReplay(t) ==
    LET q == turn[t] row == practice[q.target]
        reused == [q EXCEPT !.trace = Append(@, "submission_reused"), !.submits = FALSE] IN
    /\ Selecting(t) /\ q.submits /\ ~IsCurrent(q)
    /\ Become(t, IF row.state # "submitted" THEN Stopped(q, "stale")
                 ELSE IF row.essay # q.essay
                 THEN Refused(q, "submission_conflict")
                 ELSE IF applied[q.target] = None
                 THEN [reused EXCEPT !.step = "complete", !.update = q.target]
                 ELSE Reobserve(reused))

SelectSubmission(t) ==
    LET q == turn[t] IN
    /\ Selecting(t) /\ q.submits /\ IsCurrent(q)
    /\ IF q.essayFound \notin {None, q.essay}
       THEN Become(t, Refused(q, "submission_conflict"))
       ELSE GoTo(t, "claim")

MayGenerateAgain(q) == q.providers < MaxProviderCalls   \* mutant: only counts evaluations
MayGenerate(q) == /\ Count(q.trace, "generate") < MaxGenerations
                  /\ q.providers < MaxProviderCalls
MayComplete(q) == Count(q.trace, "complete") < MaxCompletions

StopUnlessGenerating(t) ==   \* mutant: needs_completion is one more reason to stop
    /\ Selecting(t) /\ ~turn[t].submits
    /\ IF turn[t].kind = "needs_generation" /\ MayGenerate(turn[t])
       THEN GoTo(t, "fence") ELSE Stop(t, turn[t].kind)

SelectContinue(t) ==
    LET q == turn[t] IN
    /\ Selecting(t) /\ ~q.submits
    /\ CASE q.kind = "needs_generation" ->
              IF MayGenerate(q) THEN GoTo(t, "fence") ELSE Stop(t, "max_actions")
         [] q.kind = "needs_completion" ->
              IF MayComplete(q) THEN GoTo(t, "complete") ELSE Stop(t, "max_actions")
         [] q.kind = "needs_practice_submission" /\ q.prepared -> Stop(t, "practice_ready")
         [] OTHER -> Stop(t, q.kind)

Select(t) ==
    /\ OutOfActions(t) \/ SelectReplay(t) \/ SelectSubmission(t) \/ SelectContinue(t)
    /\ UNCHANGED <<updates, practice, applied, direct, faults>>

-----------------------------------------------------------------------------
(***************************************************************************)
(* generate_or_resolve_current: fence, provider, fence                     *)
(***************************************************************************)
IsLatest(t) == turn[t].update = Latest
GenerationRan(q, outcome) == Ran([q EXCEPT !.prepared = outcome \in Prepared], outcome)

CheckFence(t) ==
    /\ At(t, "fence")
    /\ IF IsLatest(t) THEN GoTo(t, "existing")
       ELSE Become(t, GenerationRan(turn[t], "generation_stale_discarded"))
    /\ UNCHANGED <<updates, practice, applied, direct, faults>>

ResolveExisting(t) ==
    /\ At(t, "existing")
    /\ IF practice[turn[t].update].state = "none"
       THEN GoTo(t, "generating")
       ELSE Become(t, GenerationRan(turn[t], "practice_resolved"))
    /\ UNCHANGED <<updates, practice, applied, direct, faults>>

\* The second fence and the insert, under the learner's lock.  The insert that loses
\* to a granular one resolves the winner.
PersistIf(t, current) ==
    LET q == [turn[t] EXCEPT !.providers = @ + 1] IN
    /\ At(t, "generating")
    /\ practice' = IF current /\ practice[q.update].state = "none"
                   THEN [practice EXCEPT ![q.update] = Generated] ELSE practice
    /\ Become(t, GenerationRan(q, CASE ~current -> "generation_stale_discarded"
                                    [] practice' = practice -> "practice_resolved"
                                    [] OTHER -> "practice_generated"))
    /\ UNCHANGED <<updates, applied, direct, faults>>
PersistUnfenced(t) == PersistIf(t, TRUE)   \* mutant: no check after the provider call
PersistGenerated(t) == PersistIf(t, IsLatest(t))

-----------------------------------------------------------------------------
(***************************************************************************)
(* submit, with the observed update as its expectation, and complete       *)
(***************************************************************************)
Claimed(e, holder) == [state |-> "submission_in_progress", essay |-> e, holder |-> holder]
Claim(t) ==
    LET q == turn[t] row == practice[q.target] IN
    /\ At(t, "claim")
    /\ \/ /\ ~IsLatest(t)
          /\ Stop(t, "stale") /\ UNCHANGED practice
       \/ /\ IsLatest(t) /\ row.state # "generated" /\ row.essay # q.essay
          /\ Become(t, Refused(q, "submission_conflict"))
          /\ UNCHANGED practice
       \/ /\ IsLatest(t) /\ row.state = "submitted" /\ row.essay = q.essay
          /\ Become(t, Ran([q EXCEPT !.submits = FALSE], "submission_reused")) /\ UNCHANGED practice
       \/ /\ IsLatest(t) /\ row = Claimed(q.essay, row.holder)   \* the lease is live
          /\ Become(t, Refused(q, "submission_in_progress"))
          /\ UNCHANGED practice
       \/ /\ IsLatest(t)
          /\ row.state = "generated" \/ row = Claimed(q.essay, row.holder)
          /\ practice' = [practice EXCEPT ![q.target] = Claimed(q.essay, t)]
          /\ GoTo(t, "evaluating")
    /\ UNCHANGED <<updates, applied, direct, faults>>

Holds(h, n) == practice[n].state = "submission_in_progress" /\ practice[n].holder = h
Submitted(n) == practice' = [practice EXCEPT ![n].state = "submitted", ![n].holder = None]

\* _finalize: the holder's evaluation is stored, another's is an error.
FinishEvaluation(t) ==
    LET q == turn[t] IN
    /\ At(t, "evaluating")
    /\ IF Holds(t, q.target)
       THEN /\ Submitted(q.target)
            /\ Become(t, Ran([q EXCEPT !.submits = FALSE, !.providers = @ + 1],
                             "submission_submitted"))
       ELSE Stop(t, "error") /\ UNCHANGED practice
    /\ UNCHANGED <<updates, applied, direct, faults>>

\* apply_writing_evaluation, where d is what the planner decides on the new states.
Apply(d) == Latest < MaxUpdates /\ updates' = Append(updates, d)
ApplyPractice(n, d) == Apply(d) /\ applied' = [applied EXCEPT ![n] = "own"]

\* A practice applied before is a reuse, or a conflict if another learner owns it.
Complete(t) ==
    LET q == turn[t] n == q.update IN
    /\ At(t, "complete")
    /\ \/ /\ applied[n] = None
          /\ \E d \in Decisions : ApplyPractice(n, d)
          /\ Become(t, Ran(q, "completion_applied"))
       \/ /\ applied[n] # None
          /\ IF applied[n] = "own" THEN Become(t, Ran(q, "completion_reused")) ELSE Stop(t, "error")
          /\ UNCHANGED <<updates, applied>>
    /\ UNCHANGED <<practice, direct, faults>>

-----------------------------------------------------------------------------
(***************************************************************************)
(* Failures and the granular endpoints                                     *)
(***************************************************************************)
\* An exception or a dead server ends the turn.  A failed evaluation gives its claim
\* back; after a crash the claim stays.
Fail(t) ==
    /\ Active(t)
    /\ faults < MaxFaults /\ faults' = faults + 1
    /\ \/ UNCHANGED practice
       \/ /\ At(t, "evaluating") /\ Holds(t, turn[t].target)
          /\ practice' = [practice EXCEPT ![turn[t].target] = Generated]
    /\ Stop(t, "error")
    /\ UNCHANGED <<updates, applied, direct>>

Granular == direct < MaxDirect /\ direct' = direct + 1

\* A first essay, or any evaluation that belongs to no practice.
DirectApply == /\ Granular
               /\ \E d \in Decisions : Apply(d)
               /\ UNCHANGED <<practice, applied, turn, faults>>

DirectGenerate(n) ==
    /\ Granular
    /\ n <= Latest /\ updates[n] = "practice" /\ practice[n].state = "none"
    /\ practice' = [practice EXCEPT ![n] = Generated]
    /\ UNCHANGED <<updates, applied, turn, faults>>

DirectClaim(n, e) ==
    /\ Granular
    /\ practice[n].state = "generated" \/ practice[n] = Claimed(e, practice[n].holder)
    /\ practice' = [practice EXCEPT ![n] = Claimed(e, Client)]
    /\ UNCHANGED <<updates, applied, turn, faults>>

DirectFinish(n) ==
    /\ Holds(Client, n)
    /\ Submitted(n) \/ practice' = [practice EXCEPT ![n] = Generated]
    /\ UNCHANGED <<updates, applied, turn, direct, faults>>

\* complete, or an apply that names another learner.
DirectComplete(n) ==
    /\ Granular
    /\ practice[n].state = "submitted" /\ applied[n] = None
    /\ \/ \E d \in Decisions : ApplyPractice(n, d)
       \/ applied' = [applied EXCEPT ![n] = "other"] /\ UNCHANGED updates
    /\ UNCHANGED <<practice, turn, faults>>

Observe(t) == ReadLatest(t) \/ ReadPractice(t) \/ ReadCompletion(t)
Generate(t) == CheckFence(t) \/ ResolveExisting(t) \/ PersistGenerated(t)
SubmitPractice(t) == Claim(t) \/ FinishEvaluation(t)
Run(t) == Observe(t) \/ Select(t) \/ Generate(t) \/ SubmitPractice(t) \/ Complete(t)

Step ==
    \/ \E t \in Turns, n \in Numbers, e \in Essays : Begin(t, TRUE, n, e)
    \/ \E t \in Turns : BeginContinue(t)
    \/ \E t \in Turns : Run(t)
    \/ \E t \in Turns : Fail(t)
    \/ DirectApply
    \/ \E n \in Numbers : DirectGenerate(n) \/ DirectFinish(n) \/ DirectComplete(n)
    \/ \E n \in Numbers, e \in Essays : DirectClaim(n, e)

\* The history of the turns that were not alone; it guards nothing.
Watch ==
    disturbed' = {t \in Turns :
                    \/ t \in disturbed /\ (Active(t) \/ turn'[t] = turn[t])
                    \/ /\ Active(t) /\ turn'[t] = turn[t]
                       /\ <<updates, practice, applied>>' # <<updates, practice, applied>>}

Next == Step /\ Watch

Spec == Init /\ [][Next]_vars

\* Servers run the turns they have accepted, and the learner's client goes on asking
\* to continue whenever a turn has been answered.
FairSpec == Spec /\ \A t \in Turns : WF_state(Run(t)) /\ SF_state(BeginContinue(t))

-----------------------------------------------------------------------------
(***************************************************************************)
(* Properties                                                              *)
(***************************************************************************)

\* No turn exceeds its bounds or the seven steps its response has room for, however
\* often what it observed was stale when it acted on it.
WithinBounds ==
    \A t \in Turns : turn[t] # Idle =>
      /\ Mutations(t) <= MaxMutations
      /\ Count(turn[t].trace, "observe") <= MaxObservations
      /\ Count(turn[t].trace, "generate") <= MaxGenerations
      /\ Count(turn[t].trace, "complete") <= MaxCompletions
      /\ turn[t].providers <= MaxProviderCalls
      /\ Len(turn[t].trace) <= 7

\* A turn creates a practice, and takes an essay for evaluation, only for the update
\* that is the learner's latest at that moment, although it chose to before it waited
\* for a lock or a provider.
AgentActsOnCurrent ==
    [][\A n \in Numbers :
         \/ direct' = direct /\ practice[n].state = "none" /\ practice'[n].state # "none"
         \/ practice'[n].holder \in Turns \ {practice[n].holder}
         => n = Latest]_vars

\* While the client goes on asking, an essay submitted for the latest update's
\* practice is applied or overtaken by a newer update: no failed turn and no race
\* leaves the learner stuck before it.  (The last update within the bound has no
\* successor.)
SubmittedIsSettled ==
    \A n \in 1..(MaxUpdates - 1) :
      (n = Latest /\ practice[n].state = "submitted")
        ~> (applied[n] # None \/ Latest > n)

Answered(t) == At(t, "done") /\ turn[t].stop \in StopReasons

\* What the evaluation gate takes for an allowed trajectory is what a turn does that
\* runs alone, but for an essay sent for a claimed practice, and another essay sent for
\* a practice submitted before: those it does not know.  A turn that others disturb can
\* fail it in that way and in three more, and keeps all the bounds and orders it checks.
Unforeseen == {"submission_without_practice", "completion_without_submission",
               "generation_without_valid_state", "generation_stale_discarded"}
Unknown(q) == q.first = "await_submission" \/ q.stop = "submission_conflict"
EvaluatorAccepts ==
    \A t \in Turns :
      LET q == turn[t] found == Violations(q.first, q.trace, q.stop) IN
      Answered(t) =>
        /\ found \subseteq Unforeseen
        /\ \/ t \in disturbed \/ found = {}
           \/ found = {"submission_without_practice"} /\ Unknown(q)

\* docs/CORE_LEARNING_AGENT_POLICY.md: a matching essay of a submitted practice stays
\* replayable even if another recommendation is current by then.
MatchingReplayAccepted ==
    [][\A t \in Turns :
         LET row == practice[turn[t].target] IN
         At(t, "claim") /\ row.state = "submitted" /\ row.essay = turn[t].essay
           => turn'[t].stop # "stale"]_vars

\* docs/CORE_LEARNING_AGENT_POLICY.md: a submitted or reused result is completed if it
\* is unapplied before the turn goes on from the current state.
Settling(q) == q.stop \in {"needs_practice_submission", "practice_ready", "no_practice"}
SubmittedEssayApplied ==
    \A t \in Turns :
      At(t, "done") /\ Settling(turn[t]) /\ Count(turn[t].trace, "submit") > 0
        => applied[turn[t].target] # None
=============================================================================

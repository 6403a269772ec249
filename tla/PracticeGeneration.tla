------------------------- MODULE PracticeGeneration -------------------------
(***************************************************************************)
(* PracticeGenerationService: the granular generate_or_resolve and the     *)
(* agent's generate_or_resolve_current turn a recommendation into its one  *)
(* practice, around a provider call that no transaction is open for.       *)
(*                                                                         *)
(* Reads are READ COMMITTED statements, and each is a step.  Two things    *)
(* are PostgreSQL's: an insert waits for an uncommitted one with the same  *)
(* unique key, and the foreign key of the inserted row, checked after its  *)
(* index entry is there, takes the learner's row FOR KEY SHARE, which      *)
(* waits for whoever holds it FOR UPDATE.                                  *)
(***************************************************************************)
EXTENDS ProviderPolicy, Sequences, FiniteSets

CONSTANTS
    Learners, Recommendations,
    Owner,         \* practice_recommendations.learner_id
    UpdateOf,      \* the learner's update that carries the recommendation
    Practising,    \* the recommendations whose decision is "practice"
    Contents,      \* what a provider can generate
    Calls,         \* generation calls the servers can be running at once
    None,
    MaxUpdates,    \* bound: learning updates of a learner
    MaxFaults      \* bound: database failures and crashes

ASSUME RecommendationAssumption ==
    /\ Owner \in [Recommendations -> Learners]
    /\ UpdateOf \in [Recommendations -> 1..MaxUpdates]
    /\ \A r, s \in Recommendations :
         Owner[r] = Owner[s] /\ UpdateOf[r] = UpdateOf[s] => r = s
    /\ Practising \subseteq Recommendations
ASSUME BoundAssumption == MaxUpdates \in Nat /\ MaxFaults \in Nat
ASSUME NullAssumption == None \notin Calls \cup Contents

VARIABLES
    rows,      \* writing_practices: the committed rows of each recommendation
    latest,    \* a learner's latest accepted learning update
    lock,      \* the call that holds a learner's row FOR UPDATE
    call,      \* the local state of each call
    faults

vars == <<rows, latest, lock, call, faults>>

Steps == {"load", "fence", "existing", "provider", "lock", "recheck", "insert",
          "inserted", "winner", "done"}
\* The outcomes of success, and of failure by their HTTP answer.
Answers == {"practice", "no_practice", "stale_discarded", "not_found", "not_owner",
            "unavailable", "provider_502", "provider_503", "provider_504"}

Call == [step: Steps, fenced: BOOLEAN, learner: Learners, recommendation: Recommendations,
         attempt: 1..MaxProviderAttempts, content: Contents \cup {None},
         answer: Answers \cup {None}]
Idle == [step |-> "idle"]

TypeOK ==
    /\ rows \in [Recommendations -> Seq(Contents)]
    /\ latest \in [Learners -> 0..MaxUpdates]
    /\ lock \in [Learners -> Calls \cup {None}]
    /\ call \in [Calls -> Call \cup {Idle}]
    /\ faults \in 0..MaxFaults

Init ==
    /\ rows = [r \in Recommendations |-> << >>]
    /\ latest \in [Learners -> 0..MaxUpdates]
    /\ lock = [l \in Learners |-> None]
    /\ call = [c \in Calls |-> Idle]
    /\ faults = 0

-----------------------------------------------------------------------------
At(c, step) == call[c].step = step
Active(c) == call[c].step \notin {"idle", "done"}
Target(c) == call[c].recommendation
GoTo(c, step) == call' = [call EXCEPT ![c].step = step]
Answered(c, answer, content) ==
    call' = [call EXCEPT ![c].step = "done", ![c].answer = answer, ![c].content = content]
Released(c) == [l \in Learners |-> IF lock[l] = c THEN None ELSE lock[l]]
Exists(r) == UpdateOf[r] <= latest[Owner[r]]

\* The agent names a recommendation that it has observed as its learner's.
Begin(c, fenced, l, r) ==
    /\ ~Active(c)
    /\ fenced => l = Owner[r] /\ Exists(r)
    /\ call' = [call EXCEPT ![c] =
                  [step |-> "load", fenced |-> fenced, learner |-> l, recommendation |-> r,
                   attempt |-> 1, content |-> None, answer |-> None]]
    /\ UNCHANGED <<rows, latest, lock, faults>>

LoadRecommendation(c) ==
    /\ At(c, "load")
    /\ CASE ~Exists(Target(c)) -> Answered(c, "not_found", None)
         [] Exists(Target(c)) /\ Owner[Target(c)] # call[c].learner ->
              Answered(c, "not_owner", None)
         [] OTHER -> GoTo(c, IF call[c].fenced THEN "fence" ELSE "existing")
    /\ UNCHANGED <<rows, latest, lock, faults>>

IsCurrent(c) == latest[call[c].learner] = UpdateOf[Target(c)]

\* _agent_recommendation_is_current, before the provider is asked.
CheckFence(c) ==
    /\ At(c, "fence")
    /\ IF IsCurrent(c) THEN GoTo(c, "existing") ELSE Answered(c, "stale_discarded", None)
    /\ UNCHANGED <<rows, latest, lock, faults>>

ResolveExisting(c) ==
    /\ At(c, "existing")
    /\ CASE rows[Target(c)] # << >> -> Answered(c, "practice", rows[Target(c)][1])
         [] rows[Target(c)] = << >> /\ Target(c) \notin Practising ->
              Answered(c, IF call[c].fenced THEN "stale_discarded" ELSE "no_practice", None)
         [] OTHER -> GoTo(c, "provider")
    /\ UNCHANGED <<rows, latest, lock, faults>>

ProviderAnswer(category) ==
    CASE ProviderStatus(category) = 502 -> "provider_502"
      [] ProviderStatus(category) = 503 -> "provider_503"
      [] ProviderStatus(category) = 504 -> "provider_504"

\* The generator cannot be built: the route's dependency, or the agent's tool, fails before
\* anything is read.
Unconfigured(c) ==
    /\ At(c, "load")
    /\ Answered(c, ProviderAnswer("configuration"), None)
    /\ UNCHANGED <<rows, latest, lock, faults>>

\* One exchange of the retrying generator.  A practice for another skill fails like any other
\* invalid content, whether the adapter finds it ("other_skill") or the service does.
Generate(c) ==
    /\ At(c, "provider")
    /\ \/ \E content \in Contents :
            call' = [call EXCEPT ![c].content = content,
                                 ![c].step = IF call[c].fenced THEN "lock" ELSE "insert"]
       \/ \E failure \in Failures :
            IF ShouldRetry(Category(failure), call[c].attempt)
            THEN call' = [call EXCEPT ![c].attempt = @ + 1]
            ELSE Answered(c, ProviderAnswer(Category(failure)), None)
    /\ UNCHANGED <<rows, latest, lock, faults>>

-----------------------------------------------------------------------------
(***************************************************************************)
(* _persist_if_agent_current and _persist_or_resolve_winner                *)
(***************************************************************************)
LockLearnerFreely(c) ==   \* mutant: the row is read without FOR UPDATE
    /\ At(c, "lock")
    /\ GoTo(c, "recheck")
    /\ UNCHANGED <<rows, latest, lock, faults>>

LockLearner(c) ==
    /\ At(c, "lock")
    /\ lock[call[c].learner] = None
    /\ lock' = [lock EXCEPT ![call[c].learner] = c]
    /\ GoTo(c, "recheck")
    /\ UNCHANGED <<rows, latest, faults>>

RecheckKeepsLock(c) ==   \* mutant: returning leaves the transaction open
    /\ At(c, "recheck")
    /\ CASE ~IsCurrent(c) -> Answered(c, "stale_discarded", None)
         [] IsCurrent(c) /\ rows[Target(c)] # << >> ->
              Answered(c, "practice", rows[Target(c)][1])
         [] OTHER -> GoTo(c, "insert")
    /\ UNCHANGED <<rows, latest, lock, faults>>

Recheck(c) ==
    /\ At(c, "recheck")
    /\ CASE ~IsCurrent(c) ->
              Answered(c, "stale_discarded", None) /\ lock' = Released(c)
         [] IsCurrent(c) /\ rows[Target(c)] # << >> ->
              Answered(c, "practice", rows[Target(c)][1]) /\ lock' = Released(c)
         [] OTHER -> GoTo(c, "insert") /\ UNCHANGED lock
    /\ UNCHANGED <<rows, latest, faults>>

InsertedElsewhere(c) ==
    \E d \in Calls \ {c} : At(d, "inserted") /\ Target(d) = Target(c)

InsertBeside(c) ==   \* mutant: no unique constraint on recommendation_id
    /\ At(c, "insert")
    /\ GoTo(c, "inserted")
    /\ UNCHANGED <<rows, latest, lock, faults>>

\* The insert that finds a committed row fails, and its transaction with it.
Insert(c) ==
    /\ At(c, "insert")
    /\ ~InsertedElsewhere(c)
    /\ IF rows[Target(c)] = << >>
       THEN GoTo(c, "inserted") /\ UNCHANGED lock
       ELSE GoTo(c, "winner") /\ lock' = Released(c)
    /\ UNCHANGED <<rows, latest, faults>>

MayCommit(c) == At(c, "inserted") /\ lock[call[c].learner] \in {c, None}
Stored(c) == rows' = [rows EXCEPT ![Target(c)] = Append(@, call[c].content)]

Commit(c) ==
    /\ MayCommit(c)
    /\ Stored(c)
    /\ Answered(c, "practice", call[c].content)
    /\ lock' = Released(c)
    /\ UNCHANGED <<latest, faults>>

ResolveWinner(c) ==
    /\ At(c, "winner")
    /\ IF rows[Target(c)] # << >>
       THEN Answered(c, "practice", rows[Target(c)][1])
       ELSE Answered(c, "unavailable", None)
    /\ UNCHANGED <<rows, latest, lock, faults>>

\* c's foreign key waits for the learner's lock of d, whose insert waits for c's.
Deadlocked(c, d) ==
    /\ At(c, "inserted") /\ At(d, "insert") /\ c # d
    /\ Target(c) = Target(d)
    /\ lock[call[c].learner] = d

\* PostgreSQL ends one of the two; that error is no IntegrityError.
EndDeadlock(c) ==
    /\ \E d \in Calls : Deadlocked(c, d) \/ Deadlocked(d, c)
    /\ Answered(c, "unavailable", None)
    /\ lock' = Released(c)
    /\ UNCHANGED <<rows, latest, faults>>

-----------------------------------------------------------------------------
\* The database fails a statement, a commit's acknowledgement is lost, or the server
\* dies, which answers nobody.
Fail(c) ==
    /\ Active(c)
    /\ faults < MaxFaults /\ faults' = faults + 1
    /\ UNCHANGED rows \/ (MayCommit(c) /\ Stored(c))
    /\ \/ ~At(c, "provider") /\ Answered(c, "unavailable", None)
       \/ call' = [call EXCEPT ![c] = Idle]
    /\ lock' = Released(c)
    /\ UNCHANGED latest

\* apply_writing_evaluation, which holds the learner's row from its lock to its commit.
Advance(l) ==
    /\ latest[l] < MaxUpdates
    /\ lock[l] = None
    /\ latest' = [latest EXCEPT ![l] = @ + 1]
    /\ UNCHANGED <<rows, lock, call, faults>>

Persist(c) == LockLearner(c) \/ Recheck(c) \/ Insert(c) \/ Commit(c) \/ ResolveWinner(c)
Serve(c) == Unconfigured(c) \/ LoadRecommendation(c) \/ CheckFence(c) \/ ResolveExisting(c)
            \/ Generate(c) \/ Persist(c) \/ EndDeadlock(c)

Next ==
    \/ \E c \in Calls, fenced \in BOOLEAN, l \in Learners, r \in Recommendations :
         Begin(c, fenced, l, r)
    \/ \E c \in Calls : Serve(c)
    \/ \E c \in Calls : Fail(c)
    \/ \E l \in Learners : Advance(l)

Spec == Init /\ [][Next]_vars

\* Servers run their coroutines, the database ends deadlocks and serves the waiters of
\* a row lock in turn.
FairSpec == Spec /\ \A c \in Calls : WF_vars(Serve(c)) /\ SF_vars(Persist(c))

-----------------------------------------------------------------------------
(***************************************************************************)
(* Properties                                                              *)
(***************************************************************************)

Given == {<<Target(c), call[c].content>> :
            c \in {d \in Calls : At(d, "done") /\ call[d].answer = "practice"}}

\* However calls race around the provider and the unique index, a recommendation has
\* one practice for good, and every caller that got a practice got that one.
OnePractice == INSTANCE OnePracticeEach WITH practices <- rows, given <- Given
ImplementsOnePractice == OnePractice!Spec

\* The agent's call stores a practice only while the update it observed is still the
\* learner's latest, at the commit and not merely when it looked.
FencedIsCurrent ==
    [][\A c \in Calls :
         At(c, "inserted") /\ call[c].fenced /\ rows' # rows /\ call'[c] # call[c]
           => latest[call[c].learner] = UpdateOf[Target(c)]]_vars

\* No call waits for ever: not for another call's lock, nor for its index entry.
EveryCallAnswered == \A c \in Calls : Active(c) ~> ~Active(c)

\* PracticeGenerationService: a concurrent insert loser resolves and returns the
\* persisted unique-constraint winner.
LoserGetsWinner ==
    \A c \in Calls : At(c, "done") /\ faults = 0 => call[c].answer # "unavailable"
=============================================================================

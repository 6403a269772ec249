------------------------- MODULE PracticeSubmission -------------------------
(***************************************************************************)
(* PracticeSubmissionService.submit: a request claims a generated practice *)
(* in a short transaction, evaluates the essay outside the database, then  *)
(* finalizes (one attempt with its evaluation) or releases its claim.      *)
(*                                                                         *)
(* Every transaction keeps its row locks until it commits and reads after  *)
(* it has locked, so each is one action here; requests interleave between  *)
(* them, around the awaited evaluation.  A practice's question never       *)
(* changes, so the SHA-256 fingerprint of (practice, question, essay)      *)
(* tells a practice's submissions apart exactly as the essay does.         *)
(***************************************************************************)
EXTENDS ProviderPolicy, Sequences

CONSTANTS
    Learners, Practices, Essays,
    Requests,          \* submit calls the servers can be running at once
    Tokens,            \* values of secrets.token_urlsafe
    Owner,             \* writing_practices.learner_id
    Anchor,            \* the learning update whose recommendation the practice serves
    None,              \* SQL NULL
    Lease,             \* SUBMISSION_CLAIM_LEASE_SECONDS, in ticks of the database clock
    AttemptLimit,      \* ticks a provider attempt and the pause after it can take
    MaxUpdates,        \* bound: learning updates of a learner
    MaxFaults          \* bound: crashes, failed evaluations and database failures

ASSUME OwnershipAssumption == Owner \in [Practices -> Learners]
ASSUME AnchorAssumption == Anchor \in [Practices -> 1..MaxUpdates]
ASSUME BoundAssumption == /\ Lease \in Nat \ {0}
                          /\ AttemptLimit \in Nat
                          /\ MaxUpdates \in Nat
                          /\ MaxFaults \in Nat
ASSUME NullAssumption == None \notin Essays \cup Tokens \cup Nat

VARIABLES
    practice,   \* the submission columns of writing_practices
    attempts,   \* the attempt/evaluation pairs written for a practice, in order
    latest,     \* a learner's latest accepted learning update
    request,    \* the local state of each submit call
    faults      \* faults so far

vars == <<practice, attempts, latest, request, faults>>

LifecycleStates == {"generated", "submission_in_progress", "submitted"}
Answers == {"submitted", "reused", "in_progress", "conflict", "stale",
            "not_owner", "error"}
Steps == {"idle", "claim", "evaluate", "finalize", "reset", "done"}

\* age is clock_timestamp() - submission_claimed_at, which only matters up to
\* the lease; attempt is the attempt's position in attempts.  A call's try is its
\* attempt at the provider; its elapsed is history: the ticks, up to Lease, since
\* its own claim.
PracticeRow == [state: LifecycleStates, fingerprint: Essays \cup {None},
                token: Tokens \cup {None}, age: (0..Lease) \cup {None},
                attempt: Nat \cup {None}]
Call == [step: Steps, learner: Learners, practice: Practices, essay: Essays,
         expect: (1..MaxUpdates) \cup {None}, token: Tokens \cup {None},
         try: 1..MaxProviderAttempts, elapsed: 0..Lease, answer: Answers \cup {None}]
Idle == [step |-> "idle"]

TypeOK ==
    /\ practice \in [Practices -> PracticeRow]
    /\ attempts \in [Practices -> Seq(Essays)]
    /\ latest \in [Learners -> 0..MaxUpdates]
    /\ request \in [Requests -> Call \cup {Idle}]
    /\ faults \in 0..MaxFaults

Generated == [state |-> "generated", fingerprint |-> None, token |-> None, age |-> None,
              attempt |-> None]
\* A claim from before leases, which the migration made recoverable.
LeaselessClaim(e, t) == [state |-> "submission_in_progress", fingerprint |-> e, token |-> t,
                         age |-> Lease, attempt |-> None]

Init ==
    /\ practice \in [Practices -> {Generated}
                                   \cup {LeaselessClaim(e, t) : e \in Essays, t \in Tokens}]
    /\ attempts = [p \in Practices |-> << >>]
    /\ latest \in [Learners -> 0..MaxUpdates]
    /\ \A p \in Practices : Anchor[p] <= latest[Owner[p]]
    /\ request = [r \in Requests |-> Idle]
    /\ faults = 0

-----------------------------------------------------------------------------
At(r, step) == request[r].step = step
Row(r) == practice[request[r].practice]
\* The test the locked row must pass before it is reset or finalized.
OwnsAnyClaim(r) == Row(r).state = "submission_in_progress"   \* mutant: no token check
OwnsClaim(r) == /\ Row(r).state = "submission_in_progress"
                /\ Row(r).token = request[r].token

Answered(r, answer) ==
    request' = [request EXCEPT ![r].step = "done", ![r].token = None,
                               ![r].try = 1, ![r].elapsed = 0, ![r].answer = answer]
Fault == faults < MaxFaults /\ faults' = faults + 1

\* A submit call arrives.  expect is the update an agent observed, at any earlier
\* time; the granular endpoint sends none.
Submit(r, l, p, e, x) ==
    /\ request[r].step \in {"idle", "done"}
    /\ x = None \/ x \in 1..latest[l]
    /\ request' = [request EXCEPT ![r] =
                     [step |-> "claim", learner |-> l, practice |-> p, essay |-> e,
                      expect |-> x, token |-> None, try |-> 1, elapsed |-> 0,
                      answer |-> None]]
    /\ UNCHANGED <<practice, attempts, latest, faults>>

AnyEssayMatches(r) == TRUE                            \* mutant: fingerprint ignored
EssayMatches(r) == Row(r).fingerprint = request[r].essay
LeaseExpiredEarly(r) == Row(r).age >= Lease - 1       \* mutant: off by one
LeaseNeverExpires(r) == FALSE                         \* mutant: dead claims stay
LeaseExpired(r) == Row(r).age >= Lease

\* What _claim decides, check by check in its order, under its row locks.
Decision(r) ==
    LET q == request[r] IN
    IF q.expect # None /\ latest[q.learner] # q.expect THEN "stale"
    ELSE IF Owner[q.practice] # q.learner THEN "not_owner"
    ELSE IF q.expect # None /\ Anchor[q.practice] # q.expect THEN "stale"
    ELSE IF Row(r).state = "generated" THEN "granted"
    ELSE IF ~EssayMatches(r) THEN "conflict"
    ELSE IF Row(r).state = "submitted" THEN "reused"
    ELSE IF LeaseExpired(r) THEN "granted"
    ELSE "in_progress"

FreshTokens == Tokens \ ({practice[p].token : p \in Practices}
                         \cup {request[r].token : r \in {q \in Requests : ~At(q, "idle")}})

\* A first claim sets all four columns; a reclaim finds its own fingerprint there.
WriteClaim(r, t) ==
    LET p == request[r].practice IN
    practice' = [practice EXCEPT ![p].state = "submission_in_progress",
                                 ![p].fingerprint = request[r].essay,
                                 ![p].token = t, ![p].age = 0]

ClaimRefusedRaw(r) ==   \* mutant: the row's state is returned as the status
    /\ At(r, "claim")
    /\ Decision(r) # "granted"
    /\ Answered(r, Row(r).state)
    /\ UNCHANGED <<practice, attempts, latest, faults>>

ClaimRefused(r) ==
    /\ At(r, "claim")
    /\ Decision(r) # "granted"
    /\ Answered(r, Decision(r))
    /\ UNCHANGED <<practice, attempts, latest, faults>>

ClaimGranted(r) ==
    /\ At(r, "claim")
    /\ Decision(r) = "granted"
    /\ \E t \in FreshTokens :
         /\ WriteClaim(r, t)
         /\ request' = [request EXCEPT ![r].step = "evaluate", ![r].token = t]
    /\ UNCHANGED <<attempts, latest, faults>>

\* The claim transaction fails, or commits and its acknowledgement is lost: the
\* call ends and nobody knows the token.
ClaimFails(r) ==
    /\ At(r, "claim")
    /\ Fault
    /\ \/ UNCHANGED practice
       \/ Decision(r) = "granted" /\ \E t \in FreshTokens : WriteClaim(r, t)
    /\ Answered(r, "error")
    /\ UNCHANGED <<attempts, latest>>

EvaluationSucceeds(r) ==
    /\ At(r, "evaluate")
    /\ request' = [request EXCEPT ![r].step = "finalize"]
    /\ UNCHANGED <<practice, attempts, latest, faults>>

\* RetryingProvider: the attempt fails, and another one follows within the claim.
EvaluationRetries(r) ==
    /\ At(r, "evaluate")
    /\ \E category \in ErrorCategories : ShouldRetry(category, request[r].try)
    /\ request' = [request EXCEPT ![r].try = @ + 1]
    /\ UNCHANGED <<practice, attempts, latest, faults>>

EvaluationFails(r) ==
    /\ At(r, "evaluate")
    /\ \E category \in ErrorCategories : ~ShouldRetry(category, request[r].try)
    /\ Fault
    /\ request' = [request EXCEPT ![r].step = "reset"]
    /\ UNCHANGED <<practice, attempts, latest>>

\* _reset_claim_if_owned, then the original error is raised.
ResetClaim(r) ==
    /\ At(r, "reset")
    /\ IF OwnsClaim(r)
       THEN practice' = [practice EXCEPT ![request[r].practice].state = "generated",
                                         ![request[r].practice].fingerprint = None,
                                         ![request[r].practice].token = None,
                                         ![request[r].practice].age = None]
       ELSE UNCHANGED practice
    /\ Answered(r, "error")
    /\ UNCHANGED <<attempts, latest, faults>>

ResetFails(r) ==
    /\ At(r, "reset")
    /\ Fault
    /\ Answered(r, "error")
    /\ UNCHANGED <<practice, attempts, latest>>

\* The attempt, its evaluation and the practice's final columns: one transaction.
WriteAttempt(r) ==
    LET p == request[r].practice IN
    /\ attempts' = [attempts EXCEPT ![p] = Append(@, request[r].essay)]
    /\ practice' = [practice EXCEPT ![p].attempt = Len(attempts[p]) + 1,
                                    ![p].state = "submitted",
                                    ![p].token = None, ![p].age = None]

FinalizeUnchecked(r) ==   \* mutant: the claim is not looked at again
    /\ At(r, "finalize")
    /\ WriteAttempt(r) /\ Answered(r, "submitted")
    /\ UNCHANGED <<latest, faults>>

Finalize(r) ==
    /\ At(r, "finalize")
    /\ IF OwnsClaim(r)
       THEN WriteAttempt(r) /\ Answered(r, "submitted")
       ELSE Answered(r, "error") /\ UNCHANGED <<practice, attempts>>
    /\ UNCHANGED <<latest, faults>>

\* A database error in _finalize rolls back, or arrives after the commit did;
\* either way the call goes on to reset its claim.
FinalizeFails(r) ==
    /\ At(r, "finalize")
    /\ Fault
    /\ \/ UNCHANGED <<practice, attempts>>
       \/ OwnsClaim(r) /\ WriteAttempt(r)
    /\ request' = [request EXCEPT ![r].step = "reset"]
    /\ UNCHANGED <<latest>>

\* The server dies or the call is cancelled: CancelledError is no Exception, so
\* the claim stays.
Crash(r) ==
    /\ request[r].step \notin {"idle", "done"}
    /\ Fault
    /\ request' = [request EXCEPT ![r] = Idle]
    /\ UNCHANGED <<practice, attempts, latest>>

\* Some evaluation is applied to the learner (apply_writing_evaluation).
Advance(l) ==
    /\ latest[l] < MaxUpdates
    /\ latest' = [latest EXCEPT ![l] = @ + 1]
    /\ UNCHANGED <<practice, attempts, request, faults>>

Older(n) == IF n < Lease THEN n + 1 ELSE n

Tick ==
    /\ \A r \in Requests :
         request[r].step \in {"evaluate", "finalize"}
           => request[r].elapsed < AttemptLimit * request[r].try
    /\ practice' = [p \in Practices |->
                      IF practice[p].age = None THEN practice[p]
                      ELSE [practice[p] EXCEPT !.age = Older(@)]]
    /\ request' = [r \in Requests |->
                     IF request[r].step \in {"evaluate", "finalize"}
                     THEN [request[r] EXCEPT !.elapsed = Older(@)] ELSE request[r]]
    /\ UNCHANGED <<attempts, latest, faults>>

Serve(r) == ClaimRefused(r) \/ ClaimGranted(r) \/ EvaluationSucceeds(r)
            \/ ResetClaim(r) \/ Finalize(r)
Break(r) == ClaimFails(r) \/ EvaluationRetries(r) \/ EvaluationFails(r) \/ ResetFails(r)
            \/ FinalizeFails(r) \/ Crash(r)

Next ==
    \/ \E r \in Requests, l \in Learners, p \in Practices, e \in Essays,
          x \in (1..MaxUpdates) \cup {None} : Submit(r, l, p, e, x)
    \/ \E r \in Requests : Serve(r)
    \/ \E r \in Requests : Break(r)
    \/ \E l \in Learners : Advance(l)
    \/ Tick

Spec == Init /\ [][Next]_vars

(***************************************************************************)
(* Servers run their coroutines, the database clock advances, and the      *)
(* owner keeps sending every essay again.  Nothing makes a provider fail.  *)
(***************************************************************************)
FairSpec ==
    /\ Spec
    /\ WF_vars(Tick)
    /\ \A r \in Requests : WF_vars(Serve(r))
    /\ \A r \in Requests, p \in Practices, e \in Essays :
         SF_vars(Submit(r, Owner[p], p, e, None))

-----------------------------------------------------------------------------
(***************************************************************************)
(* Properties                                                              *)
(***************************************************************************)

RowConsistent(p) ==
    LET row == practice[p] IN
    \/ /\ row.state = "generated"
       /\ row.fingerprint = None /\ row.token = None /\ row.age = None
       /\ row.attempt = None /\ attempts[p] = << >>
    \/ /\ row.state = "submission_in_progress"
       /\ row.fingerprint # None /\ row.token # None /\ row.age # None
       /\ row.attempt = None /\ attempts[p] = << >>
    \/ /\ row.state = "submitted"
       /\ row.token = None /\ row.age = None
       /\ row.attempt = 1 /\ attempts[p] = <<row.fingerprint>>

\* The row and the attempts agree, whatever mix of claims, reclaims, failed and
\* lost transactions came before: a submitted practice has exactly one attempt,
\* of the essay it was fingerprinted with, and no claim is left on it; an
\* unsubmitted one has none; and each state has the columns that
\* ck_writing_practice_submission_state_matrix demands.
RowMatchesAttempts == \A p \in Practices : RowConsistent(p)

\* A claim younger than the lease cannot be lost to anybody: while its call
\* evaluates, the row still carries its token and its essay.  Two evaluations of
\* one practice therefore overlap only when the elder has outlived its lease.
LiveClaimKept ==
    \A r \in Requests :
      request[r].step \in {"evaluate", "finalize"} /\ request[r].elapsed < Lease
        => OwnsClaim(r) /\ Row(r).fingerprint = request[r].essay

TakenOver(p) == /\ practice'[p].state = "submission_in_progress"
                /\ practice[p].age = Lease
                /\ practice'[p].fingerprint = practice[p].fingerprint
EndedByHolder(p, state, step) ==
    /\ practice'[p].state = state
    /\ \E r \in Requests : /\ At(r, step) /\ ~At(r, step)'
                           /\ request[r].token = practice[p].token
ClaimEnds(p) ==
    practice[p].state = "submission_in_progress" /\ practice'[p].token # practice[p].token
      => \/ TakenOver(p)
         \/ EndedByHolder(p, "generated", "reset")
         \/ EndedByHolder(p, "submitted", "finalize")

\* How a claim may end.  It passes to another token only for the same essay once
\* the lease has run out, and back to generated only by the call that holds it,
\* after its own evaluation or finalization failed: never by an elder call whose
\* claim was taken over.
ClaimHandover == [][\A p \in Practices : ClaimEnds(p)]_vars

\* The answers of success the clients hold, as the abstract specification has them.
Confirmed == {<<request[r].learner, request[r].practice, request[r].essay>> :
                r \in {q \in Requests : /\ At(q, "done")
                                        /\ request[q].answer \in {"submitted", "reused"}}}

\* Each practice takes one essay, for good, and every client told "submitted" or
\* "reused" is its owner and sent that essay.
OneShot == INSTANCE OneShotSubmission WITH accepted <- attempts, confirmed <- Confirmed
ImplementsOneShot == OneShot!Spec

\* While the attempts the retry allows fit the lease, two calls never pay a provider
\* for one practice at once: a claim is over before it can be taken over.
OneEvaluation ==
    \A r, s \in Requests :
      /\ request[r].step \in {"evaluate", "finalize"}
      /\ request[s].step \in {"evaluate", "finalize"}
      /\ request[r].practice = request[s].practice
      => r = s

\* When faults cease and the owner keeps sending its essays again, every practice
\* is submitted, whatever claims dead calls left behind.
EventuallySubmitted ==
    \A p \in Practices : <>(practice[p].state = "submitted")
=============================================================================

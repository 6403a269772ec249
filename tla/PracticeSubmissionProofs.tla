---------------------- MODULE PracticeSubmissionProofs ----------------------
(***************************************************************************)
(* Proofs about PracticeSubmission for every number of learners,           *)
(* practices, essays, requests and tokens, every lease, and evaluations of *)
(* any length.                                                             *)
(***************************************************************************)
EXTENDS PracticeSubmission, TLAPS

(***************************************************************************)
(* The inductive invariant.  RowMatchesAttempts and LiveClaimKept are not  *)
(* inductive: a call that finalizes must be known to hold the essay its    *)
(* claim was fingerprinted with, a live claim to be as old as its call     *)
(* believes, and no two calls to hold one token.                           *)
(***************************************************************************)
Evaluating(r) == request[r].step \in {"evaluate", "finalize"}
Active(r) == request[r].step \in {"evaluate", "finalize", "reset"}

\* What is true of one call, in relation to its row and to the attempts.
CallConsistent(r) ==
    /\ At(r, "claim") => request[r].elapsed = 0
    /\ Active(r) => /\ request[r].token \in Tokens
                    /\ request[r].learner = Owner[request[r].practice]
    /\ Active(r) /\ OwnsClaim(r) => Row(r).fingerprint = request[r].essay
    /\ Evaluating(r) /\ OwnsClaim(r) => Row(r).age = request[r].elapsed
    /\ Evaluating(r) /\ request[r].elapsed < Lease => OwnsClaim(r)
    /\ At(r, "done") /\ request[r].answer \in {"submitted", "reused"}
         => /\ request[r].learner = Owner[request[r].practice]
            /\ attempts[request[r].practice] = <<request[r].essay>>

TokensDistinct ==
    \A r, s \in Requests :
      r # s /\ Active(r) /\ Active(s) => request[r].token # request[s].token

IInv ==
    /\ TypeOK
    /\ RowMatchesAttempts
    /\ \A r \in Requests : CallConsistent(r)
    /\ TokensDistinct

-----------------------------------------------------------------------------
(***************************************************************************)
(* Types                                                                   *)
(***************************************************************************)

\* A call that is not idle has every field of a call.
LEMMA BusyCall ==
    ASSUME TypeOK, NEW r \in Requests, request[r].step # "idle"
    PROVE  /\ request[r] \in Call
           /\ request[r].practice \in Practices
           /\ practice[request[r].practice] \in PracticeRow
BY DEF TypeOK, Idle, Call

\* Moving a busy call to another step keeps it a call.
LEMMA StepType ==
    ASSUME TypeOK, NEW r \in Requests, request[r].step # "idle", NEW s \in Steps,
           request' = [request EXCEPT ![r].step = s]
    PROVE  request' \in [Requests -> Call \cup {Idle}]
<1>1. request[r] \in Call
  BY BusyCall
<1>2. [request[r] EXCEPT !.step = s] \in Call
  BY <1>1 DEF Call
<1> QED
  BY <1>1, <1>2 DEF TypeOK

\* Answering keeps a busy call a call.
LEMMA AnsweredType ==
    ASSUME TypeOK, NEW r \in Requests, request[r].step # "idle",
           NEW a \in Answers, Answered(r, a)
    PROVE  request' \in [Requests -> Call \cup {Idle}]
<1>1. request[r] \in Call
  BY BusyCall
<1>2. 0 \in 0..Lease /\ 1 \in 1..MaxProviderAttempts /\ "done" \in Steps
  BY BoundAssumption DEF Steps, MaxProviderAttempts
<1>3. [request[r] EXCEPT !.step = "done", !.token = None, !.try = 1, !.elapsed = 0,
                        !.answer = a] \in Call
  BY <1>1, <1>2 DEF Call
<1> QED
  BY <1>1, <1>3 DEF TypeOK, Answered

\* Writing a claim keeps every row a row.
LEMMA WriteClaimType ==
    ASSUME TypeOK, NEW r \in Requests, At(r, "claim"), NEW t \in Tokens, WriteClaim(r, t)
    PROVE  practice' \in [Practices -> PracticeRow]
<1> DEFINE p == request[r].practice
<1>1. p \in Practices /\ practice[p] \in PracticeRow /\ request[r].essay \in Essays
  BY BusyCall DEF At, Call
<1>2. 0 \in 0..Lease /\ "submission_in_progress" \in LifecycleStates
  BY BoundAssumption DEF LifecycleStates
<1>3. [practice[p] EXCEPT !.state = "submission_in_progress", !.fingerprint = request[r].essay,
                          !.token = t, !.age = 0] \in PracticeRow
  BY <1>1, <1>2 DEF PracticeRow
<1> QED
  BY <1>1, <1>3 DEF TypeOK, WriteClaim

\* So does finalizing, and the attempts stay sequences of essays.
LEMMA WriteAttemptType ==
    ASSUME TypeOK, NEW r \in Requests, request[r].step # "idle", WriteAttempt(r)
    PROVE  /\ practice' \in [Practices -> PracticeRow]
           /\ attempts' \in [Practices -> Seq(Essays)]
<1> DEFINE p == request[r].practice
<1>1. p \in Practices /\ practice[p] \in PracticeRow /\ request[r].essay \in Essays
  BY BusyCall DEF Call
<1>2. attempts[p] \in Seq(Essays) /\ Len(attempts[p]) + 1 \in Nat
  BY <1>1 DEF TypeOK
<1>3. "submitted" \in LifecycleStates
  BY DEF LifecycleStates
<1> DEFINE n == Len(attempts[p]) + 1
<1>4. n \in Nat
  BY <1>2
<1> HIDE DEF n
<1>5. [practice[p] EXCEPT !.attempt = n, !.state = "submitted", !.token = None, !.age = None]
        \in PracticeRow
  BY <1>1, <1>3, <1>4 DEF PracticeRow
<1>6. practice' = [practice EXCEPT ![p] = [practice[p] EXCEPT !.attempt = n, !.state = "submitted",
                                                              !.token = None, !.age = None]]
  BY DEF WriteAttempt, n
<1>7. Append(attempts[p], request[r].essay) \in Seq(Essays)
  BY <1>1, <1>2
<1> QED
  BY <1>1, <1>5, <1>6, <1>7 DEF TypeOK, WriteAttempt

LEMMA DecisionType ==
    ASSUME NEW r \in Requests, Decision(r) # "granted"
    PROVE  Decision(r) \in Answers
BY DEF Decision, Answers

\* Releasing a claim keeps every row a row.
LEMMA ResetType ==
    ASSUME TypeOK, NEW r \in Requests, At(r, "reset"), ResetClaim(r)
    PROVE  practice' \in [Practices -> PracticeRow]
<1> DEFINE p == request[r].practice
<1>1. p \in Practices /\ practice[p] \in PracticeRow
  BY BusyCall DEF At
<1>2. "generated" \in LifecycleStates
  BY DEF LifecycleStates
<1>3. [practice[p] EXCEPT !.state = "generated", !.fingerprint = None, !.token = None,
                          !.age = None] \in PracticeRow
  BY <1>1, <1>2 DEF PracticeRow
<1> QED
  BY <1>1, <1>3 DEF TypeOK, ResetClaim

\* Ages stop at the lease.
LEMMA OlderType ==
    ASSUME NEW n \in 0..Lease
    PROVE  Older(n) \in 0..Lease
BY BoundAssumption DEF Older

LEMMA TickType ==
    ASSUME TypeOK, Tick
    PROVE  /\ practice' \in [Practices -> PracticeRow]
           /\ request' \in [Requests -> Call \cup {Idle}]
<1>1. ASSUME NEW p \in Practices, practice[p].age # None
      PROVE  [practice[p] EXCEPT !.age = Older(@)] \in PracticeRow
  <2>1. practice[p] \in PracticeRow
    BY DEF TypeOK
  <2>2. practice[p].age \in 0..Lease
    BY <1>1, <2>1 DEF PracticeRow
  <2>3. Older(practice[p].age) \in 0..Lease
    BY <2>2, OlderType
  <2> QED
    BY <2>1, <2>3 DEF PracticeRow
<1>2. ASSUME NEW r \in Requests, Evaluating(r)
      PROVE  [request[r] EXCEPT !.elapsed = Older(@)] \in Call
  <2>1. request[r] \in Call
    BY <1>2, BusyCall DEF Evaluating
  <2>2. request[r].elapsed \in 0..Lease
    BY <2>1 DEF Call
  <2>3. Older(request[r].elapsed) \in 0..Lease
    BY <2>2, OlderType
  <2> QED
    BY <2>1, <2>3 DEF Call
<1> QED
  BY <1>1, <1>2 DEF TypeOK, Tick, Evaluating

LEMMA SubmitType ==
    ASSUME TypeOK, NEW r \in Requests, NEW l \in Learners, NEW p \in Practices,
           NEW e \in Essays, NEW x \in (1..MaxUpdates) \cup {None}, Submit(r, l, p, e, x)
    PROVE  request' \in [Requests -> Call \cup {Idle}]
<1>1. 0 \in 0..Lease /\ 1 \in 1..MaxProviderAttempts /\ "claim" \in Steps
  BY BoundAssumption DEF Steps, MaxProviderAttempts
<1>2. [step |-> "claim", learner |-> l, practice |-> p, essay |-> e, expect |-> x,
       token |-> None, try |-> 1, elapsed |-> 0, answer |-> None] \in Call
  BY <1>1 DEF Call
<1> QED
  BY <1>2 DEF Submit, TypeOK

\* A granted claim leaves its call evaluating, with a token.
LEMMA GrantedType ==
    ASSUME TypeOK, NEW r \in Requests, At(r, "claim"), NEW t \in Tokens,
           request' = [request EXCEPT ![r].step = "evaluate", ![r].token = t]
    PROVE  request' \in [Requests -> Call \cup {Idle}]
<1>1. request[r] \in Call
  BY BusyCall DEF At
<1>2. "evaluate" \in Steps
  BY DEF Steps
<1>3. [request[r] EXCEPT !.step = "evaluate", !.token = t] \in Call
  BY <1>1, <1>2 DEF Call
<1> QED
  BY <1>1, <1>3 DEF TypeOK

\* The retry policy keeps the attempts within its bound.
LEMMA RetriedType ==
    ASSUME TypeOK, NEW r \in Requests, EvaluationRetries(r)
    PROVE  request' \in [Requests -> Call \cup {Idle}]
<1>1. request[r] \in Call
  BY BusyCall DEF EvaluationRetries, At
<1>2. request[r].try \in 1..MaxProviderAttempts /\ request[r].try < MaxProviderAttempts
  BY <1>1 DEF Call, EvaluationRetries, ShouldRetry
<1>3. request[r].try + 1 \in 1..MaxProviderAttempts
  BY <1>2 DEF MaxProviderAttempts
<1>4. [request[r] EXCEPT !.try = @ + 1] \in Call
  BY <1>1, <1>3 DEF Call
<1> QED
  BY <1>1, <1>4 DEF TypeOK, EvaluationRetries

LEMMA TypeStep ==
    ASSUME TypeOK, [Next]_vars
    PROVE  TypeOK'
<1> USE DEF TypeOK
<1> DEFINE ReqOK == request' \in [Requests -> Call \cup {Idle}]
<1>steps. {"idle", "claim", "evaluate", "finalize", "reset", "done"} = Steps
  BY DEF Steps
<1>error. {"error", "submitted"} \subseteq Answers
  BY DEF Answers
<1>fault. Fault => faults' \in 0..MaxFaults
  BY BoundAssumption DEF Fault
<1>1. ASSUME NEW r \in Requests, NEW l \in Learners, NEW p \in Practices, NEW e \in Essays,
             NEW x \in (1..MaxUpdates) \cup {None}, Submit(r, l, p, e, x)
      PROVE  TypeOK'
  BY <1>1, SubmitType DEF Submit
<1>2. ASSUME NEW r \in Requests, ClaimRefused(r)
      PROVE  TypeOK'
  BY <1>2, DecisionType, AnsweredType DEF ClaimRefused, At
<1>3. ASSUME NEW r \in Requests, ClaimGranted(r)
      PROVE  TypeOK'
  <2>1. PICK t \in Tokens : /\ WriteClaim(r, t)
                            /\ request' = [request EXCEPT ![r].step = "evaluate", ![r].token = t]
    BY <1>3 DEF ClaimGranted, FreshTokens
  <2> QED
    BY <1>3, <2>1, WriteClaimType, GrantedType DEF ClaimGranted
<1>4. ASSUME NEW r \in Requests, ClaimFails(r)
      PROVE  TypeOK'
  <2>1. practice' \in [Practices -> PracticeRow]
    BY <1>4, WriteClaimType DEF ClaimFails, FreshTokens
  <2>2. ReqOK
    BY <1>4, <1>error, AnsweredType DEF ClaimFails, At
  <2> QED
    BY <1>4, <2>1, <2>2, <1>fault DEF ClaimFails
<1>5. ASSUME NEW r \in Requests, EvaluationSucceeds(r)
      PROVE  TypeOK'
  BY <1>5, <1>steps, StepType DEF EvaluationSucceeds, At
<1>6. ASSUME NEW r \in Requests, EvaluationFails(r)
      PROVE  TypeOK'
  <2>1. ReqOK
    BY <1>6, <1>steps, StepType DEF EvaluationFails, At
  <2> QED
    BY <1>6, <2>1, <1>fault DEF EvaluationFails
<1>6r. ASSUME NEW r \in Requests, EvaluationRetries(r)
       PROVE  TypeOK'
  BY <1>6r, RetriedType DEF EvaluationRetries
<1>7. ASSUME NEW r \in Requests, ResetClaim(r)
      PROVE  TypeOK'
  <2>1. ReqOK
    BY <1>7, <1>error, AnsweredType DEF ResetClaim, At
  <2>2. practice' \in [Practices -> PracticeRow]
    BY <1>7, ResetType DEF ResetClaim
  <2> QED
    BY <1>7, <2>1, <2>2 DEF ResetClaim
<1>8. ASSUME NEW r \in Requests, ResetFails(r)
      PROVE  TypeOK'
  <2>1. ReqOK
    BY <1>8, <1>error, AnsweredType DEF ResetFails, At
  <2> QED
    BY <1>8, <2>1, <1>fault DEF ResetFails
<1>9. ASSUME NEW r \in Requests, Finalize(r)
      PROVE  TypeOK'
  <2>1. ReqOK
    BY <1>9, <1>error, AnsweredType DEF Finalize, At
  <2>2. practice' \in [Practices -> PracticeRow] /\ attempts' \in [Practices -> Seq(Essays)]
    BY <1>9, WriteAttemptType DEF Finalize, At
  <2> QED
    BY <1>9, <2>1, <2>2 DEF Finalize
<1>10. ASSUME NEW r \in Requests, FinalizeFails(r)
       PROVE  TypeOK'
  <2>1. ReqOK
    BY <1>10, <1>steps, StepType DEF FinalizeFails, At
  <2>2. practice' \in [Practices -> PracticeRow] /\ attempts' \in [Practices -> Seq(Essays)]
    BY <1>10, WriteAttemptType DEF FinalizeFails, At
  <2> QED
    BY <1>10, <2>1, <2>2, <1>fault DEF FinalizeFails
<1>11. ASSUME NEW r \in Requests, Crash(r)
       PROVE  TypeOK'
  BY <1>11, <1>fault DEF Crash
<1>12. ASSUME NEW l \in Learners, Advance(l)
       PROVE  TypeOK'
  BY <1>12, BoundAssumption DEF Advance
<1>13. CASE Tick
  BY <1>13, TickType DEF Tick
<1>14. CASE UNCHANGED vars
  BY <1>14 DEF vars
<1> QED
  BY <1>1, <1>2, <1>3, <1>4, <1>5, <1>6, <1>6r, <1>7, <1>8, <1>9, <1>10, <1>11, <1>12,
     <1>13, <1>14
  DEF Next, Serve, Break

-----------------------------------------------------------------------------
(***************************************************************************)
(* Each kind of step keeps the rest of the invariant                       *)
(***************************************************************************)

\* What a step that changes one call r and no row must show.
LEMMA OneCallStep ==
    ASSUME IInv, TypeOK', NEW r \in Requests,
           request' = [request EXCEPT ![r] = request'[r]],
           UNCHANGED <<practice, attempts>>,
           CallConsistent(r)',
           Active(r)' => Active(r) /\ request'[r].token = request[r].token
    PROVE  IInv'
<1>1. RowMatchesAttempts'
  BY DEF IInv, RowMatchesAttempts, RowConsistent
<1>2. ASSUME NEW s \in Requests
      PROVE  CallConsistent(s)'
  <2>1. CASE s = r
    BY <2>1
  <2>2. CASE s # r
    <3>1. request'[s] = request[s]
      BY <2>2 DEF IInv, TypeOK
    <3>2. CallConsistent(s)
      BY DEF IInv
    <3> QED
      BY <3>1, <3>2 DEF CallConsistent, At, Active, Evaluating, OwnsClaim, Row
  <2> QED
    BY <2>1, <2>2
<1>3. TokensDistinct'
  <2>1. ASSUME NEW s \in Requests, NEW q \in Requests, s # q, Active(s)', Active(q)'
        PROVE  request'[s].token # request'[q].token
    <3>1. Active(s) /\ request'[s].token = request[s].token
      BY <2>1 DEF IInv, TypeOK, Active
    <3>2. Active(q) /\ request'[q].token = request[q].token
      BY <2>1 DEF IInv, TypeOK, Active
    <3> QED
      BY <2>1, <3>1, <3>2 DEF IInv, TokensDistinct
  <2> QED
    BY <2>1 DEF TokensDistinct
<1> QED
  BY <1>1, <1>2, <1>3 DEF IInv

\* The essays and owners of the calls stay what they were.
LEMMA AnsweredKeeps ==
    ASSUME TypeOK, NEW r \in Requests, request[r].step # "idle", NEW a \in Answers,
           Answered(r, a)
    PROVE  /\ request' = [request EXCEPT ![r] = request'[r]]
           /\ At(r, "done")' /\ request'[r].answer = a
           /\ request'[r].learner = request[r].learner
           /\ request'[r].practice = request[r].practice
           /\ request'[r].essay = request[r].essay
<1>1. request[r] \in Call
  BY BusyCall
<1> QED
  BY <1>1 DEF Answered, At, TypeOK, Call

LEMMA SubmitKeeps ==
    ASSUME IInv, TypeOK', NEW r \in Requests, NEW l \in Learners, NEW p \in Practices,
           NEW e \in Essays, NEW x \in (1..MaxUpdates) \cup {None}, Submit(r, l, p, e, x)
    PROVE  IInv'
<1>1. At(r, "claim")' /\ request'[r].elapsed = 0
  BY DEF IInv, TypeOK, Submit, At
<1>2. CallConsistent(r)'
  BY <1>1 DEF CallConsistent, At, Active, Evaluating
<1> QED
  BY <1>1, <1>2, OneCallStep DEF Submit, At, Active, IInv, TypeOK

\* "reused" is only said of the practice's own learner and essay.
LEMMA ClaimRefusedKeeps ==
    ASSUME IInv, TypeOK', NEW r \in Requests, ClaimRefused(r)
    PROVE  IInv'
<1> DEFINE a == Decision(r)
<1>1. a \in Answers /\ a # "submitted"
  BY DecisionType DEF ClaimRefused, Decision
<1>2. /\ request' = [request EXCEPT ![r] = request'[r]]
      /\ At(r, "done")' /\ request'[r].answer = a
      /\ request'[r].learner = request[r].learner
      /\ request'[r].practice = request[r].practice
      /\ request'[r].essay = request[r].essay
  BY <1>1, AnsweredKeeps DEF ClaimRefused, At, IInv
<1>3. ASSUME a = "reused"
      PROVE  /\ request[r].learner = Owner[request[r].practice]
             /\ Row(r).state = "submitted" /\ Row(r).fingerprint = request[r].essay
  BY <1>3 DEF Decision, EssayMatches
<1>4. request[r].practice \in Practices
  BY BusyCall DEF ClaimRefused, At, IInv
<1>5. a = "reused" => attempts[request[r].practice] = <<request[r].essay>>
  BY <1>3, <1>4 DEF IInv, RowMatchesAttempts, RowConsistent, Row
<1>6. CallConsistent(r)'
  <2> HIDE DEF a
  <2> QED
    BY <1>1, <1>2, <1>3, <1>5 DEF CallConsistent, At, Active, Evaluating, ClaimRefused
<1> QED
  BY <1>2, <1>6, OneCallStep DEF ClaimRefused, At, Active

\* A call that ends in error says nothing of success.
LEMMA ErrorKeeps ==
    ASSUME IInv, TypeOK', NEW r \in Requests, request[r].step # "idle", Answered(r, "error"),
           UNCHANGED <<practice, attempts>>
    PROVE  IInv'
<1>1. "error" \in Answers
  BY DEF Answers
<1>2. /\ request' = [request EXCEPT ![r] = request'[r]]
      /\ At(r, "done")' /\ request'[r].answer = "error"
  BY <1>1, AnsweredKeeps DEF IInv
<1>3. CallConsistent(r)'
  BY <1>2 DEF CallConsistent, At, Active, Evaluating
<1> QED
  BY <1>2, <1>3, OneCallStep DEF Active, At

\* An evaluation that ends, or a finalization rolled back, moves its call on.
LEMMA MoveKeeps ==
    ASSUME IInv, TypeOK', NEW r \in Requests, Evaluating(r), NEW s \in {"finalize", "reset"},
           request' = [request EXCEPT ![r].step = s], UNCHANGED <<practice, attempts>>
    PROVE  IInv'
<1>1. request[r] \in Call /\ CallConsistent(r)
  BY BusyCall DEF IInv, Evaluating
<1>2. /\ request' = [request EXCEPT ![r] = request'[r]]
      /\ request'[r] = [request[r] EXCEPT !.step = s]
  BY DEF IInv, TypeOK
<1>3. CallConsistent(r)'
  BY <1>1, <1>2 DEF CallConsistent, At, Active, Evaluating, OwnsClaim, Row, Call
<1>4. Active(r) /\ request'[r].token = request[r].token
  BY <1>1, <1>2 DEF Active, Evaluating, Call
<1> QED
  BY <1>2, <1>3, <1>4, OneCallStep

LEMMA CrashKeeps ==
    ASSUME IInv, TypeOK', NEW r \in Requests, Crash(r)
    PROVE  IInv'
<1>1. request' = [request EXCEPT ![r] = request'[r]] /\ request'[r].step = "idle"
  BY DEF IInv, TypeOK, Crash, Idle
<1>2. CallConsistent(r)'
  BY <1>1 DEF CallConsistent, At, Active, Evaluating
<1> QED
  BY <1>1, <1>2, OneCallStep DEF Crash, Active

LEMMA EmptyIsNotOne ==
    ASSUME NEW e
    PROVE  << >> # <<e>>
<1>1. Len(<< >>) = 0 /\ Len(<<e>>) = 1
  OBVIOUS
<1> QED
  BY <1>1

\* What a step must show that also writes the row of one practice p which has no
\* attempt yet: the other calls on p lose nothing they could still count on.
LEMMA RowStep ==
    ASSUME IInv, TypeOK', NEW r \in Requests, NEW p \in Practices,
           request' = [request EXCEPT ![r] = request'[r]],
           practice' = [practice EXCEPT ![p] = practice'[p]],
           attempts' = [attempts EXCEPT ![p] = attempts'[p]],
           attempts[p] = << >>,
           RowConsistent(p)', CallConsistent(r)',
           \A s \in Requests \ {r} : Active(s) /\ request[s].practice = p
             => ~OwnsClaim(s)' /\ (Evaluating(s) => ~(request[s].elapsed < Lease)),
           Active(r)' => \A s \in Requests \ {r} :
             Active(s) => request[s].token # request'[r].token
    PROVE  IInv'
<1>1. ASSUME NEW q \in Practices
      PROVE  RowConsistent(q)'
  <2>1. CASE q # p
    <3>1. practice'[q] = practice[q] /\ attempts'[q] = attempts[q]
      BY <2>1 DEF IInv, TypeOK
    <3>2. RowConsistent(q)
      BY DEF IInv, RowMatchesAttempts
    <3> QED
      BY <3>1, <3>2 DEF RowConsistent
  <2> QED
    BY <2>1
<1>2. ASSUME NEW s \in Requests, s # r
      PROVE  request'[s] = request[s] /\ CallConsistent(s)
  BY <1>2 DEF IInv, TypeOK
<1>3. ASSUME NEW s \in Requests, s # r, request[s].step # "idle", request[s].practice = p
      PROVE  CallConsistent(s)'
  <2>1. attempts[p] # <<request[s].essay>>
    BY EmptyIsNotOne
  <2>2. ~(At(s, "done") /\ request[s].answer \in {"submitted", "reused"})
    BY <1>2, <1>3, <2>1 DEF CallConsistent
  <2>3. Active(s) => ~OwnsClaim(s)' /\ (Evaluating(s) => ~(request[s].elapsed < Lease))
    BY <1>3
  <2> QED
    BY <1>2, <1>3, <2>2, <2>3 DEF CallConsistent, At, Active, Evaluating, OwnsClaim, Row
<1>4. ASSUME NEW s \in Requests, s # r, request[s].step # "idle", request[s].practice # p
      PROVE  CallConsistent(s)'
  <2>1. request[s].practice \in Practices
    BY <1>4, BusyCall DEF IInv
  <2>2. /\ practice'[request[s].practice] = practice[request[s].practice]
        /\ attempts'[request[s].practice] = attempts[request[s].practice]
    BY <1>4, <2>1 DEF IInv, TypeOK
  <2>3. request'[s] = request[s] /\ CallConsistent(s)
    BY <1>2, <1>4
  <2>4. Row(s)' = Row(s)
    BY <2>2, <2>3 DEF Row
  <2> QED
    BY <2>2, <2>3, <2>4 DEF CallConsistent, At, Active, Evaluating, OwnsClaim
<1>5. ASSUME NEW s \in Requests, s # r, request[s].step = "idle"
      PROVE  CallConsistent(s)'
  BY <1>2, <1>5 DEF CallConsistent, At, Active, Evaluating
<1>6. TokensDistinct'
  <2>1. ASSUME NEW s \in Requests, NEW q \in Requests, s # q, s # r, Active(s)', Active(q)'
        PROVE  request'[s].token # request'[q].token
    <3>1. request'[s] = request[s] /\ Active(s)
      BY <1>2, <2>1 DEF Active
    <3>2. CASE q = r
      BY <2>1, <3>1, <3>2
    <3>3. CASE q # r
      BY <1>2, <2>1, <3>1, <3>3 DEF IInv, TokensDistinct, Active
    <3> QED
      BY <3>2, <3>3
  <2> QED
    BY <2>1 DEF TokensDistinct
<1> QED
  BY <1>1, <1>3, <1>4, <1>5, <1>6 DEF IInv, RowMatchesAttempts

\* Of the calls on a practice, those whose claim the row does not carry have
\* outlived their lease, and of two active calls only one can own the claim.
LEMMA OneOwner ==
    ASSUME IInv, NEW r \in Requests, NEW s \in Requests, r # s, Active(r), Active(s),
           OwnsClaim(r), request[s].practice = request[r].practice
    PROVE  /\ ~OwnsClaim(s)
           /\ Evaluating(s) => ~(request[s].elapsed < Lease)
<1>1. request[r].token # request[s].token
  BY DEF IInv, TokensDistinct
<1>2. CallConsistent(s)
  BY DEF IInv
<1> QED
  BY <1>1, <1>2 DEF CallConsistent, OwnsClaim, Row

\* A claim is granted on a row nobody's live claim is on.
LEMMA GrantTaken ==
    ASSUME IInv, NEW r \in Requests, At(r, "claim"), Decision(r) = "granted"
    PROVE  /\ request[r].learner = Owner[request[r].practice]
           /\ attempts[request[r].practice] = << >>
           /\ \A s \in Requests :
                Evaluating(s) /\ request[s].practice = request[r].practice
                  => ~(request[s].elapsed < Lease)
<1> DEFINE p == request[r].practice
<1>1. p \in Practices /\ practice[p] \in PracticeRow /\ RowConsistent(p)
  BY BusyCall DEF IInv, At, RowMatchesAttempts
<1>2. /\ request[r].learner = Owner[p]
      /\ \/ practice[p].state = "generated"
         \/ practice[p].state # "submitted" /\ practice[p].age >= Lease
  BY DEF Decision, Row, LeaseExpired
<1>3. attempts[p] = << >>
  BY <1>1, <1>2 DEF RowConsistent
<1>4. ASSUME NEW s \in Requests, Evaluating(s), request[s].practice = p,
             request[s].elapsed < Lease
      PROVE  FALSE
  <2>1. CallConsistent(s) /\ request[s] \in Call
    BY <1>4, BusyCall DEF IInv, Evaluating
  <2>2. practice[p].state = "submission_in_progress" /\ practice[p].age = request[s].elapsed
    BY <1>4, <2>1 DEF CallConsistent, OwnsClaim, Row
  <2>3. request[s].elapsed \in 0..Lease
    BY <2>1 DEF Call
  <2> QED
    BY <1>2, <1>4, <2>2, <2>3, BoundAssumption
<1> QED
  BY <1>2, <1>3, <1>4

\* A new token is nobody else's.
LEMMA FreshToken ==
    ASSUME TypeOK, NEW t \in FreshTokens
    PROVE  /\ t \in Tokens
           /\ \A s \in Requests : Active(s) => request[s].token # t
BY DEF FreshTokens, Active, At

\* The row a claim writes, and what it means for the other calls.
LEMMA WriteClaimKeeps ==
    ASSUME IInv, NEW r \in Requests, At(r, "claim"), Decision(r) = "granted",
           NEW t \in FreshTokens, WriteClaim(r, t), UNCHANGED attempts,
           request' = [request EXCEPT ![r] = request'[r]],
           NEW p \in Practices, request[r].practice = p
    PROVE  /\ practice' = [practice EXCEPT ![p] = practice'[p]]
           /\ practice'[p].state = "submission_in_progress"
           /\ practice'[p].fingerprint = request[r].essay
           /\ practice'[p].token = t
           /\ practice'[p].age = 0
           /\ RowConsistent(p)'
           /\ \A s \in Requests \ {r} : Active(s) /\ request[s].practice = p
                => ~OwnsClaim(s)' /\ (Evaluating(s) => ~(request[s].elapsed < Lease))
<1>1. request[r] \in Call /\ practice[p] \in PracticeRow /\ RowConsistent(p)
  BY BusyCall DEF IInv, At, RowMatchesAttempts
<1>2. practice' = [practice EXCEPT ![p] = practice'[p]]
  BY <1>1 DEF WriteClaim, IInv, TypeOK
<1>3. /\ practice'[p].state = "submission_in_progress"
      /\ practice'[p].fingerprint = request[r].essay
      /\ practice'[p].token = t
      /\ practice'[p].age = 0
      /\ practice'[p].attempt = practice[p].attempt
  BY <1>1 DEF WriteClaim, IInv, TypeOK, PracticeRow
<1>4. t \in Tokens /\ \A s \in Requests : Active(s) => request[s].token # t
  BY FreshToken DEF IInv
<1>5. attempts[p] = << >> /\ practice[p].attempt = None
  BY <1>1, GrantTaken, EmptyIsNotOne DEF RowConsistent
<1>6. None # request[r].essay /\ None # t /\ None # 0
  BY <1>1, <1>4, NullAssumption DEF Call
<1>7. RowConsistent(p)'
  BY <1>3, <1>5, <1>6 DEF RowConsistent
<1>8. ASSUME NEW s \in Requests \ {r}, Active(s), request[s].practice = p
      PROVE  ~OwnsClaim(s)' /\ (Evaluating(s) => ~(request[s].elapsed < Lease))
  <2>1. request'[s] = request[s]
    BY DEF IInv, TypeOK
  <2>2. request[s].token # t
    BY <1>4, <1>8
  <2>3. Evaluating(s) => ~(request[s].elapsed < Lease)
    BY <1>8, GrantTaken
  <2>4. ~OwnsClaim(s)'
    BY <1>3, <1>8, <2>1, <2>2 DEF OwnsClaim, Row
  <2> QED
    BY <2>3, <2>4
<1> QED
  BY <1>1, <1>2, <1>3, <1>7, <1>8

LEMMA ClaimGrantedKeeps ==
    ASSUME IInv, TypeOK', NEW r \in Requests, ClaimGranted(r)
    PROVE  IInv'
<1>p. PICK p \in Practices : request[r].practice = p
  BY BusyCall DEF ClaimGranted, At, IInv
<1>1. PICK t \in FreshTokens :
        /\ WriteClaim(r, t)
        /\ request' = [request EXCEPT ![r].step = "evaluate", ![r].token = t]
  BY DEF ClaimGranted
<1>2. At(r, "claim") /\ Decision(r) = "granted" /\ UNCHANGED attempts
  BY DEF ClaimGranted
<1>3. request[r] \in Call /\ CallConsistent(r)
  BY <1>2, BusyCall DEF At, IInv
<1>w. WriteClaim(r, t)
  BY <1>1
<1>r. request' = [request EXCEPT ![r] = request'[r]]
  BY <1>1 DEF IInv, TypeOK
<1>4. request'[r] = [request[r] EXCEPT !.step = "evaluate", !.token = t]
  BY <1>1 DEF IInv, TypeOK
<1>5. /\ request'[r].step = "evaluate" /\ request'[r].token = t
      /\ request'[r].learner = request[r].learner /\ request'[r].practice = p
      /\ request'[r].essay = request[r].essay /\ request'[r].elapsed = request[r].elapsed
  BY <1>3, <1>4, <1>p DEF Call
<1>6. /\ practice' = [practice EXCEPT ![p] = practice'[p]]
      /\ practice'[p].state = "submission_in_progress"
      /\ practice'[p].fingerprint = request[r].essay
      /\ practice'[p].token = t
      /\ practice'[p].age = 0
      /\ RowConsistent(p)'
      /\ \A s \in Requests \ {r} : Active(s) /\ request[s].practice = p
           => ~OwnsClaim(s)' /\ (Evaluating(s) => ~(request[s].elapsed < Lease))
  BY <1>w, <1>2, <1>r, <1>p, WriteClaimKeeps
<1>7. request[r].learner = Owner[p] /\ attempts[p] = << >>
  BY <1>2, <1>p, GrantTaken
<1>8. t \in Tokens /\ \A s \in Requests : Active(s) => request[s].token # t
  BY FreshToken DEF IInv
<1>9. request[r].elapsed = 0
  BY <1>2, <1>3 DEF CallConsistent
<1>10. CallConsistent(r)'
  BY <1>5, <1>6, <1>7, <1>8, <1>9 DEF CallConsistent, At, Active, Evaluating, OwnsClaim, Row
<1>11. attempts' = [attempts EXCEPT ![p] = attempts'[p]]
  BY <1>2, <1>6 DEF IInv, TypeOK
<1> QED
  BY <1>r, <1>5, <1>6, <1>7, <1>8, <1>10, <1>11, RowStep

\* The claim nobody knows the token of belongs to no call.
LEMMA ClaimFailsKeeps ==
    ASSUME IInv, TypeOK', NEW r \in Requests, ClaimFails(r)
    PROVE  IInv'
<1>p. PICK p \in Practices : request[r].practice = p
  BY BusyCall DEF ClaimFails, At, IInv
<1>1. At(r, "claim") /\ Answered(r, "error") /\ UNCHANGED attempts /\ request[r].step # "idle"
  BY DEF ClaimFails, At
<1>2. CASE UNCHANGED practice
  BY <1>1, <1>2, ErrorKeeps
<1>3. CASE Decision(r) = "granted" /\ \E t \in FreshTokens : WriteClaim(r, t)
  <2>1. PICK t \in FreshTokens : WriteClaim(r, t)
    BY <1>3
  <2>2. "error" \in Answers
    BY DEF Answers
  <2>3. /\ request' = [request EXCEPT ![r] = request'[r]]
        /\ At(r, "done")' /\ request'[r].answer = "error"
    BY <1>1, <2>2, AnsweredKeeps DEF IInv
  <2>4. /\ practice' = [practice EXCEPT ![p] = practice'[p]]
        /\ RowConsistent(p)'
        /\ \A s \in Requests \ {r} : Active(s) /\ request[s].practice = p
             => ~OwnsClaim(s)' /\ (Evaluating(s) => ~(request[s].elapsed < Lease))
    BY <1>1, <1>3, <2>1, <2>3, <1>p, WriteClaimKeeps
  <2>5. attempts[p] = << >>
    BY <1>1, <1>3, <1>p, GrantTaken
  <2>6. CallConsistent(r)' /\ ~Active(r)'
    BY <2>3 DEF CallConsistent, At, Active, Evaluating
  <2>7. attempts' = [attempts EXCEPT ![p] = attempts'[p]]
    BY <1>1, <2>4 DEF IInv, TypeOK
  <2> QED
    BY <2>3, <2>4, <2>5, <2>6, <2>7, RowStep
<1> QED
  BY <1>2, <1>3 DEF ClaimFails

\* A call that owns the claim of p may write p's row to a state without claims.
LEMMA OwnerEndsClaim ==
    ASSUME IInv, NEW r \in Requests, Active(r), OwnsClaim(r),
           NEW p \in Practices, request[r].practice = p,
           request' = [request EXCEPT ![r] = request'[r]],
           practice'[p].state # "submission_in_progress"
    PROVE  /\ attempts[p] = << >> /\ practice[p].attempt = None
           /\ practice[p].fingerprint = request[r].essay
           /\ request[r].learner = Owner[p]
           /\ \A s \in Requests \ {r} : Active(s) /\ request[s].practice = p
                => ~OwnsClaim(s)' /\ (Evaluating(s) => ~(request[s].elapsed < Lease))
<1>1. RowConsistent(p) /\ CallConsistent(r)
  BY DEF IInv, RowMatchesAttempts
<1>2. attempts[p] = << >> /\ practice[p].attempt = None
  BY <1>1 DEF OwnsClaim, Row, RowConsistent
<1>3. practice[p].fingerprint = request[r].essay /\ request[r].learner = Owner[p]
  BY <1>1 DEF CallConsistent, Row
<1>4. ASSUME NEW s \in Requests \ {r}, Active(s), request[s].practice = p
      PROVE  ~OwnsClaim(s)' /\ (Evaluating(s) => ~(request[s].elapsed < Lease))
  <2>1. request'[s] = request[s]
    BY DEF IInv, TypeOK
  <2>2. ~OwnsClaim(s)'
    BY <1>4, <2>1 DEF OwnsClaim, Row
  <2>3. Evaluating(s) => ~(request[s].elapsed < Lease)
    BY <1>4, OneOwner
  <2> QED
    BY <2>2, <2>3
<1> QED
  BY <1>2, <1>3, <1>4

LEMMA ResetClaimKeeps ==
    ASSUME IInv, TypeOK', NEW r \in Requests, ResetClaim(r)
    PROVE  IInv'
<1>1. /\ At(r, "reset") /\ Active(r) /\ request[r].step # "idle"
      /\ Answered(r, "error") /\ UNCHANGED attempts
  BY DEF ResetClaim, At, Active
<1>p. PICK p \in Practices : request[r].practice = p /\ practice[p] \in PracticeRow
  BY <1>1, BusyCall DEF IInv
<1>2. CASE ~OwnsClaim(r)
  BY <1>1, <1>2, ErrorKeeps DEF ResetClaim
<1>3. CASE OwnsClaim(r)
  <2>1. "error" \in Answers
    BY DEF Answers
  <2>2. /\ request' = [request EXCEPT ![r] = request'[r]]
        /\ At(r, "done")' /\ request'[r].answer = "error"
    BY <1>1, <2>1, AnsweredKeeps DEF IInv
  <2>3. /\ practice'[p].state = "generated" /\ practice'[p].fingerprint = None
        /\ practice'[p].token = None /\ practice'[p].age = None
        /\ practice'[p].attempt = practice[p].attempt
        /\ practice' = [practice EXCEPT ![p] = practice'[p]]
    BY <1>3, <1>p DEF ResetClaim, IInv, TypeOK, PracticeRow
  <2>4. /\ attempts[p] = << >> /\ practice[p].attempt = None
        /\ \A s \in Requests \ {r} : Active(s) /\ request[s].practice = p
             => ~OwnsClaim(s)' /\ (Evaluating(s) => ~(request[s].elapsed < Lease))
    BY <1>1, <1>3, <1>p, <2>2, <2>3, OwnerEndsClaim
  <2>5. RowConsistent(p)'
    BY <1>1, <2>3, <2>4 DEF RowConsistent
  <2>6. CallConsistent(r)' /\ ~Active(r)'
    BY <2>2 DEF CallConsistent, At, Active, Evaluating
  <2>7. attempts' = [attempts EXCEPT ![p] = attempts'[p]]
    BY <1>1 DEF IInv, TypeOK
  <2> QED
    BY <2>2, <2>3, <2>4, <2>5, <2>6, <2>7, RowStep
<1> QED
  BY <1>2, <1>3

\* The row and the attempts that finalization writes.
LEMMA WriteAttemptKeeps ==
    ASSUME IInv, NEW r \in Requests, At(r, "finalize"), OwnsClaim(r), WriteAttempt(r),
           NEW p \in Practices, request[r].practice = p,
           request' = [request EXCEPT ![r] = request'[r]]
    PROVE  /\ practice' = [practice EXCEPT ![p] = practice'[p]]
           /\ attempts' = [attempts EXCEPT ![p] = attempts'[p]]
           /\ practice'[p].state = "submitted" /\ RowConsistent(p)'
           /\ attempts[p] = << >> /\ attempts'[p] = <<request[r].essay>>
           /\ request[r].learner = Owner[p]
           /\ \A s \in Requests \ {r} : Active(s) /\ request[s].practice = p
                => ~OwnsClaim(s)' /\ (Evaluating(s) => ~(request[s].elapsed < Lease))
<1>1. Active(r) /\ practice[p] \in PracticeRow /\ request[r].essay \in Essays
  BY BusyCall DEF At, Active, IInv, Call
<1>2. /\ practice'[p].state = "submitted" /\ practice'[p].token = None
      /\ practice'[p].age = None /\ practice'[p].attempt = Len(attempts[p]) + 1
      /\ practice'[p].fingerprint = practice[p].fingerprint
      /\ practice' = [practice EXCEPT ![p] = practice'[p]]
  BY <1>1 DEF WriteAttempt, IInv, TypeOK, PracticeRow
<1>3. /\ attempts'[p] = Append(attempts[p], request[r].essay)
      /\ attempts' = [attempts EXCEPT ![p] = attempts'[p]]
  BY DEF WriteAttempt, IInv, TypeOK
<1>4. /\ attempts[p] = << >>
      /\ practice[p].fingerprint = request[r].essay
      /\ request[r].learner = Owner[p]
      /\ \A s \in Requests \ {r} : Active(s) /\ request[s].practice = p
           => ~OwnsClaim(s)' /\ (Evaluating(s) => ~(request[s].elapsed < Lease))
  BY <1>1, <1>2, OwnerEndsClaim
<1>5. attempts'[p] = <<request[r].essay>> /\ practice'[p].attempt = 1
  BY <1>1, <1>2, <1>3, <1>4
<1>6. RowConsistent(p)'
  BY <1>2, <1>4, <1>5 DEF RowConsistent
<1> QED
  BY <1>2, <1>3, <1>4, <1>5, <1>6

LEMMA FinalizeKeeps ==
    ASSUME IInv, TypeOK', NEW r \in Requests, Finalize(r)
    PROVE  IInv'
<1>1. At(r, "finalize") /\ request[r].step # "idle"
  BY DEF Finalize, At
<1>p. PICK p \in Practices : request[r].practice = p
  BY <1>1, BusyCall DEF IInv
<1>2. CASE ~OwnsClaim(r)
  BY <1>1, <1>2, ErrorKeeps DEF Finalize
<1>3. CASE OwnsClaim(r)
  <2>1. "submitted" \in Answers
    BY DEF Answers
  <2>2. WriteAttempt(r) /\ Answered(r, "submitted")
    BY <1>3 DEF Finalize
  <2>3. /\ request' = [request EXCEPT ![r] = request'[r]]
        /\ At(r, "done")' /\ request'[r].answer = "submitted"
        /\ request'[r].learner = request[r].learner
        /\ request'[r].practice = p
        /\ request'[r].essay = request[r].essay
    BY <1>1, <1>p, <2>1, <2>2, AnsweredKeeps DEF IInv
  <2>4. /\ practice' = [practice EXCEPT ![p] = practice'[p]]
        /\ attempts' = [attempts EXCEPT ![p] = attempts'[p]]
        /\ RowConsistent(p)'
        /\ attempts[p] = << >> /\ attempts'[p] = <<request[r].essay>>
        /\ request[r].learner = Owner[p]
        /\ \A s \in Requests \ {r} : Active(s) /\ request[s].practice = p
             => ~OwnsClaim(s)' /\ (Evaluating(s) => ~(request[s].elapsed < Lease))
    BY <1>1, <1>3, <1>p, <2>2, <2>3, WriteAttemptKeeps
  <2>5. CallConsistent(r)' /\ ~Active(r)'
    BY <2>3, <2>4 DEF CallConsistent, At, Active, Evaluating
  <2> QED
    BY <2>3, <2>4, <2>5, RowStep
<1> QED
  BY <1>2, <1>3

LEMMA FinalizeFailsKeeps ==
    ASSUME IInv, TypeOK', NEW r \in Requests, FinalizeFails(r)
    PROVE  IInv'
<1>1. At(r, "finalize") /\ Evaluating(r) /\ request' = [request EXCEPT ![r].step = "reset"]
  BY DEF FinalizeFails, At, Evaluating
<1>p. PICK p \in Practices : request[r].practice = p /\ request[r] \in Call
  BY <1>1, BusyCall DEF IInv, Evaluating
<1>2. CASE UNCHANGED <<practice, attempts>>
  BY <1>1, <1>2, MoveKeeps
<1>3. CASE OwnsClaim(r) /\ WriteAttempt(r)
  <2>1. /\ request' = [request EXCEPT ![r] = request'[r]]
        /\ request'[r] = [request[r] EXCEPT !.step = "reset"]
    BY <1>1 DEF IInv, TypeOK
  <2>2. /\ request'[r].step = "reset" /\ request'[r].token = request[r].token
        /\ request'[r].practice = p /\ request'[r].learner = request[r].learner
    BY <1>p, <2>1 DEF Call
  <2>3. /\ practice' = [practice EXCEPT ![p] = practice'[p]]
        /\ attempts' = [attempts EXCEPT ![p] = attempts'[p]]
        /\ practice'[p].state = "submitted" /\ RowConsistent(p)'
        /\ attempts[p] = << >> /\ request[r].learner = Owner[p]
        /\ \A s \in Requests \ {r} : Active(s) /\ request[s].practice = p
             => ~OwnsClaim(s)' /\ (Evaluating(s) => ~(request[s].elapsed < Lease))
    BY <1>1, <1>3, <1>p, <2>1, WriteAttemptKeeps
  <2>4. Active(r) /\ CallConsistent(r)
    BY <1>1 DEF IInv, At, Active
  <2>5. CallConsistent(r)'
    BY <2>2, <2>3, <2>4 DEF CallConsistent, At, Active, Evaluating, OwnsClaim, Row
  <2>6. \A s \in Requests \ {r} : Active(s) => request[s].token # request'[r].token
    BY <2>2, <2>4 DEF IInv, TokensDistinct
  <2> QED
    BY <2>1, <2>3, <2>5, <2>6, RowStep
<1> QED
  BY <1>2, <1>3 DEF FinalizeFails

\* A retry happens inside the claim.
LEMMA RetryKeeps ==
    ASSUME IInv, TypeOK', NEW r \in Requests, EvaluationRetries(r)
    PROVE  IInv'
<1>1. request[r] \in Call /\ CallConsistent(r) /\ UNCHANGED <<practice, attempts>>
  BY BusyCall DEF EvaluationRetries, At, IInv
<1>2. /\ request' = [request EXCEPT ![r] = request'[r]]
      /\ request'[r] = [request[r] EXCEPT !.try = @ + 1]
  BY DEF EvaluationRetries, IInv, TypeOK
<1>3. /\ request'[r].step = request[r].step /\ request'[r].token = request[r].token
      /\ request'[r].learner = request[r].learner /\ request'[r].practice = request[r].practice
      /\ request'[r].essay = request[r].essay /\ request'[r].elapsed = request[r].elapsed
  BY <1>1, <1>2 DEF Call
<1>4. request[r].step = "evaluate"
  BY DEF EvaluationRetries, At
<1>5. CallConsistent(r)'
  BY <1>1, <1>3, <1>4 DEF CallConsistent, At, Active, Evaluating, OwnsClaim, Row
<1>6. Active(r)' => Active(r) /\ request'[r].token = request[r].token
  BY <1>3 DEF Active
<1> QED
  BY <1>1, <1>2, <1>5, <1>6, OneCallStep

\* A tick ages a claim and its call alike.
LEMMA TickKeeps ==
    ASSUME IInv, TypeOK', Tick
    PROVE  IInv'
<1>1. ASSUME NEW p \in Practices
      PROVE  /\ practice'[p].state = practice[p].state
             /\ practice'[p].fingerprint = practice[p].fingerprint
             /\ practice'[p].token = practice[p].token
             /\ practice'[p].attempt = practice[p].attempt
             /\ practice[p].age = None => practice'[p].age = None
             /\ practice[p].age # None => /\ practice'[p].age = Older(practice[p].age)
                                          /\ practice'[p].age # None
  <2>1. practice[p] \in PracticeRow
    BY DEF IInv, TypeOK
  <2>2. CASE practice[p].age = None
    BY <2>2 DEF Tick
  <2>3. CASE practice[p].age # None
    <3>1. Older(practice[p].age) \in 0..Lease
      BY <2>1, <2>3, OlderType DEF PracticeRow
    <3>2. Older(practice[p].age) # None
      BY <3>1, NullAssumption, BoundAssumption
    <3>3. practice'[p] = [practice[p] EXCEPT !.age = Older(practice[p].age)]
      BY <2>3 DEF Tick
    <3> QED
      BY <2>1, <2>3, <3>2, <3>3 DEF PracticeRow
  <2> QED
    BY <2>2, <2>3
<1>2. RowMatchesAttempts'
  <2>1. ASSUME NEW p \in Practices
        PROVE  RowConsistent(p)'
    <3>1. RowConsistent(p) /\ attempts'[p] = attempts[p]
      BY DEF IInv, RowMatchesAttempts, Tick
    <3> QED
      BY <1>1, <3>1 DEF RowConsistent
  <2> QED
    BY <2>1 DEF RowMatchesAttempts
<1>3. ASSUME NEW r \in Requests
      PROVE  /\ request'[r].step = request[r].step
             /\ request[r].step # "idle" =>
                  /\ request'[r].token = request[r].token
                  /\ request'[r].learner = request[r].learner
                  /\ request'[r].practice = request[r].practice
                  /\ request'[r].essay = request[r].essay
                  /\ request'[r].answer = request[r].answer
             /\ Evaluating(r) => request'[r].elapsed = Older(request[r].elapsed)
             /\ ~Evaluating(r) => request'[r] = request[r]
  <2>1. CASE Evaluating(r)
    <3>1. request[r] \in Call
      BY <2>1, BusyCall DEF IInv, Evaluating
    <3>2. request'[r] = [request[r] EXCEPT !.elapsed = Older(@)]
      BY <2>1 DEF Tick, Evaluating
    <3> QED
      BY <2>1, <3>1, <3>2 DEF Call
  <2>2. CASE ~Evaluating(r)
    BY <2>2 DEF Tick, Evaluating
  <2> QED
    BY <2>1, <2>2
<1>4. ASSUME NEW r \in Requests
      PROVE  CallConsistent(r)'
  <2>1. CASE request[r].step = "idle"
    BY <1>3, <2>1 DEF CallConsistent, At, Active, Evaluating
  <2>2. CASE request[r].step # "idle"
    <3>1. request[r] \in Call /\ request[r].practice \in Practices
      BY <2>2, BusyCall DEF IInv
    <3>2. request[r].elapsed \in 0..Lease /\ CallConsistent(r)
      BY <3>1 DEF Call, IInv
    <3>3. Older(request[r].elapsed) < Lease => request[r].elapsed < Lease
      BY <3>2, BoundAssumption DEF Older
    <3>4. request[r].elapsed # None
      BY <3>2, NullAssumption, BoundAssumption
    <3>5. /\ Active(r)' = Active(r) /\ Evaluating(r)' = Evaluating(r)
          /\ OwnsClaim(r)' = OwnsClaim(r)
      BY <1>1, <1>3, <2>2, <3>1 DEF Active, Evaluating, OwnsClaim, Row
    <3>6. Evaluating(r) /\ OwnsClaim(r) => Row(r)'.age = request'[r].elapsed
      BY <1>1, <1>3, <2>2, <3>1, <3>2, <3>4 DEF CallConsistent, Row
    <3>7. Row(r)'.fingerprint = Row(r).fingerprint
      BY <1>1, <1>3, <2>2, <3>1 DEF Row
    <3>8. Evaluating(r) /\ request'[r].elapsed < Lease => OwnsClaim(r)
      BY <1>3, <3>2, <3>3 DEF CallConsistent
    <3>9. At(r, "claim") => request'[r].elapsed = 0
      BY <1>3, <3>2 DEF CallConsistent, At, Evaluating
    <3>10. UNCHANGED attempts
      BY DEF Tick
    <3> QED
      BY <1>3, <2>2, <3>2, <3>5, <3>6, <3>7, <3>8, <3>9, <3>10 DEF CallConsistent, At
  <2> QED
    BY <2>1, <2>2
<1>5. TokensDistinct'
  <2>1. ASSUME NEW r \in Requests, Active(r)'
        PROVE  Active(r) /\ request'[r].token = request[r].token
    BY <1>3, <2>1 DEF Active
  <2> QED
    BY <2>1 DEF IInv, TokensDistinct
<1> QED
  BY <1>2, <1>4, <1>5 DEF IInv

\* Applying an evaluation to a learner touches no row and no call.
LEMMA FrameKeeps ==
    ASSUME IInv, TypeOK', UNCHANGED <<practice, attempts, request>>
    PROVE  IInv'
<1>1. RowMatchesAttempts'
  BY DEF IInv, RowMatchesAttempts, RowConsistent
<1>2. ASSUME NEW r \in Requests
      PROVE  CallConsistent(r)'
  <2>1. CallConsistent(r)
    BY DEF IInv
  <2> QED
    BY <2>1 DEF CallConsistent, At, Active, Evaluating, OwnsClaim, Row
<1>3. TokensDistinct'
  BY DEF IInv, TokensDistinct, Active
<1> QED
  BY <1>1, <1>2, <1>3 DEF IInv

-----------------------------------------------------------------------------
(***************************************************************************)
(* Theorems                                                                *)
(***************************************************************************)

LEMMA InitIInv == Init => IInv
<1> SUFFICES ASSUME Init
             PROVE  IInv
  OBVIOUS
<1>1. TypeOK
  <2>1. /\ Generated \in PracticeRow
        /\ \A e \in Essays, t \in Tokens : LeaselessClaim(e, t) \in PracticeRow
    BY BoundAssumption DEF PracticeRow, LifecycleStates, Generated, LeaselessClaim
  <2>2. practice \in [Practices -> PracticeRow]
    BY <2>1 DEF Init
  <2>3. attempts \in [Practices -> Seq(Essays)]
    BY DEF Init
  <2> QED
    BY <2>2, <2>3, BoundAssumption DEF TypeOK, Init, Idle
<1>2. RowMatchesAttempts
  <2>1. ASSUME NEW p \in Practices
        PROVE  RowConsistent(p)
    <3>1. attempts[p] = << >>
      BY DEF Init
    <3>2. CASE practice[p] = Generated
      BY <3>1, <3>2 DEF RowConsistent, Generated
    <3>3. ASSUME NEW e \in Essays, NEW t \in Tokens, practice[p] = LeaselessClaim(e, t)
          PROVE  RowConsistent(p)
      <4>1. e # None /\ t # None /\ Lease # None
        BY NullAssumption, BoundAssumption
      <4> QED
        BY <3>1, <3>3, <4>1 DEF RowConsistent, LeaselessClaim
    <3> QED
      BY <3>2, <3>3 DEF Init
  <2> QED
    BY <2>1 DEF RowMatchesAttempts
<1>3. \A r \in Requests : CallConsistent(r)
  BY DEF Init, Idle, CallConsistent, At, Active, Evaluating
<1>4. TokensDistinct
  BY DEF Init, Idle, TokensDistinct, Active
<1> QED
  BY <1>1, <1>2, <1>3, <1>4 DEF IInv

LEMMA IInvStep ==
    ASSUME IInv, [Next]_vars
    PROVE  IInv'
<1>t. TypeOK'
  BY TypeStep DEF IInv
<1>1. ASSUME NEW r \in Requests, NEW l \in Learners, NEW p \in Practices, NEW e \in Essays,
             NEW x \in (1..MaxUpdates) \cup {None}, Submit(r, l, p, e, x)
      PROVE  IInv'
  BY <1>t, <1>1, SubmitKeeps
<1>2. ASSUME NEW r \in Requests, Serve(r)
      PROVE  IInv'
  <2>1. CASE ClaimRefused(r)
    BY <1>t, <2>1, ClaimRefusedKeeps
  <2>2. CASE ClaimGranted(r)
    BY <1>t, <2>2, ClaimGrantedKeeps
  <2>3. CASE EvaluationSucceeds(r)
    BY <1>t, <2>3, MoveKeeps DEF EvaluationSucceeds, At, Evaluating
  <2>4. CASE ResetClaim(r)
    BY <1>t, <2>4, ResetClaimKeeps
  <2>5. CASE Finalize(r)
    BY <1>t, <2>5, FinalizeKeeps
  <2> QED
    BY <1>2, <2>1, <2>2, <2>3, <2>4, <2>5 DEF Serve
<1>3. ASSUME NEW r \in Requests, Break(r)
      PROVE  IInv'
  <2>1. CASE ClaimFails(r)
    BY <1>t, <2>1, ClaimFailsKeeps
  <2>2. CASE EvaluationFails(r)
    BY <1>t, <2>2, MoveKeeps DEF EvaluationFails, At, Evaluating
  <2>2r. CASE EvaluationRetries(r)
    BY <1>t, <2>2r, RetryKeeps
  <2>3. CASE ResetFails(r)
    BY <1>t, <2>3, ErrorKeeps DEF ResetFails, At
  <2>4. CASE FinalizeFails(r)
    BY <1>t, <2>4, FinalizeFailsKeeps
  <2>5. CASE Crash(r)
    BY <1>t, <2>5, CrashKeeps
  <2> QED
    BY <1>3, <2>1, <2>2, <2>2r, <2>3, <2>4, <2>5 DEF Break
<1>4. ASSUME NEW l \in Learners, Advance(l)
      PROVE  IInv'
  BY <1>t, <1>4, FrameKeeps DEF Advance
<1>5. CASE Tick
  BY <1>t, <1>5, TickKeeps
<1>6. CASE UNCHANGED vars
  BY <1>t, <1>6, FrameKeeps DEF vars
<1> QED
  BY <1>1, <1>2, <1>3, <1>4, <1>5, <1>6 DEF Next

\* The strengthened invariant holds in every reachable state.
THEOREM Consistent == Spec => []IInv
BY InitIInv, IInvStep, PTL DEF Spec

\* Every reachable state of the submission columns and calls is of its type.
THEOREM TypeCorrect == Spec => []TypeOK
<1>1. IInv => TypeOK
  BY DEF IInv
<1> QED
  BY <1>1, Consistent, PTL

\* A submitted practice always has exactly one attempt, of the essay whose
\* fingerprint it carries, and an unsubmitted one none: the state matrix of
\* writing_practices and the one-time submission it stands for.
THEOREM OneAttempt == Spec => []RowMatchesAttempts
<1>1. IInv => RowMatchesAttempts
  BY DEF IInv
<1> QED
  BY <1>1, Consistent, PTL

\* No other call, no late finalization or reset and no fault takes a claim from
\* a call before SUBMISSION_CLAIM_LEASE_SECONDS have passed.
THEOREM LeaseHolds == Spec => []LiveClaimKept
<1>1. IInv => LiveClaimKept
  BY DEF IInv, CallConsistent, LiveClaimKept, Active, Evaluating
<1> QED
  BY <1>1, Consistent, PTL

-----------------------------------------------------------------------------
(***************************************************************************)
(* How claims end                                                          *)
(***************************************************************************)

LEMMA HandoverStep ==
    ASSUME IInv, [Next]_vars, NEW p \in Practices
    PROVE  ClaimEnds(p)
<1> SUFFICES ASSUME practice[p].state = "submission_in_progress",
                    practice'[p].token # practice[p].token
             PROVE  \/ TakenOver(p)
                    \/ EndedByHolder(p, "generated", "reset")
                    \/ EndedByHolder(p, "submitted", "finalize")
  BY DEF ClaimEnds
<1>row. practice[p] \in PracticeRow
  BY DEF IInv, TypeOK
<1>1. ASSUME NEW r \in Requests, At(r, "claim"), Decision(r) = "granted",
             NEW t \in FreshTokens, WriteClaim(r, t)
      PROVE  TakenOver(p)
  <2>1. request[r].practice = p
    BY <1>1 DEF WriteClaim, IInv, TypeOK
  <2>2. practice[p].age >= Lease /\ practice[p].fingerprint = request[r].essay
    BY <1>1, <2>1 DEF Decision, Row, LeaseExpired, EssayMatches
  <2>3. practice[p].age # None
    BY DEF IInv, RowMatchesAttempts, RowConsistent
  <2>4. practice[p].age = Lease
    BY <1>row, <2>2, <2>3, BoundAssumption DEF PracticeRow
  <2>5. /\ practice'[p].state = "submission_in_progress"
        /\ practice'[p].fingerprint = request[r].essay
    BY <1>1, <1>row, <2>1 DEF WriteClaim, IInv, TypeOK, PracticeRow
  <2> QED
    BY <2>2, <2>4, <2>5 DEF TakenOver
<1>2. ASSUME NEW r \in Requests, At(r, "finalize"), OwnsClaim(r), WriteAttempt(r),
             ~At(r, "finalize")'
      PROVE  EndedByHolder(p, "submitted", "finalize")
  <2>1. request[r].practice = p
    BY <1>2 DEF WriteAttempt, IInv, TypeOK
  <2>2. practice'[p].state = "submitted"
    BY <1>2, <1>row, <2>1 DEF WriteAttempt, IInv, TypeOK, PracticeRow
  <2> QED
    BY <1>2, <2>1, <2>2 DEF EndedByHolder, OwnsClaim, Row
<1>3. ASSUME NEW r \in Requests, ResetClaim(r)
      PROVE  EndedByHolder(p, "generated", "reset")
  <2>1. request[r].practice = p /\ OwnsClaim(r) /\ At(r, "reset")
    BY <1>3 DEF ResetClaim, IInv, TypeOK
  <2>2. practice'[p].state = "generated"
    BY <1>3, <1>row, <2>1 DEF ResetClaim, IInv, TypeOK, PracticeRow
  <2>3. "error" \in Answers
    BY DEF Answers
  <2>4. ~At(r, "reset")'
    BY <1>3, <2>1, <2>3, AnsweredKeeps DEF ResetClaim, At, IInv
  <2> QED
    BY <2>1, <2>2, <2>4 DEF EndedByHolder, OwnsClaim, Row
<1>4. ASSUME NEW r \in Requests, ClaimGranted(r)
      PROVE  TakenOver(p)
  BY <1>1, <1>4 DEF ClaimGranted
<1>5. ASSUME NEW r \in Requests, ClaimFails(r)
      PROVE  TakenOver(p)
  BY <1>1, <1>5 DEF ClaimFails
<1>6. ASSUME NEW r \in Requests, Finalize(r)
      PROVE  EndedByHolder(p, "submitted", "finalize")
  <2>1. At(r, "finalize") /\ OwnsClaim(r) /\ WriteAttempt(r) /\ Answered(r, "submitted")
    BY <1>6 DEF Finalize
  <2>2. "submitted" \in Answers
    BY DEF Answers
  <2>3. ~At(r, "finalize")'
    BY <2>1, <2>2, AnsweredKeeps DEF At, IInv
  <2> QED
    BY <1>2, <2>1, <2>3
<1>7. ASSUME NEW r \in Requests, FinalizeFails(r)
      PROVE  EndedByHolder(p, "submitted", "finalize")
  <2>1. At(r, "finalize") /\ OwnsClaim(r) /\ WriteAttempt(r)
    BY <1>7 DEF FinalizeFails
  <2>2. ~At(r, "finalize")'
    BY <1>7, BusyCall DEF FinalizeFails, At, IInv, TypeOK, Call
  <2> QED
    BY <1>2, <2>1, <2>2
<1>8. Tick => practice'[p].token = practice[p].token
  BY <1>row DEF Tick, PracticeRow
<1> QED
  BY <1>3, <1>4, <1>5, <1>6, <1>7, <1>8
  DEF Next, Serve, Break, vars, Submit, ClaimRefused, EvaluationSucceeds,
      EvaluationRetries, EvaluationFails, ResetFails, Crash, Advance

\* A claim passes to another call only when its lease has run out, and ends only
\* through the call that holds its token.
THEOREM Handover == Spec => ClaimHandover
<1>1. IInv /\ [Next]_vars => [\A p \in Practices : ClaimEnds(p)]_vars
  BY HandoverStep
<1> QED
  BY <1>1, Consistent, PTL DEF Spec, ClaimHandover

-----------------------------------------------------------------------------
(***************************************************************************)
(* How long an evaluation takes                                            *)
(***************************************************************************)
Timely == \A r \in Requests :
            Evaluating(r) => request[r].elapsed <= AttemptLimit * request[r].try

\* One more attempt takes one limit more, and the policy allows no more than it says.
LEMMA LimitsGrow ==
    ASSUME NEW n \in 1..MaxProviderAttempts
    PROVE  /\ AttemptLimit * n \in Nat
           /\ AttemptLimit * n <= AttemptLimit * MaxProviderAttempts
           /\ n < MaxProviderAttempts => AttemptLimit * n <= AttemptLimit * (n + 1)
<1>1. CASE n = 1
  BY <1>1, BoundAssumption DEF MaxProviderAttempts
<1>2. CASE n = 2
  BY <1>2, BoundAssumption DEF MaxProviderAttempts
<1>3. CASE n = 3
  BY <1>3, BoundAssumption DEF MaxProviderAttempts
<1> QED
  BY <1>1, <1>2, <1>3 DEF MaxProviderAttempts

\* A call other than the one that moves is as timely as it was.
LEMMA TimelyCall ==
    ASSUME IInv, Timely, [Next]_vars, NEW r \in Requests, Evaluating(r)'
    PROVE  request'[r].elapsed <= AttemptLimit * request'[r].try
<1>1. CASE request'[r] = request[r]
  BY <1>1 DEF Timely, Evaluating
<1>2. ASSUME ClaimGranted(r)
      PROVE  request'[r].elapsed <= AttemptLimit * request'[r].try
  <2>1. request[r] \in Call /\ request[r].elapsed = 0
    BY <1>2, BusyCall DEF ClaimGranted, At, IInv, CallConsistent
  <2>2. request'[r].elapsed = 0 /\ request'[r].try \in 1..MaxProviderAttempts
    BY <1>2, <2>1 DEF ClaimGranted, IInv, TypeOK, Call
  <2>3. AttemptLimit * request'[r].try \in Nat
    BY <2>2, LimitsGrow
  <2> QED
    BY <2>2, <2>3
<1>3. ASSUME EvaluationSucceeds(r)
      PROVE  request'[r].elapsed <= AttemptLimit * request'[r].try
  <2>1. request[r] \in Call /\ Evaluating(r)
    BY <1>3, BusyCall DEF EvaluationSucceeds, At, IInv, Evaluating
  <2>2. request'[r].elapsed = request[r].elapsed /\ request'[r].try = request[r].try
    BY <1>3, <2>1 DEF EvaluationSucceeds, IInv, TypeOK, Call
  <2> QED
    BY <2>1, <2>2 DEF Timely
<1>4. ASSUME EvaluationRetries(r)
      PROVE  request'[r].elapsed <= AttemptLimit * request'[r].try
  <2>1. request[r] \in Call /\ Evaluating(r)
    BY <1>4, BusyCall DEF EvaluationRetries, At, IInv, Evaluating
  <2> DEFINE n == request[r].try
  <2>2. /\ request'[r].elapsed = request[r].elapsed /\ request'[r].try = n + 1
        /\ n \in 1..MaxProviderAttempts /\ n < MaxProviderAttempts
        /\ request[r].elapsed \in 0..Lease
    BY <1>4, <2>1 DEF EvaluationRetries, ShouldRetry, IInv, TypeOK, Call
  <2>3. n + 1 \in 1..MaxProviderAttempts
    BY <2>2 DEF MaxProviderAttempts
  <2>4. request[r].elapsed <= AttemptLimit * n
    BY <2>1 DEF Timely
  <2> HIDE DEF n
  <2>5. /\ AttemptLimit * n <= AttemptLimit * (n + 1)
        /\ AttemptLimit * n \in Nat /\ AttemptLimit * (n + 1) \in Nat
    BY <2>2, <2>3, LimitsGrow
  <2> QED
    BY <2>2, <2>4, <2>5, BoundAssumption
<1>5. ASSUME Tick
      PROVE  request'[r].elapsed <= AttemptLimit * request'[r].try
  <2>1. Evaluating(r)
    BY <1>5, BusyCall DEF Tick, Evaluating, IInv, Call
  <2>2. request[r] \in Call
    BY <2>1, BusyCall DEF IInv, Evaluating
  <2>3. /\ request'[r].elapsed = Older(request[r].elapsed) /\ request'[r].try = request[r].try
        /\ request[r].elapsed \in 0..Lease /\ request[r].try \in 1..MaxProviderAttempts
    BY <1>5, <2>1, <2>2 DEF Tick, Evaluating, Call
  <2>4. request[r].elapsed < AttemptLimit * request[r].try
    BY <1>5, <2>1 DEF Tick, Evaluating
  <2>5. AttemptLimit * request[r].try \in Nat
    BY <2>3, LimitsGrow
  <2> QED
    BY <2>3, <2>4, <2>5, BoundAssumption DEF Older
<1>6. ASSUME NEW s \in Requests, Serve(s) \/ Break(s)
      PROVE  \/ request'[r] = request[r]
             \/ ~Evaluating(r)'
             \/ ClaimGranted(r) \/ EvaluationSucceeds(r) \/ EvaluationRetries(r)
  <2>1. CASE s # r
    BY <1>6, <2>1 DEF Serve, Break, ClaimRefused, ClaimGranted, EvaluationSucceeds,
       EvaluationRetries, EvaluationFails, ClaimFails, ResetClaim, ResetFails, Finalize,
       FinalizeFails, Crash, Answered, IInv, TypeOK
  <2>2. CASE s = r
    <3>1. ASSUME NEW a, Answered(r, a), request[r].step # "idle"
          PROVE  ~Evaluating(r)'
      BY <3>1, BusyCall DEF Answered, Evaluating, IInv, TypeOK, Call
    <3>2. ASSUME request' = [request EXCEPT ![r].step = "reset"], request[r].step # "idle"
          PROVE  ~Evaluating(r)'
      BY <3>2, BusyCall DEF Evaluating, IInv, TypeOK, Call
    <3>3. ASSUME Crash(r)
          PROVE  ~Evaluating(r)'
      BY <3>3 DEF Crash, Idle, Evaluating, IInv, TypeOK
    <3> QED
      BY <1>6, <2>2, <3>1, <3>2, <3>3 DEF Serve, Break, ClaimRefused, EvaluationFails,
         ClaimFails, ResetClaim, ResetFails, Finalize, FinalizeFails, At
  <2> QED
    BY <2>1, <2>2
<1>7. ASSUME NEW s \in Requests, NEW l \in Learners, NEW p \in Practices, NEW e \in Essays,
             NEW x \in (1..MaxUpdates) \cup {None}, Submit(s, l, p, e, x)
      PROVE  request'[r] = request[r]
  BY <1>7 DEF Submit, Evaluating, IInv, TypeOK
<1>8. ASSUME NEW l \in Learners, Advance(l)
      PROVE  request'[r] = request[r]
  BY <1>8 DEF Advance
<1> QED
  BY <1>1, <1>2, <1>3, <1>4, <1>5, <1>6, <1>7, <1>8 DEF Next, vars

\* While the attempts the retry allows fit the lease, two calls never pay a provider for
\* one practice at once.
THEOREM EvaluatedOnceAtATime ==
    AttemptLimit * MaxProviderAttempts < Lease => (Spec => []OneEvaluation)
<1> SUFFICES ASSUME AttemptLimit * MaxProviderAttempts < Lease
             PROVE  Spec => []OneEvaluation
  OBVIOUS
<1>1. Init => Timely
  BY DEF Init, Timely, Evaluating, Idle
<1>2. IInv /\ Timely /\ [Next]_vars => Timely'
  BY TimelyCall DEF Timely
<1>3. IInv /\ Timely => OneEvaluation
  <2> SUFFICES ASSUME IInv, Timely, NEW r \in Requests, NEW s \in Requests,
                      Evaluating(r), Evaluating(s), request[r].practice = request[s].practice
               PROVE  r = s
    BY DEF OneEvaluation, Evaluating
  <2>1. ASSUME NEW q \in Requests, Evaluating(q)
        PROVE  OwnsClaim(q)
    <3>1. request[q].elapsed \in 0..Lease /\ request[q].try \in 1..MaxProviderAttempts
      BY <2>1, BusyCall DEF Evaluating, IInv, Call
    <3>2. /\ AttemptLimit * request[q].try \in Nat
          /\ AttemptLimit * request[q].try <= AttemptLimit * MaxProviderAttempts
      BY <3>1, LimitsGrow
    <3>3. AttemptLimit * MaxProviderAttempts \in Nat
      BY LimitsGrow DEF MaxProviderAttempts
    <3>4. request[q].elapsed < Lease
      BY <2>1, <3>1, <3>2, <3>3, BoundAssumption DEF Timely
    <3> QED
      BY <2>1, <3>4 DEF IInv, CallConsistent
  <2> QED
    BY <2>1, OneOwner DEF Active, Evaluating
<1> QED
  BY <1>1, <1>2, <1>3, Consistent, PTL DEF Spec

-----------------------------------------------------------------------------
(***************************************************************************)
(* Refinement                                                              *)
(***************************************************************************)

\* What clients have been told is true of the attempts.
LEMMA ConfirmedTrue == IInv => Confirmed \subseteq OneShot!Truths(attempts)
<1> SUFFICES ASSUME IInv, NEW r \in Requests, At(r, "done"),
                    request[r].answer \in {"submitted", "reused"}
             PROVE  <<request[r].learner, request[r].practice, request[r].essay>>
                      \in OneShot!Truths(attempts)
  BY DEF Confirmed
<1>1. PICK p \in Practices : request[r].practice = p
  BY BusyCall DEF At, IInv
<1>2. request[r].learner = Owner[p] /\ attempts[p] = <<request[r].essay>>
  BY <1>1 DEF IInv, CallConsistent
<1>3. attempts[p] # << >> /\ attempts[p][1] = request[r].essay
  BY <1>2, EmptyIsNotOne
<1> QED
  BY <1>1, <1>2, <1>3 DEF OneShot!Truths

\* An attempt is only ever the first of its practice.
LEMMA AttemptStep ==
    ASSUME IInv, [Next]_vars
    PROVE  \/ \E p \in Practices, e \in Essays : OneShot!Accept(p, e)
           \/ UNCHANGED attempts
<1>1. ASSUME NEW r \in Requests, At(r, "finalize"), OwnsClaim(r), WriteAttempt(r)
      PROVE  \E p \in Practices, e \in Essays : OneShot!Accept(p, e)
  <2>1. PICK p \in Practices, e \in Essays : request[r].practice = p /\ request[r].essay = e
    BY <1>1, BusyCall DEF At, IInv, Call
  <2>2. attempts[p] = << >>
    BY <1>1, <2>1 DEF OwnsClaim, Row, IInv, RowMatchesAttempts, RowConsistent
  <2>3. attempts' = [attempts EXCEPT ![p] = <<e>>]
    BY <1>1, <2>1, <2>2 DEF WriteAttempt
  <2> QED
    BY <2>2, <2>3 DEF OneShot!Accept
<1> QED
  BY <1>1 DEF Next, Serve, Break, vars, Submit, ClaimRefused, ClaimGranted, ClaimFails,
      EvaluationSucceeds, EvaluationRetries, EvaluationFails, ResetClaim, ResetFails,
      Finalize, FinalizeFails, Crash, Advance, Tick

\* Claims, leases, retries and faults implement one-time submission: a practice
\* takes one essay for good, and nobody is told otherwise.
THEOREM OneShotImplemented == Spec => ImplementsOneShot
<1>1. Init => OneShot!Init
  BY DEF Init, OneShot!Init, Confirmed, Idle, At
<1>2. (IInv => Confirmed \subseteq OneShot!Truths(attempts))'
  BY ConfirmedTrue, PTL
<1>3. IInv /\ [Next]_vars => [OneShot!Next]_(OneShot!vars)
  BY <1>2, IInvStep, AttemptStep DEF OneShot!Next, OneShot!Tell
<1> QED
  BY <1>1, <1>3, Consistent, PTL DEF Spec, ImplementsOneShot, OneShot!Spec
=============================================================================

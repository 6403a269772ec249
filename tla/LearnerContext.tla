--------------------------- MODULE LearnerContext ---------------------------
(***************************************************************************)
(* Clients of one learner that read the resume context and do what it      *)
(* says through the granular endpoints: build_learner_context is three     *)
(* SELECTs at READ COMMITTED, and other clients go on between them and     *)
(* between the advice and the call that follows it.                        *)
(*                                                                         *)
(* Update n carries one recommendation and that at most one practice, so n *)
(* names all three.  The context takes the update with the newest          *)
(* created_at, which is when its transaction began, while ids follow the   *)
(* order of commits: created keeps the first order.  The handlers are one  *)
(* step each up to their provider call; PracticeGeneration,                *)
(* PracticeSubmission and LearningApplication have their transactions.     *)
(***************************************************************************)
EXTENDS Naturals, Sequences, FiniteSets

CONSTANTS
    Clients, Essays, None,
    Drafts,      \* the essays each client may be about to send
    MaxUpdates,  \* bound: accepted updates of the learner
    MaxStrays    \* bound: what does not go as advised: calls that fail or are lost,
                 \*   evaluations that outlive their lease, essays nobody asked for,
                 \*   applies that name another learner

ASSUME BoundAssumption == MaxUpdates \in Nat /\ MaxStrays \in Nat
ASSUME ClientAssumption == Clients \cap 1..MaxUpdates = {}
ASSUME DraftAssumption == Drafts \in [Clients -> SUBSET Essays]

VARIABLES
    updates,   \* learning_updates in id order: the decision each recommends
    created,   \* committed updates and open apply transactions, in order of created_at
    practice,  \* the practice of each update's recommendation
    applied,   \* whose update each practice's evaluation has become
    client,
    strays

vars == <<updates, created, practice, applied, client, strays>>

Numbers == 1..MaxUpdates
Decisions == {"practice", "no_practice"}
ResumeActions == {"initial_writing", "no_action", "generate_practice", "submit_practice",
                  "await_submission", "complete_practice"}
Steps == {"idle", "practice", "completion", "advised", "evaluating", "applying"}

\* The errors a client is answered with, and their status (api/errors.py); another
\* essay's claim or attempt is an answer like any other, with the status "conflict".
Status == [invariant_error |-> 503, unavailable |-> 503, not_found |-> 404,
           not_submitted |-> 409, essay_conflict |-> 200, cross_owner |-> 409]
Errors == DOMAIN Status

ASSUME NullAssumption == None \notin Clients \cup Essays \cup Errors \cup {"own", "other"}

\* The call that holds a claim; None once that call is gone and has left it.
Row == [state: {"none", "generated", "submission_in_progress", "submitted"},
        essay: Essays \cup {None}, holder: Clients \cup {None}]

\* update and action are the context the client was given, source the practice whose
\* evaluation it is applying (0 for a first essay).  While the context is read, known
\* is how many updates there were at its first SELECT.
Client == [step: Steps, essay: Essays, update: 0..MaxUpdates,
           action: ResumeActions \cup {None}, source: 0..MaxUpdates,
           known: 0..MaxUpdates, error: Errors \cup {None}]

TypeOK ==
    /\ updates \in Seq(Decisions) /\ Len(updates) <= MaxUpdates
    /\ created \in Seq(Numbers \cup Clients)
    /\ practice \in [Numbers -> Row]
    /\ applied \in [Numbers -> {None, "own", "other"}]
    /\ client \in [Clients -> Client]
    /\ strays \in 0..MaxStrays

NoPractice == [state |-> "none", essay |-> None, holder |-> None]
Generated == [NoPractice EXCEPT !.state = "generated"]
Claimed(e, c) == [state |-> "submission_in_progress", essay |-> e, holder |-> c]

Init ==
    /\ updates = << >>
    /\ created = << >>
    /\ practice = [n \in Numbers |-> NoPractice]
    /\ applied = [n \in Numbers |-> None]
    /\ \E e \in [Clients -> Essays] :
         /\ \A c \in Clients : e[c] \in Drafts[c]
         /\ client = [c \in Clients |-> [step |-> "idle", essay |-> e[c], update |-> 0,
                                         action |-> None, source |-> 0, known |-> 0,
                                         error |-> None]]
    /\ strays = 0

-----------------------------------------------------------------------------
At(c, step) == client[c].step = step
Become(c, q) == client' = [client EXCEPT ![c] = q]
Advised(c, actions) == At(c, "advised") /\ client[c].action \in actions
Raise(q, error) == [q EXCEPT !.step = "idle", !.action = None, !.source = 0, !.error = error]
Answer(q) == [Raise(q, None) EXCEPT !.update = 0, !.known = 0]
Stray == strays < MaxStrays /\ strays' = strays + 1

(***************************************************************************)
(* build_learner_context                                                   *)
(***************************************************************************)
CommittedAt(i) == created[i] \in Numbers
EarliestCreated ==   \* mutant: no DESC
    IF updates = << >> THEN 0
    ELSE created[CHOOSE i \in DOMAIN created :
                   CommittedAt(i) /\ \A j \in 1..(i - 1) : ~CommittedAt(j)]
LatestCreated ==
    IF updates = << >> THEN 0
    ELSE created[CHOOSE i \in DOMAIN created :
                   CommittedAt(i) /\ \A j \in (i + 1)..Len(created) : ~CommittedAt(j)]

Advise(q, action) == [q EXCEPT !.step = "advised", !.action = action, !.known = 0]

\* A client may ask again instead of doing what it was told.
ReadLatest(c) ==
    LET n == LatestCreated
        q == [client[c] EXCEPT !.update = n, !.known = Len(updates), !.action = None,
                               !.error = None] IN
    /\ At(c, "idle") \/ At(c, "advised")
    /\ Become(c, IF n = 0 THEN Advise(q, "initial_writing")
                 ELSE IF updates[n] = "no_practice" THEN Advise(q, "no_action")
                 ELSE [q EXCEPT !.step = "practice"])
    /\ UNCHANGED <<updates, created, practice, applied, strays>>

PracticeState ==   \* mutant: the lifecycle's own name
    [none |-> "generate_practice", generated |-> "submit_practice",
     submission_in_progress |-> "submission_in_progress"]
PracticeAction == [none |-> "generate_practice", generated |-> "submit_practice",
                   submission_in_progress |-> "await_submission"]

ReadPractice(c) ==
    LET state == practice[client[c].update].state IN
    /\ At(c, "practice")
    /\ Become(c, IF state = "submitted" THEN [client[c] EXCEPT !.step = "completion"]
                 ELSE Advise(client[c], PracticeAction[state]))
    /\ UNCHANGED <<updates, created, practice, applied, strays>>

\* The evaluation is there with the submitted state; the update that applies it may be.
ReadCompletion(c) ==
    /\ At(c, "completion")
    /\ Become(c, IF applied[client[c].update] = None
                 THEN Advise(client[c], "complete_practice")
                 ELSE Raise(client[c], "invariant_error"))
    /\ UNCHANGED <<updates, created, practice, applied, strays>>

-----------------------------------------------------------------------------
(***************************************************************************)
(* The endpoints a client calls                                            *)
(***************************************************************************)
Open == {c \in Clients : At(c, "applying")}
Room == Len(updates) + Cardinality(Open) < MaxUpdates

\* The transaction of apply_writing_evaluation begins.
BeginApply(c, n) ==
    /\ Room
    /\ created' = Append(created, c)
    /\ Become(c, [client[c] EXCEPT !.step = "applying", !.source = n])

\* evaluate stores an attempt that belongs to no practice; the client applies it.  It is
\* what initial_writing asks for, and no other advice stands against it.
WriteEssay(c) ==
    /\ At(c, "advised")
    /\ BeginApply(c, 0)
    /\ IF client[c].action = "initial_writing" THEN UNCHANGED strays ELSE Stray
    /\ UNCHANGED <<updates, practice, applied>>

\* generate_or_resolve
Generate(c) ==
    LET n == client[c].update IN
    /\ Advised(c, {"generate_practice"})
    /\ practice' = IF practice[n].state = "none"
                   THEN [practice EXCEPT ![n] = Generated] ELSE practice
    /\ Become(c, Answer(client[c]))
    /\ UNCHANGED <<updates, created, applied, strays>>

MayClaim(c) == Advised(c, {"submit_practice", "await_submission"})
TakeClaim(c) ==
    /\ practice' = [practice EXCEPT ![client[c].update] = Claimed(client[c].essay, c)]
    /\ Become(c, [client[c] EXCEPT !.step = "evaluating"])
    /\ UNCHANGED <<updates, created, applied>>

\* submit, as far as the claim.
Submit(c) ==
    LET q == client[c] row == practice[q.update] IN
    /\ MayClaim(c)
    /\ \/ row.state = "generated" /\ TakeClaim(c)
       \/ /\ row.state # "generated"
          /\ Become(c, IF row.state = "none" THEN Raise(q, "not_found")
                       ELSE IF row.essay # q.essay THEN Raise(q, "essay_conflict")
                       ELSE Answer(q))   \* reused, or in_progress
          /\ UNCHANGED <<updates, created, practice, applied>>
    /\ UNCHANGED strays

Holds(c) == practice[client[c].update] = Claimed(client[c].essay, c)

\* The lease of a matching claim has expired: its holder is gone, or too slow.
TakeOver(c) ==
    LET row == practice[client[c].update] IN
    /\ MayClaim(c)
    /\ row = Claimed(client[c].essay, row.holder)
    /\ TakeClaim(c)
    /\ IF row.holder # None THEN Stray ELSE UNCHANGED strays

\* _finalize: only the evaluation of the claim's holder is stored.
Finish(c) ==
    /\ At(c, "evaluating")
    /\ IF Holds(c)
       THEN /\ practice' = [practice EXCEPT ![client[c].update].state = "submitted",
                                            ![client[c].update].holder = None]
            /\ Become(c, Answer(client[c]))
       ELSE Become(c, Raise(client[c], "unavailable")) /\ UNCHANGED practice
    /\ UNCHANGED <<updates, created, applied, strays>>

\* complete, as far as the transaction that applies the practice's evaluation.
Complete(c) ==
    LET n == client[c].update IN
    /\ Advised(c, {"complete_practice"})
    /\ IF practice[n].state = "submitted"
       THEN BeginApply(c, n)
       ELSE Become(c, Raise(client[c], "not_submitted")) /\ UNCHANGED created
    /\ UNCHANGED <<updates, practice, applied, strays>>

Accepts(n) == n # 0 => applied[n] = None
Without(x) ==
    LET place == CHOOSE i \in DOMAIN created : created[i] = x IN
    [i \in 1..(Len(created) - 1) |-> created[IF i < place THEN i ELSE i + 1]]
CloseApply(c) == created' = IF At(c, "applying") THEN Without(c) ELSE created

\* apply_writing_evaluation commits one update for an evaluation; d is the planner's
\* decision on the skill states it makes.
Apply(c, d) ==
    LET n == client[c].source id == Len(updates) + 1 IN
    /\ At(c, "applying") /\ Accepts(n)
    /\ updates' = Append(updates, d)
    /\ created' = [i \in DOMAIN created |-> IF created[i] = c THEN id ELSE created[i]]
    /\ applied' = IF n = 0 THEN applied ELSE [applied EXCEPT ![n] = "own"]
    /\ Become(c, Answer(client[c]))
    /\ UNCHANGED <<practice, strays>>

\* An evaluation that was applied already is a reuse, or another learner's.
Reapply(c) ==
    LET n == client[c].source IN
    /\ At(c, "applying") /\ ~Accepts(n)
    /\ CloseApply(c)
    /\ Become(c, IF applied[n] = "own" THEN Answer(client[c])
                 ELSE Raise(client[c], "cross_owner"))
    /\ UNCHANGED <<updates, practice, applied, strays>>

\* apply names the learner in its path: another one can take the evaluation.
ApplyElsewhere(n) ==
    /\ practice[n].state = "submitted" /\ applied[n] = None
    /\ Stray
    /\ applied' = [applied EXCEPT ![n] = "other"]
    /\ UNCHANGED <<updates, created, practice, client>>

ResetClaim(c) ==   \* mutant: the claim token is not compared
    /\ At(c, "evaluating")
    /\ practice' = [practice EXCEPT ![client[c].update] = Generated]

KeepClaim(c) ==   \* mutant: an evaluation that fails keeps its claim
    At(c, "evaluating") /\ UNCHANGED practice

ResetClaimIfOwned(c) ==
    /\ At(c, "evaluating")
    /\ practice' = IF Holds(c) THEN [practice EXCEPT ![client[c].update] = Generated]
                   ELSE practice

\* The server dies, the request is cancelled or the reset fails as well.
LeaveClaim(c) ==
    /\ At(c, "evaluating")
    /\ practice' = IF Holds(c) THEN [practice EXCEPT ![client[c].update].holder = None]
                   ELSE practice

\* A call fails or is lost, and an evaluation gives its claim back if it still can.
Fail(c) ==
    /\ ~At(c, "idle") /\ ~At(c, "advised")
    /\ Stray
    /\ CloseApply(c)
    /\ \/ ResetClaimIfOwned(c) \/ LeaveClaim(c)
       \/ ~At(c, "evaluating") /\ UNCHANGED practice
    /\ Become(c, Raise(client[c], "unavailable"))
    /\ UNCHANGED <<updates, applied>>

Read(c) == ReadLatest(c) \/ ReadPractice(c) \/ ReadCompletion(c)
Follow(c) == Generate(c) \/ Submit(c) \/ Finish(c) \/ Complete(c) \/ Reapply(c)
             \/ \E d \in Decisions : Apply(c, d)

Next ==
    \/ \E c \in Clients : Read(c) \/ Follow(c) \/ WriteEssay(c) \/ TakeOver(c) \/ Fail(c)
    \/ \E n \in Numbers : ApplyElsewhere(n)

Spec == Init /\ [][Next]_vars

\* Clients do what the context says and ask it again when they are answered.  One that
\* is told to wait only asks again, as the web client does: it may send its essay once
\* more (the endpoint takes it), but nothing makes it do so.
Obey(c) == Follow(c) /\ ~Advised(c, {"await_submission"})
FairSpec == Spec /\ \A c \in Clients : WF_vars(Read(c)) /\ SF_vars(Obey(c))

-----------------------------------------------------------------------------
(***************************************************************************)
(* Properties                                                              *)
(***************************************************************************)

\* The context fails on a practice that is already applied, a branch its comment calls
\* unreachable, only if an update was committed after it read the latest one, or
\* another learner has taken the evaluation.
UnreachableOnlyIfOvertaken ==
    \A c \in Clients :
      client[c].error = "invariant_error" =>
        applied[client[c].update] = "other" \/ Len(updates) > client[c].known

\* What the context says can be done: a client that does it is never told that there
\* is nothing to do it to or that the practice is in another state, however late it
\* comes; it loses only to another essay, or to another learner.
GuidedNeverRefused ==
    \A c \in Clients :
      client[c].error # None =>
        \/ Status[client[c].error] = 503
        \/ client[c].error = "essay_conflict"
        \/ client[c].error = "cross_owner" /\ applied[client[c].update] = "other"

\* Only one thing stops clients that follow the context from getting its practice done:
\* a claim whose call is gone, which the context answers with await_submission for ever
\* and which only an essay that nobody was asked for revives.  But for that, the practice
\* is applied and a newer update is current, or another learner took its evaluation: no
\* failure that gives its claim back, takeover or overtaken read holds them up for good.
\* (The last update within the bound has no successor.)
Abandoned(n) == practice[n].state = "submission_in_progress" /\ practice[n].holder = None
GuidanceAdvances ==
    \A n \in 1..(MaxUpdates - 1) :
      \/ <>[]Abandoned(n)
      \/ (LatestCreated = n /\ updates[n] = "practice")
           ~> (LatestCreated # n \/ Len(updates) = MaxUpdates \/ applied[n] = "other")
=============================================================================

------------------------ MODULE LearningApplication ------------------------
(***************************************************************************)
(* apply_writing_evaluation: one transaction per call that locks the       *)
(* learner's row, inserts a LearningUpdate with its evidence, rebuilds the *)
(* learner's skill states from all of its evidence and adds one            *)
(* recommendation.  Two calls for one evaluation and different learners    *)
(* hold different locks and meet at the unique constraint on               *)
(* learning_updates.writing_evaluation_id.                                 *)
(*                                                                         *)
(* Uncommitted rows are kept in their call: nobody else reads them, and    *)
(* only the unique index waits for them.                                   *)
(***************************************************************************)
EXTENDS Naturals, FiniteSets

CONSTANTS
    Learners, Evaluations,
    Usable,      \* evaluations that exist and from which evidence can be extracted
    Requests,    \* apply and complete calls the servers can be running at once
    None,
    MaxCalls,    \* bound: transactions started
    MaxFaults    \* bound: failed or lost transactions

ASSUME UsableAssumption == Usable \subseteq Evaluations
ASSUME BoundAssumption == MaxCalls \in Nat /\ MaxFaults \in Nat
ASSUME NullAssumption == None \notin Requests

VARIABLES
    updates,   \* committed learning_updates, each with its recommendation's inputs
    skill,     \* learner_skill_states: the evidence a learner's rows were rebuilt from
    lock,      \* who holds a learner's row
    nextId,    \* the sequence behind learning_updates.id; a rollback leaves a gap
    begun,     \* transactions started so far
    request,
    faults

vars == <<updates, skill, lock, nextId, begun, request, faults>>

Answers == {"applied", "reused", "cross_owner", "refused", "error"}
Steps == {"lock", "check", "insert", "rebuild", "commit", "resolve", "done"}

\* snapshot is the evidence the recommendation was decided on.
Update == [id: Nat, learner: Learners, evaluation: Evaluations, snapshot: SUBSET Evaluations]
Skill == [evidence: SUBSET Evaluations, revision: Nat]
Call == [step: Steps, learner: Learners, evaluation: Evaluations, id: Nat,
         seen: SUBSET Evaluations, revision: Nat, answer: Answers \cup {None}]
Idle == [step |-> "idle"]

TypeOK ==
    /\ updates \subseteq Update
    /\ skill \in [Learners -> Skill]
    /\ lock \in [Learners -> Requests \cup {None}]
    /\ nextId \in Nat
    /\ begun \in 0..MaxCalls
    /\ request \in [Requests -> Call \cup {Idle}]
    /\ faults \in 0..MaxFaults

Init ==
    /\ updates = {}
    /\ skill = [l \in Learners |-> [evidence |-> {}, revision |-> 0]]
    /\ lock = [l \in Learners |-> None]
    /\ nextId = 1
    /\ begun = 0
    /\ request = [r \in Requests |-> Idle]
    /\ faults = 0

-----------------------------------------------------------------------------
At(r, step) == request[r].step = step
Evidence(l) == {u.evaluation : u \in {v \in updates : v.learner = l}}
Persisted(e) == \E u \in updates : u.evaluation = e
GoTo(r, step) == request' = [request EXCEPT ![r].step = step]
Release(r) == lock' = [l \in Learners |-> IF lock[l] = r THEN None ELSE lock[l]]

\* What a call held is gone once it is answered.
Answered(r, answer) ==
    request' = [request EXCEPT ![r].step = "done", ![r].id = 0, ![r].seen = {},
                               ![r].revision = 0, ![r].answer = answer]

\* The transaction begins with the reads of learner, evaluation and attempt.
Start(r, l, e) ==
    /\ request[r].step \in {"idle", "done"}
    /\ begun < MaxCalls
    /\ begun' = begun + 1
    /\ request' = [request EXCEPT ![r] =
                     [step |-> IF e \in Usable THEN "lock" ELSE "done",
                      learner |-> l, evaluation |-> e, id |-> 0, seen |-> {}, revision |-> 0,
                      answer |-> IF e \in Usable THEN None ELSE "refused"]]
    /\ UNCHANGED <<updates, skill, lock, nextId, faults>>

AcquireLockUnguarded(r) ==   \* mutant: SELECT without FOR UPDATE
    /\ At(r, "lock")
    /\ GoTo(r, "check")
    /\ UNCHANGED <<updates, skill, lock, nextId, begun, faults>>

\* SELECT ... FOR UPDATE waits for the row.
AcquireLock(r) ==
    /\ At(r, "lock")
    /\ lock[request[r].learner] = None
    /\ lock' = [lock EXCEPT ![request[r].learner] = r]
    /\ GoTo(r, "check")
    /\ UNCHANGED <<updates, skill, nextId, begun, faults>>

RecheckHoldingLock(r) ==   \* mutant: no rollback before the replay is resolved
    /\ At(r, "check")
    /\ GoTo(r, IF Persisted(request[r].evaluation) THEN "resolve" ELSE "insert")
    /\ UNCHANGED <<updates, skill, lock, nextId, begun, faults>>

\* A duplicate that committed before the lock was had writes nothing.
Recheck(r) ==
    /\ At(r, "check")
    /\ IF Persisted(request[r].evaluation)
       THEN Release(r) /\ GoTo(r, "resolve")
       ELSE GoTo(r, "insert") /\ UNCHANGED lock
    /\ UNCHANGED <<updates, skill, nextId, begun, faults>>

Inserting(r) == request[r].step \in {"rebuild", "commit"}

InsertUnconstrained(r) ==   \* mutant: no unique constraint on the evaluation
    /\ At(r, "insert")
    /\ nextId' = nextId + 1
    /\ request' = [request EXCEPT ![r].step = "rebuild", ![r].id = nextId]
    /\ UNCHANGED <<updates, skill, lock, begun, faults>>

\* The unique index waits for a transaction that has inserted the same evaluation
\* and not ended; if one has committed meanwhile, the insert fails and rolls back.
Insert(r) ==
    /\ At(r, "insert")
    /\ \A s \in Requests \ {r} :
         ~(Inserting(s) /\ request[s].evaluation = request[r].evaluation)
    /\ nextId' = nextId + 1
    /\ IF Persisted(request[r].evaluation)
       THEN Release(r) /\ GoTo(r, "resolve")
       ELSE /\ request' = [request EXCEPT ![r].step = "rebuild", ![r].id = nextId]
            /\ UNCHANGED lock
    /\ UNCHANGED <<updates, skill, begun, faults>>

RebuildUnflushed(r) ==   \* mutant: its own evidence is not flushed yet
    /\ At(r, "rebuild")
    /\ request' = [request EXCEPT ![r].step = "commit",
                                  ![r].seen = Evidence(request[r].learner),
                                  ![r].revision = skill[request[r].learner].revision + 1]
    /\ UNCHANGED <<updates, skill, lock, nextId, begun, faults>>

\* All evidence of the learner, its own included, is read and replayed, and the
\* planner decides on the result.
Rebuild(r) ==
    LET l == request[r].learner IN
    /\ At(r, "rebuild")
    /\ request' = [request EXCEPT ![r].step = "commit",
                                  ![r].seen = Evidence(l) \cup {request[r].evaluation},
                                  ![r].revision = skill[l].revision + 1]
    /\ UNCHANGED <<updates, skill, lock, nextId, begun, faults>>

\* The update, evidence, skill states and recommendation become visible at once.
Persist(r) ==
    LET q == request[r] IN
    /\ updates' = updates \cup {[id |-> q.id, learner |-> q.learner,
                                 evaluation |-> q.evaluation, snapshot |-> q.seen]}
    /\ skill' = [skill EXCEPT ![q.learner] = [evidence |-> q.seen, revision |-> q.revision]]

Commit(r) ==
    /\ At(r, "commit")
    /\ Persist(r)
    /\ Release(r)
    /\ Answered(r, "applied")
    /\ UNCHANGED <<nextId, begun, faults>>

ResolveRaw(r) ==   \* mutant: answers with the owner instead of comparing it
    /\ At(r, "resolve")
    /\ \E u \in updates : u.evaluation = request[r].evaluation /\ Answered(r, u.learner)
    /\ UNCHANGED <<updates, skill, lock, nextId, begun, faults>>

\* _resolve_existing: a replay, or a conflict with the learner it belongs to.
Resolve(r) ==
    /\ At(r, "resolve")
    /\ \E u \in updates :
         /\ u.evaluation = request[r].evaluation
         /\ Answered(r, IF u.learner = request[r].learner THEN "reused" ELSE "cross_owner")
    /\ UNCHANGED <<updates, skill, lock, nextId, begun, faults>>

\* A database error, a dead server or a cancelled call ends the transaction: it
\* rolls back, or had committed when the connection was lost.
Fail(r) ==
    /\ request[r].step \notin {"idle", "done"}
    /\ faults < MaxFaults /\ faults' = faults + 1
    /\ \/ UNCHANGED <<updates, skill>>
       \/ At(r, "commit") /\ Persist(r)
    /\ Release(r)
    /\ Answered(r, "error")
    /\ UNCHANGED <<nextId, begun>>

Serve(r) == AcquireLock(r) \/ Recheck(r) \/ Insert(r) \/ Rebuild(r) \/ Commit(r) \/ Resolve(r)

Next ==
    \/ \E r \in Requests, l \in Learners, e \in Evaluations : Start(r, l, e)
    \/ \E r \in Requests : Serve(r)
    \/ \E r \in Requests : Fail(r)

Spec == Init /\ [][Next]_vars

-----------------------------------------------------------------------------
(***************************************************************************)
(* Properties                                                              *)
(***************************************************************************)

Of(l) == {u \in updates : u.learner = l}

\* No update is lost: a learner's skill states are rebuilt from exactly the evidence
\* of all of its updates, and have been rebuilt once for each, however its calls
\* overlapped and failed.
StateReplaysEvidence ==
    \A l \in Learners : /\ skill[l].evidence = Evidence(l)
                        /\ skill[l].revision = Cardinality(Of(l))

\* A recommendation was decided on the evidence of exactly the learner's updates with
\* ids up to its own update's, so the largest id is decided on everything and a
\* decision can be reconstructed from ids alone.
SnapshotsFollowIds ==
    \A u \in updates :
      u.snapshot = {v.evaluation : v \in {w \in Of(u.learner) : w.id <= u.id}}

\* Each evaluation is applied once, to one learner, and "applied", "reused" and
\* "cross_owner" are true when they are said and ever after.
Told ==
    {<<request[r].learner, request[r].evaluation,
       IF request[r].answer = "cross_owner" THEN "theirs" ELSE "mine">> :
     r \in {q \in Requests : /\ At(q, "done")
                             /\ request[q].answer \in {"applied", "reused", "cross_owner"}}}
OneOwner == INSTANCE OneOwnerApplication
              WITH applied <- {<<u.learner, u.evaluation>> : u \in updates}, told <- Told
ImplementsOneOwner == OneOwner!Spec

\* Who waits for whom: for the learner's row, and for the index entry of an evaluation.
WaitsFor(r, s) ==
    /\ r # s
    /\ \/ At(r, "lock") /\ lock[request[r].learner] = s
       \/ At(r, "insert") /\ Inserting(s) /\ request[s].evaluation = request[r].evaluation

\* Every wait ends.  Whoever is waited for is in the middle of its own transaction and
\* waits itself for nobody, or for one that waits for nobody: locks and index entries
\* are given up by all that are answered, replays and failures included, and no ring
\* of calls holds what the next one wants.
WaitsEnd ==
    \A r, s \in Requests :
      WaitsFor(r, s) =>
        /\ request[s].step \notin {"idle", "done", "resolve"}
        /\ \A t \in Requests :
             WaitsFor(s, t) => /\ request[t].step \notin {"idle", "done", "resolve"}
                               /\ \A q \in Requests : ~WaitsFor(t, q)
=============================================================================

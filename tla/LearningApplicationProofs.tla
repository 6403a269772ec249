--------------------- MODULE LearningApplicationProofs ---------------------
(***************************************************************************)
(* Proofs about LearningApplication for every number of learners,          *)
(* evaluations and calls, and any number of transactions and faults.       *)
(***************************************************************************)
EXTENDS LearningApplication, FiniteSetTheorems, TLAPS

(***************************************************************************)
(* The inductive invariant.  What the skill states and snapshots say       *)
(* follows from what is true of a call while it holds its learner's lock:  *)
(* nobody else changes the learner's updates, so the evidence the call     *)
(* replayed is still all there is when it commits, and its id is still the *)
(* largest.                                                                *)
(***************************************************************************)
Holding(r) == request[r].step \in {"check", "insert", "rebuild", "commit"}

CallOK(r) ==
    LET q == request[r] IN
    /\ Holding(r) => lock[q.learner] = r
    /\ Inserting(r) => /\ q.id < nextId
                       /\ ~Persisted(q.evaluation)
                       /\ \A u \in Of(q.learner) : u.id < q.id
    /\ At(r, "commit") => /\ q.seen = Evidence(q.learner) \cup {q.evaluation}
                          /\ q.revision = skill[q.learner].revision + 1
    /\ At(r, "done") /\ q.answer \in {"applied", "reused"}
         => \E u \in updates : u.evaluation = q.evaluation /\ u.learner = q.learner
    /\ At(r, "done") /\ q.answer = "cross_owner"
         => \E u \in updates : u.evaluation = q.evaluation /\ u.learner # q.learner

\* The unique index: no two open transactions have inserted one evaluation.
InsertsDistinct ==
    \A r, s \in Requests : r # s /\ Inserting(r) /\ Inserting(s)
                             => request[r].evaluation # request[s].evaluation

AppliedOnce == \A u, v \in updates : u.evaluation = v.evaluation => u = v
IdsBelow == \A u \in updates : u.id < nextId

IInv ==
    /\ TypeOK
    /\ IsFiniteSet(updates)
    /\ AppliedOnce
    /\ IdsBelow
    /\ StateReplaysEvidence
    /\ SnapshotsFollowIds
    /\ InsertsDistinct
    /\ \A r \in Requests : CallOK(r)

-----------------------------------------------------------------------------
(***************************************************************************)
(* Types                                                                   *)
(***************************************************************************)

\* A call that is not idle has every field of a call.
LEMMA BusyCall ==
    ASSUME TypeOK, NEW r \in Requests, request[r].step # "idle"
    PROVE  request[r] \in Call
BY DEF TypeOK, Idle

\* Moving a busy call to another step keeps it a call.
LEMMA GoToType ==
    ASSUME TypeOK, NEW r \in Requests, request[r].step # "idle", NEW s \in Steps, GoTo(r, s)
    PROVE  request' \in [Requests -> Call \cup {Idle}]
<1>1. request[r] \in Call
  BY BusyCall
<1>2. [request[r] EXCEPT !.step = s] \in Call
  BY <1>1 DEF Call
<1> QED
  BY <1>1, <1>2 DEF TypeOK, GoTo

\* Nothing else of it changes.
LEMMA GoToStep ==
    ASSUME TypeOK, NEW r \in Requests, request[r].step # "idle", NEW s \in Steps, GoTo(r, s)
    PROVE  /\ request'[r].step = s
           /\ request'[r].learner = request[r].learner
           /\ request'[r].evaluation = request[r].evaluation
<1>1. request[r] \in Call
  BY BusyCall
<1>2. request'[r] = [request[r] EXCEPT !.step = s]
  BY DEF TypeOK, GoTo
<1> QED
  BY <1>1, <1>2 DEF Call

\* Answering a busy call keeps it a call.
LEMMA AnsweredType ==
    ASSUME TypeOK, NEW r \in Requests, request[r].step # "idle", NEW a \in Answers,
           Answered(r, a)
    PROVE  request' \in [Requests -> Call \cup {Idle}]
<1>1. request[r] \in Call
  BY BusyCall
<1>2. [request[r] EXCEPT !.step = "done", !.id = 0, !.seen = {}, !.revision = 0, !.answer = a]
        \in Call
  BY <1>1 DEF Call, Steps
<1> QED
  BY <1>1, <1>2 DEF TypeOK, Answered

\* Giving up locks keeps the lock table one.
LEMMA ReleaseType ==
    ASSUME TypeOK, NEW r \in Requests, Release(r)
    PROVE  lock' \in [Learners -> Requests \cup {None}]
BY DEF TypeOK, Release

\* A committed transaction leaves updates and skill states of their types.
LEMMA PersistType ==
    ASSUME TypeOK, NEW r \in Requests, At(r, "commit"), Persist(r)
    PROVE  updates' \subseteq Update /\ skill' \in [Learners -> Skill]
<1>1. request[r] \in Call
  BY BusyCall DEF At
<1>2. [id |-> request[r].id, learner |-> request[r].learner,
       evaluation |-> request[r].evaluation,
       snapshot |-> request[r].seen] \in Update
  BY <1>1 DEF Call, Update
<1>3. [evidence |-> request[r].seen, revision |-> request[r].revision] \in Skill
  BY <1>1 DEF Call, Skill
<1> QED
  BY <1>1, <1>2, <1>3 DEF TypeOK, Persist

\* Every step keeps the types.
LEMMA TypeStep == TypeOK /\ [Next]_vars => TypeOK'
<1> SUFFICES ASSUME TypeOK, [Next]_vars PROVE TypeOK'
  OBVIOUS
<1>1. ASSUME NEW r \in Requests, NEW l \in Learners, NEW e \in Evaluations, Start(r, l, e)
      PROVE  TypeOK'
  <2> DEFINE q == [step |-> IF e \in Usable THEN "lock" ELSE "done",
                   learner |-> l, evaluation |-> e, id |-> 0,
                   seen |-> {}, revision |-> 0,
                   answer |-> IF e \in Usable THEN None ELSE "refused"]
  <2>1. begun' \in 0..MaxCalls
    BY <1>1, BoundAssumption DEF Start, TypeOK
  <2>2. q \in Call
    BY <2>1 DEF Call, Steps, Answers
  <2>3. request' = [request EXCEPT ![r] = q]
    BY <1>1 DEF Start
  <2> HIDE DEF q
  <2>4. request' \in [Requests -> Call \cup {Idle}]
    BY <2>2, <2>3 DEF TypeOK
  <2> QED
    BY <1>1, <2>1, <2>4 DEF Start, TypeOK
<1>2. ASSUME NEW r \in Requests, AcquireLock(r) PROVE TypeOK'
  <2>1. request[r] \in Call /\ request' \in [Requests -> Call \cup {Idle}]
    BY <1>2, BusyCall, GoToType DEF AcquireLock, At, Steps
  <2>2. lock' \in [Learners -> Requests \cup {None}]
    BY <1>2, <2>1 DEF AcquireLock, TypeOK, Call
  <2> QED
    BY <1>2, <2>1, <2>2 DEF AcquireLock, TypeOK
<1>3. ASSUME NEW r \in Requests, Recheck(r) PROVE TypeOK'
  <2>1. request' \in [Requests -> Call \cup {Idle}]
    BY <1>3, GoToType DEF Recheck, At, Steps
  <2>2. lock' \in [Learners -> Requests \cup {None}]
    BY <1>3, ReleaseType DEF Recheck, TypeOK
  <2> QED
    BY <1>3, <2>1, <2>2 DEF Recheck, TypeOK
<1>4. ASSUME NEW r \in Requests, Insert(r) PROVE TypeOK'
  <2>1. request[r] \in Call
    BY <1>4, BusyCall DEF Insert, At
  <2>2. [request[r] EXCEPT !.step = "rebuild", !.id = nextId] \in Call
    BY <2>1 DEF Call, Steps, TypeOK
  <2>3. request' \in [Requests -> Call \cup {Idle}]
    BY <1>4, <2>2, GoToType DEF Insert, At, Steps, TypeOK
  <2>4. lock' \in [Learners -> Requests \cup {None}]
    BY <1>4, ReleaseType DEF Insert, TypeOK
  <2> QED
    BY <1>4, <2>3, <2>4 DEF Insert, TypeOK
<1>5. ASSUME NEW r \in Requests, Rebuild(r) PROVE TypeOK'
  <2> DEFINE l == request[r].learner
             seen == Evidence(l) \cup {request[r].evaluation}
             next == skill[l].revision + 1
  <2>1. request[r] \in Call
    BY <1>5, BusyCall DEF Rebuild, At
  <2>2. seen \in SUBSET Evaluations /\ next \in Nat
    BY <2>1 DEF Call, Evidence, TypeOK, Update, Skill
  <2>3. request' = [request EXCEPT ![r] = [request[r] EXCEPT !.step = "commit", !.seen = seen,
                                                             !.revision = next]]
    BY <1>5 DEF Rebuild
  <2> HIDE DEF l, seen, next
  <2>4. [request[r] EXCEPT !.step = "commit", !.seen = seen, !.revision = next] \in Call
    BY <2>1, <2>2 DEF Call, Steps
  <2> QED
    BY <1>5, <2>3, <2>4 DEF Rebuild, TypeOK
<1>6. ASSUME NEW r \in Requests, Commit(r) PROVE TypeOK'
  <2>1. request' \in [Requests -> Call \cup {Idle}]
    BY <1>6, AnsweredType DEF Commit, At, Answers
  <2> QED
    BY <1>6, <2>1, PersistType, ReleaseType DEF Commit, TypeOK
<1>7. ASSUME NEW r \in Requests, Resolve(r) PROVE TypeOK'
  <2>1. request' \in [Requests -> Call \cup {Idle}]
    BY <1>7, AnsweredType DEF Resolve, At, Answers
  <2> QED
    BY <1>7, <2>1 DEF Resolve, TypeOK
<1>8. ASSUME NEW r \in Requests, Fail(r) PROVE TypeOK'
  <2>1. request' \in [Requests -> Call \cup {Idle}]
    BY <1>8, AnsweredType DEF Fail, Answers
  <2>2. updates' \subseteq Update /\ skill' \in [Learners -> Skill]
    BY <1>8, PersistType DEF Fail, TypeOK
  <2>3. faults' \in 0..MaxFaults
    BY <1>8, BoundAssumption DEF Fail, TypeOK
  <2> QED
    BY <1>8, <2>1, <2>2, <2>3, ReleaseType DEF Fail, TypeOK
<1>9. CASE UNCHANGED vars
  BY <1>9 DEF vars, TypeOK
<1> QED
  BY <1>1, <1>2, <1>3, <1>4, <1>5, <1>6, <1>7, <1>8, <1>9 DEF Next, Serve

-----------------------------------------------------------------------------
(***************************************************************************)
(* Steps that leave updates and skill states alone                         *)
(***************************************************************************)

\* The two persistent variables stay, and no call other than r loses a lock.
Quiet(r) ==
    /\ UNCHANGED <<updates, skill>>
    /\ nextId' \in {nextId, nextId + 1}
    /\ \A l \in Learners, s \in Requests \ {r} : lock[l] = s => lock'[l] = s
    /\ \A s \in Requests \ {r} : request'[s] = request[s]

\* Of and Evidence depend on the updates alone.
LEMMA SameUpdates ==
    ASSUME updates' = updates, NEW l \in Learners
    PROVE  Of(l)' = Of(l) /\ Evidence(l)' = Evidence(l)
BY DEF Of, Evidence

\* A quiet step of r keeps what is true of another call.
LEMMA QuietOther ==
    ASSUME TypeOK, NEW r \in Requests, Quiet(r), NEW s \in Requests \ {r}, CallOK(s)
    PROVE  CallOK(s)'
<1>1. CASE request[s].step = "idle"
  BY <1>1 DEF Quiet, CallOK, Holding, Inserting, At
<1>2. CASE request[s].step # "idle"
  <2>1. request[s] \in Call /\ request'[s] = request[s]
    BY <1>2, BusyCall DEF Quiet
  <2>2. request[s].learner \in Learners /\ request[s].id \in Nat /\ nextId \in Nat
    BY <2>1 DEF Call, TypeOK
  <2>3. Of(request[s].learner)' = Of(request[s].learner)
        /\ Evidence(request[s].learner)' = Evidence(request[s].learner)
    BY <2>1, <2>2, SameUpdates DEF Quiet, Of, Evidence
  <2>4. nextId' >= nextId
    BY <2>2 DEF Quiet
  <2>5. (Holding(s) => lock[request[s].learner] = s)'
    BY <2>1, <2>2 DEF Quiet, CallOK, Holding
  <2>6. (Inserting(s) => /\ request[s].id < nextId
                         /\ ~Persisted(request[s].evaluation)
                         /\ \A u \in Of(request[s].learner) : u.id < request[s].id)'
    <3>1. (Inserting(s) => request[s].id < nextId)'
      BY <2>1, <2>2, <2>4 DEF Quiet, CallOK, Inserting
    <3>2. (Inserting(s) => ~Persisted(request[s].evaluation))'
      BY <2>1 DEF Quiet, CallOK, Inserting, Persisted
    <3>3. (Inserting(s) => \A u \in Of(request[s].learner) : u.id < request[s].id)'
      BY <2>1, <2>3 DEF CallOK, Inserting
    <3> QED
      BY <3>1, <3>2, <3>3
  <2>7. (At(s, "commit") =>
           /\ request[s].seen = Evidence(request[s].learner) \cup {request[s].evaluation}
           /\ request[s].revision = skill[request[s].learner].revision + 1)'
    BY <2>1, <2>3 DEF Quiet, CallOK, At
  <2>8. (At(s, "done") /\ request[s].answer \in {"applied", "reused"}
          => \E u \in updates : u.evaluation = request[s].evaluation
                                /\ u.learner = request[s].learner)'
    BY <2>1 DEF Quiet, CallOK, At
  <2>9. (At(s, "done") /\ request[s].answer = "cross_owner"
          => \E u \in updates : u.evaluation = request[s].evaluation
                                /\ u.learner # request[s].learner)'
    BY <2>1 DEF Quiet, CallOK, At
  <2> QED
    BY <2>5, <2>6, <2>7, <2>8, <2>9 DEF CallOK
<1> QED
  BY <1>1, <1>2

\* A quiet step after which r itself is as it should be keeps the invariant, unless
\* r enters an evaluation that another open transaction has inserted.
LEMMA QuietStep ==
    ASSUME IInv, TypeOK', NEW r \in Requests, Quiet(r), CallOK(r)',
           Inserting(r)' => /\ request'[r].evaluation = request[r].evaluation
                            /\ \A s \in Requests \ {r} :
                                 ~(Inserting(s) /\ request[s].evaluation = request[r].evaluation)
    PROVE  IInv'
<1>1. (\A s \in Requests : CallOK(s))'
  BY QuietOther DEF IInv
<1>2. InsertsDistinct'
  <2> SUFFICES ASSUME NEW s \in Requests, NEW t \in Requests, s # t,
                      Inserting(s)', Inserting(t)'
               PROVE  request'[s].evaluation # request'[t].evaluation
    BY DEF InsertsDistinct
  <2>1. CASE s # r /\ t # r
    BY <2>1 DEF Quiet, IInv, InsertsDistinct, Inserting
  <2>2. CASE s = r
    BY <2>2 DEF Quiet, Inserting
  <2>3. CASE t = r
    BY <2>3 DEF Quiet, Inserting
  <2> QED
    BY <2>1, <2>2, <2>3
<1>3. IdsBelow'
  <2>1. \A u \in updates : u.id \in Nat
    BY DEF IInv, TypeOK, Update
  <2> QED
    BY <2>1 DEF Quiet, IInv, IdsBelow, TypeOK
<1>4. StateReplaysEvidence' /\ SnapshotsFollowIds' /\ AppliedOnce' /\ IsFiniteSet(updates)'
  BY DEF Quiet, IInv, StateReplaysEvidence, SnapshotsFollowIds, AppliedOnce, Of, Evidence
<1> QED
  BY <1>1, <1>2, <1>3, <1>4 DEF IInv

\* Two calls cannot both hold one learner.
LEMMA OneHolder ==
    ASSUME IInv, NEW r \in Requests, NEW s \in Requests, r # s, Holding(r), Holding(s)
    PROVE  request[r].learner # request[s].learner
BY DEF IInv, CallOK

\* r gives up its locks and nobody else's.
LEMMA ReleaseKeeps ==
    ASSUME NEW r \in Requests, Release(r), NEW l \in Learners, NEW s \in Requests \ {r},
           lock[l] = s
    PROVE  lock'[l] = s
BY DEF Release
-----------------------------------------------------------------------------
(***************************************************************************)
(* The steps before a commit, one lemma each                               *)
(***************************************************************************)

LEMMA StartKeeps ==
    ASSUME IInv, TypeOK', NEW r \in Requests, NEW l \in Learners, NEW e \in Evaluations,
           Start(r, l, e)
    PROVE  IInv'
<1>1. request'[r].step \in {"lock", "done"} /\ request'[r].answer \in {None, "refused"}
  BY DEF IInv, TypeOK, Start
<1>2. request'[r].step = "done" => request'[r].answer = "refused"
  BY DEF IInv, TypeOK, Start
<1>3. CallOK(r)' /\ ~Inserting(r)'
  BY <1>1, <1>2 DEF CallOK, Holding, Inserting, At
<1>4. Quiet(r)
  BY DEF IInv, TypeOK, Start, Quiet
<1> QED
  BY <1>3, <1>4, QuietStep

LEMMA AcquireLockKeeps ==
    ASSUME IInv, TypeOK', NEW r \in Requests, AcquireLock(r)
    PROVE  IInv'
<1> DEFINE l == request[r].learner
<1>1. request[r] \in Call /\ request'[r].step = "check" /\ request'[r].learner = l
  BY BusyCall DEF IInv, TypeOK, AcquireLock, GoTo, At
<1>2. l \in Learners /\ lock'[l] = r
  BY <1>1 DEF IInv, TypeOK, AcquireLock, Call
<1>3. CallOK(r)' /\ ~Inserting(r)'
  BY <1>1, <1>2 DEF CallOK, Holding, Inserting, At
<1>4. \A m \in Learners, s \in Requests \ {r} : lock[m] = s => lock'[m] = s
  BY <1>2, NullAssumption DEF IInv, TypeOK, AcquireLock
<1>5. Quiet(r)
  BY <1>4 DEF IInv, TypeOK, AcquireLock, GoTo, Quiet
<1> QED
  BY <1>3, <1>5, QuietStep

LEMMA RecheckKeeps ==
    ASSUME IInv, TypeOK', NEW r \in Requests, Recheck(r)
    PROVE  IInv'
<1>1. request'[r].learner = request[r].learner /\ request'[r].step \in {"resolve", "insert"}
  BY GoToStep DEF IInv, Recheck, At, Steps
<1>2. request'[r].step = "insert" => lock' = lock
  BY GoToStep DEF IInv, Recheck, At, Steps
<1>3. lock[request[r].learner] = r
  BY DEF IInv, CallOK, Holding, Recheck, At
<1>4. CallOK(r)' /\ ~Inserting(r)'
  BY <1>1, <1>2, <1>3 DEF CallOK, Holding, Inserting, At
<1>5. \A m \in Learners, s \in Requests \ {r} : lock[m] = s => lock'[m] = s
  BY ReleaseKeeps DEF Recheck
<1>6. Quiet(r)
  BY <1>5 DEF IInv, TypeOK, Recheck, GoTo, Quiet
<1> QED
  BY <1>4, <1>6, QuietStep

\* The new id is above every id in use, and the index has let this evaluation in.
LEMMA InsertKeeps ==
    ASSUME IInv, TypeOK', NEW r \in Requests, Insert(r)
    PROVE  IInv'
<1> DEFINE l == request[r].learner
<1>1. request[r] \in Call /\ l \in Learners /\ nextId \in Nat /\ nextId' = nextId + 1
  BY BusyCall DEF IInv, TypeOK, Insert, At, Call
<1>2. \A m \in Learners, s \in Requests \ {r} : lock[m] = s => lock'[m] = s
  BY ReleaseKeeps DEF Insert
<1>3. Quiet(r)
  BY <1>1, <1>2 DEF IInv, TypeOK, Insert, GoTo, Quiet
<1>4. CASE Persisted(request[r].evaluation)
  <2>1. request'[r].step = "resolve"
    BY <1>4, GoToStep DEF IInv, Insert, At, Steps
  <2>2. CallOK(r)' /\ ~Inserting(r)'
    BY <2>1 DEF CallOK, Holding, Inserting, At
  <2> QED
    BY <1>3, <2>2, QuietStep
<1>5. CASE ~Persisted(request[r].evaluation)
  <2>1. /\ request'[r].step = "rebuild" /\ request'[r].id = nextId
        /\ request'[r].learner = l /\ request'[r].evaluation = request[r].evaluation
        /\ lock' = lock /\ updates' = updates
    BY <1>1, <1>5 DEF IInv, TypeOK, Insert, Call
  <2>2. lock[l] = r
    BY DEF IInv, CallOK, Holding, Insert, At
  <2>3. \A u \in Of(l) : u.id < nextId
    BY DEF IInv, IdsBelow, Of
  <2>4. ~Persisted(request[r].evaluation)'
    BY <1>5, <2>1 DEF Persisted
  <2>5. CallOK(r)'
    BY <1>1, <2>1, <2>2, <2>3, <2>4 DEF CallOK, Holding, Inserting, At, Of, Persisted
  <2>6. \A s \in Requests \ {r} :
          ~(Inserting(s) /\ request[s].evaluation = request[r].evaluation)
    BY DEF Insert
  <2> QED
    BY <1>3, <2>1, <2>5, <2>6, QuietStep
<1> QED
  BY <1>4, <1>5

LEMMA RebuildKeeps ==
    ASSUME IInv, TypeOK', NEW r \in Requests, Rebuild(r)
    PROVE  IInv'
<1> DEFINE l == request[r].learner
<1>1. request[r] \in Call /\ l \in Learners
  BY BusyCall DEF IInv, TypeOK, Rebuild, At, Call
<1>2. /\ request'[r].step = "commit" /\ request'[r].id = request[r].id
      /\ request'[r].learner = l /\ request'[r].evaluation = request[r].evaluation
      /\ request'[r].seen = Evidence(l) \cup {request[r].evaluation}
      /\ request'[r].revision = skill[l].revision + 1
  BY <1>1 DEF IInv, TypeOK, Rebuild, Call
<1>3. Quiet(r)
  BY DEF IInv, TypeOK, Rebuild, Quiet
<1>4. Inserting(r) /\ Holding(r)
  BY DEF Rebuild, Inserting, Holding, At
<1>5. /\ lock[l] = r /\ request[r].id < nextId /\ ~Persisted(request[r].evaluation)
      /\ \A u \in Of(l) : u.id < request[r].id
  BY <1>4 DEF IInv, CallOK
<1>6. lock' = lock /\ nextId' = nextId /\ updates' = updates /\ skill' = skill
  BY DEF Rebuild
<1>7. CallOK(r)'
  BY <1>1, <1>2, <1>5, <1>6 DEF CallOK, Holding, Inserting, At, Of, Persisted, Evidence
<1>8. \A s \in Requests \ {r} :
        ~(Inserting(s) /\ request[s].evaluation = request[r].evaluation)
  BY <1>4 DEF IInv, InsertsDistinct
<1> QED
  BY <1>2, <1>3, <1>7, <1>8, QuietStep

LEMMA ResolveKeeps ==
    ASSUME IInv, TypeOK', NEW r \in Requests, Resolve(r)
    PROVE  IInv'
<1>1. request[r] \in Call
  BY BusyCall DEF IInv, TypeOK, Resolve, At
<1>2. PICK u \in updates :
        /\ u.evaluation = request[r].evaluation
        /\ Answered(r, IF u.learner = request[r].learner THEN "reused" ELSE "cross_owner")
  BY DEF Resolve
<1>3. /\ request'[r].step = "done" /\ request'[r].learner = request[r].learner
      /\ request'[r].evaluation = request[r].evaluation
      /\ request'[r].answer = IF u.learner = request[r].learner THEN "reused"
                              ELSE "cross_owner"
  BY <1>1, <1>2 DEF IInv, TypeOK, Answered, Call
<1>4. u \in updates'
  BY DEF Resolve
<1>5. CallOK(r)' /\ ~Inserting(r)'
  BY <1>2, <1>3, <1>4 DEF CallOK, Holding, Inserting, At
<1>6. Quiet(r)
  BY <1>2 DEF IInv, TypeOK, Resolve, Answered, Quiet
<1> QED
  BY <1>5, <1>6, QuietStep

\* A transaction that rolls back leaves nothing but a gap in the ids.
LEMMA RollbackKeeps ==
    ASSUME IInv, TypeOK', NEW r \in Requests, Fail(r), UNCHANGED <<updates, skill>>
    PROVE  IInv'
<1>1. request'[r].step = "done" /\ request'[r].answer = "error"
  <2>1. request[r] \in Call
    BY BusyCall DEF IInv, TypeOK, Fail
  <2> QED
    BY <2>1 DEF IInv, TypeOK, Fail, Answered, Call
<1>2. CallOK(r)' /\ ~Inserting(r)'
  BY <1>1 DEF CallOK, Holding, Inserting, At
<1>3. \A m \in Learners, s \in Requests \ {r} : lock[m] = s => lock'[m] = s
  BY ReleaseKeeps DEF Fail
<1>4. Quiet(r)
  BY <1>3 DEF IInv, TypeOK, Fail, Answered, Quiet
<1> QED
  BY <1>2, <1>4, QuietStep
-----------------------------------------------------------------------------
(***************************************************************************)
(* The commit                                                              *)
(***************************************************************************)

\* What a commit adds for its learner l and evaluation e.
LEMMA PersistAdds ==
    ASSUME IInv, NEW r \in Requests, At(r, "commit"), Persist(r),
           NEW l, l = request[r].learner
    PROVE  \E u :
             /\ u \in Update /\ u \notin updates /\ updates' = updates \cup {u}
             /\ u.id = request[r].id /\ u.learner = l
             /\ u.evaluation = request[r].evaluation /\ u.snapshot = request[r].seen
             /\ Of(l)' = Of(l) \cup {u}
             /\ \A m \in Learners \ {l} : Of(m)' = Of(m)
<1> DEFINE q == request[r]
           u == [id |-> q.id, learner |-> q.learner, evaluation |-> q.evaluation,
                 snapshot |-> q.seen]
<1>1. q \in Call
  BY BusyCall DEF IInv, At
<1>2. u \in Update
  BY <1>1 DEF Call, Update
<1>3. updates' = updates \cup {u}
  BY DEF Persist
<1>4. u \notin updates
  BY DEF IInv, CallOK, Inserting, Persisted, At
<1>5. Of(l)' = Of(l) \cup {u}
  BY <1>3 DEF Of
<1>6. \A m \in Learners \ {l} : Of(m)' = Of(m)
  BY <1>3 DEF Of
<1>7. u.id = q.id /\ u.learner = l /\ u.evaluation = q.evaluation
      /\ u.snapshot = q.seen
  OBVIOUS
<1> HIDE DEF u
<1> QED
  BY <1>2, <1>3, <1>4, <1>5, <1>6, <1>7

\* A learner's evidence is that of its updates.
LEMMA EvidenceOf == \A l : Evidence(l) = {u.evaluation : u \in Of(l)}
BY DEF Evidence, Of

\* The skill states still replay all the evidence, once for each update.
LEMMA PersistReplays ==
    ASSUME IInv, NEW r \in Requests, At(r, "commit"), Persist(r),
           NEW l, l = request[r].learner
    PROVE  StateReplaysEvidence' /\ IsFiniteSet(updates')
<1> DEFINE q == request[r]
<1>1. q \in Call /\ l \in Learners
  BY BusyCall DEF IInv, At, Call
<1>2. PICK u : /\ u \notin updates /\ updates' = updates \cup {u}
               /\ u.evaluation = q.evaluation
               /\ Of(l)' = Of(l) \cup {u}
               /\ \A m \in Learners \ {l} : Of(m)' = Of(m)
  BY PersistAdds
<1>3. IsFiniteSet(updates')
  BY <1>2, FS_AddElement DEF IInv
<1>4. q.seen = Evidence(l) \cup {q.evaluation} /\ q.revision = skill[l].revision + 1
  BY DEF IInv, CallOK
<1>5. skill'[l] = [evidence |-> q.seen, revision |-> q.revision]
      /\ \A m \in Learners \ {l} : skill'[m] = skill[m]
  BY <1>1 DEF Persist, IInv, TypeOK
<1>6. ASSUME NEW m \in Learners \ {l}
      PROVE  skill'[m].evidence = Evidence(m)' /\ skill'[m].revision = Cardinality(Of(m)')
  <2>1. Evidence(m)' = Evidence(m)
    BY <1>2, <1>6, EvidenceOf DEF Evidence, Of
  <2> QED
    BY <1>2, <1>5, <1>6, <2>1 DEF IInv, StateReplaysEvidence
<1>7. skill'[l].evidence = Evidence(l)'
  <2>1. Evidence(l)' = Evidence(l) \cup {q.evaluation}
    <3>1. Evidence(l)' = {v.evaluation : v \in Of(l)'}
      BY DEF Evidence, Of
    <3> QED
      BY <1>2, <3>1, EvidenceOf
  <2> QED
    BY <1>4, <1>5, <2>1
<1>8. skill'[l].revision = Cardinality(Of(l)')
  <2>1. IsFiniteSet(Of(l)) /\ u \notin Of(l)
    BY <1>2, FS_Subset DEF IInv, Of
  <2>2. Cardinality(Of(l) \cup {u}) = Cardinality(Of(l)) + 1
    BY <2>1, FS_AddElement
  <2> QED
    BY <1>1, <1>2, <1>4, <1>5, <2>2 DEF IInv, StateReplaysEvidence
<1>9. StateReplaysEvidence'
  <2> SUFFICES ASSUME NEW m \in Learners
               PROVE  skill'[m].evidence = Evidence(m)'
                      /\ skill'[m].revision = Cardinality(Of(m)')
    BY DEF StateReplaysEvidence
  <2> QED
    BY <1>6, <1>7, <1>8
<1> QED
  BY <1>3, <1>9

\* The new update has the largest id of its learner's, so every earlier snapshot is
\* still of the updates up to its id, and the new one is of all of them.
LEMMA PersistSnapshots ==
    ASSUME IInv, TypeOK', NEW r \in Requests, At(r, "commit"), Persist(r),
           NEW l, l = request[r].learner
    PROVE  SnapshotsFollowIds'
<1> DEFINE q == request[r]
<1>1. q \in Call /\ l \in Learners /\ q.id \in Nat
  BY BusyCall DEF IInv, At, Call
<1>2. PICK u : /\ u \in Update /\ u \notin updates /\ updates' = updates \cup {u}
               /\ u.id = q.id /\ u.learner = l /\ u.evaluation = q.evaluation
               /\ u.snapshot = q.seen
               /\ Of(l)' = Of(l) \cup {u}
               /\ \A m \in Learners \ {l} : Of(m)' = Of(m)
  BY PersistAdds
<1>3. \A v \in Of(l) : v.id \in Nat /\ v.id < u.id
  BY <1>2 DEF IInv, CallOK, Inserting, At, Of, TypeOK, Update
<1> SUFFICES ASSUME NEW w \in updates'
             PROVE  w.snapshot = {v.evaluation : v \in {x \in Of(w.learner)' : x.id <= w.id}}
  BY DEF SnapshotsFollowIds
<1>4. CASE w = u
  <2>1. {x \in Of(l)' : x.id <= u.id} = Of(l) \cup {u}
    BY <1>1, <1>2, <1>3
  <2>2. q.seen = Evidence(l) \cup {q.evaluation}
    BY DEF IInv, CallOK
  <2>3. q.seen = {v.evaluation : v \in Of(l) \cup {u}}
    BY <1>2, <2>2, EvidenceOf
  <2> QED
    BY <1>2, <1>4, <2>1, <2>3
<1>5. CASE w \in updates
  <2>1. w.learner \in Learners /\ w.id \in Nat
    BY <1>5 DEF IInv, TypeOK, Update
  <2>2. {x \in Of(w.learner)' : x.id <= w.id} = {x \in Of(w.learner) : x.id <= w.id}
    <3>1. CASE w.learner = l
      <4>1. w.id < u.id
        BY <1>3, <1>5, <3>1 DEF Of
      <4> QED
        BY <1>1, <1>2, <2>1, <3>1, <4>1
    <3>2. CASE w.learner # l
      BY <1>2, <2>1, <3>2
    <3> QED
      BY <3>1, <3>2
  <2>3. w.snapshot = {v.evaluation : v \in {x \in Of(w.learner) : x.id <= w.id}}
    BY <1>5 DEF IInv, SnapshotsFollowIds
  <2> QED
    BY <2>2, <2>3
<1> QED
  BY <1>2, <1>4, <1>5
\* Another call holds another learner and has inserted another evaluation, so the
\* commit does not disturb it; what it was told stays true.
LEMMA PersistOther ==
    ASSUME IInv, NEW r \in Requests, At(r, "commit"), Persist(r), Release(r),
           nextId' = nextId, NEW s \in Requests \ {r}, request'[s] = request[s]
    PROVE  CallOK(s)'
<1>1. PICK l : l = request[r].learner
  OBVIOUS
<1>2. PICK u : /\ updates' = updates \cup {u}
               /\ u.evaluation = request[r].evaluation
               /\ \A m \in Learners \ {l} : Of(m)' = Of(m)
  BY <1>1, PersistAdds
<1>3. CASE request[s].step = "idle"
  BY <1>3 DEF CallOK, Holding, Inserting, At
<1>4. CASE request[s].step # "idle"
  <2> DEFINE q == request[s]
  <2>1. PICK m : m = q.learner
    OBVIOUS
  <2>2. q \in Call /\ m \in Learners
    BY <1>4, <2>1, BusyCall DEF IInv, Call
  <2>3. (Holding(s) => lock[request[s].learner] = s)'
    BY <2>1, <2>2, ReleaseKeeps DEF IInv, CallOK, Holding
  <2>4. Holding(s) => m # l
    BY <1>1, <2>1, OneHolder DEF Holding, At
  <2>5. Holding(s) => /\ Of(m)' = Of(m) /\ Evidence(m)' = Evidence(m)
                      /\ skill'[m] = skill[m]
    <3>1. SUFFICES ASSUME Holding(s)
                   PROVE  /\ Of(m)' = Of(m) /\ Evidence(m)' = Evidence(m)
                          /\ skill'[m] = skill[m]
      OBVIOUS
    <3>2. Of(m)' = Of(m)
      BY <1>2, <2>2, <2>4, <3>1
    <3>3. Evidence(m) = {v.evaluation : v \in Of(m)}
          /\ Evidence(m)' = {v.evaluation : v \in Of(m)'}
      BY DEF Evidence, Of
    <3>4. skill'[m] = skill[m]
      BY <1>1, <2>2, <2>4, <3>1 DEF Persist, IInv, TypeOK
    <3> QED
      BY <3>2, <3>3, <3>4
  <2>6. (Inserting(s) => /\ request[s].id < nextId
                         /\ ~Persisted(request[s].evaluation)
                         /\ \A v \in Of(request[s].learner) : v.id < request[s].id)'
    <3>1. SUFFICES ASSUME Inserting(s)
                   PROVE  /\ q.id < nextId'
                          /\ ~Persisted(q.evaluation)'
                          /\ \A v \in Of(m)' : v.id < q.id
      BY <2>1 DEF Inserting, Of, Persisted
    <3>2. q.id < nextId /\ ~Persisted(q.evaluation) /\ \A v \in Of(m) : v.id < q.id
      BY <2>1, <3>1 DEF IInv, CallOK
    <3>3. q.evaluation # request[r].evaluation
      BY <3>1 DEF IInv, InsertsDistinct, Inserting, At
    <3>4. ~Persisted(q.evaluation)'
      BY <1>2, <3>2, <3>3 DEF Persisted
    <3>5. Of(m)' = Of(m)
      BY <2>5, <3>1 DEF Inserting, Holding
    <3> QED
      BY <3>2, <3>4, <3>5
  <2>7. (At(s, "commit") =>
           /\ request[s].seen = Evidence(request[s].learner) \cup {request[s].evaluation}
           /\ request[s].revision = skill[request[s].learner].revision + 1)'
    <3>1. SUFFICES ASSUME At(s, "commit")
                   PROVE  /\ q.seen = Evidence(m)' \cup {q.evaluation}
                          /\ q.revision = skill'[m].revision + 1
      BY <2>1 DEF At, Evidence
    <3>2. q.seen = Evidence(m) \cup {q.evaluation} /\ q.revision = skill[m].revision + 1
      BY <2>1, <3>1 DEF IInv, CallOK
    <3> QED
      BY <2>5, <3>1, <3>2 DEF At, Holding
  <2>8. (At(s, "done") /\ request[s].answer \in {"applied", "reused"}
          => \E v \in updates : v.evaluation = request[s].evaluation
                                /\ v.learner = request[s].learner)'
    BY <1>2 DEF IInv, CallOK, At
  <2>9. (At(s, "done") /\ request[s].answer = "cross_owner"
          => \E v \in updates : v.evaluation = request[s].evaluation
                                /\ v.learner # request[s].learner)'
    BY <1>2 DEF IInv, CallOK, At
  <2> QED
    BY <2>3, <2>6, <2>7, <2>8, <2>9 DEF CallOK
<1> QED
  BY <1>3, <1>4

\* A commit, answered or not, keeps the invariant.
LEMMA PersistKeeps ==
    ASSUME IInv, TypeOK', NEW r \in Requests, At(r, "commit"), Persist(r), Release(r),
           nextId' = nextId, NEW a \in {"applied", "error"}, Answered(r, a)
    PROVE  IInv'
<1>1. PICK l : l = request[r].learner
  OBVIOUS
<1>2. PICK u : /\ updates' = updates \cup {u}
               /\ u.id = request[r].id /\ u.learner = l
               /\ u.evaluation = request[r].evaluation
  BY <1>1, PersistAdds
<1>3. /\ request'[r].step = "done" /\ request'[r].answer = a
      /\ request'[r].learner = l /\ request'[r].evaluation = request[r].evaluation
      /\ \A s \in Requests \ {r} : request'[s] = request[s]
  <2>1. request[r] \in Call
    BY BusyCall DEF IInv, At
  <2> QED
    BY <1>1, <2>1 DEF IInv, TypeOK, Answered, Call
<1>4. StateReplaysEvidence' /\ SnapshotsFollowIds' /\ IsFiniteSet(updates)'
  BY <1>1, PersistReplays, PersistSnapshots
<1>5. request[r].id < nextId /\ ~Persisted(request[r].evaluation)
  BY DEF IInv, CallOK, Inserting, At
<1>6. AppliedOnce'
  BY <1>2, <1>5 DEF IInv, AppliedOnce, Persisted
<1>7. IdsBelow'
  BY <1>2, <1>5 DEF IInv, IdsBelow
<1>8. InsertsDistinct'
  BY <1>3 DEF IInv, InsertsDistinct, Inserting
<1>9. CallOK(r)'
  BY <1>2, <1>3 DEF CallOK, Holding, Inserting, At
<1>10. (\A s \in Requests : CallOK(s))'
  BY <1>3, <1>9, PersistOther
<1> QED
  BY <1>4, <1>6, <1>7, <1>8, <1>10 DEF IInv

-----------------------------------------------------------------------------
(***************************************************************************)
(* The invariant and what follows from it                                  *)
(***************************************************************************)

LEMMA InitIInv == Init => IInv
<1> SUFFICES ASSUME Init PROVE IInv
  OBVIOUS
<1>1. TypeOK
  BY BoundAssumption DEF Init, TypeOK, Skill
<1>2. IsFiniteSet(updates) /\ AppliedOnce /\ IdsBelow /\ SnapshotsFollowIds
  BY FS_EmptySet DEF Init, AppliedOnce, IdsBelow, SnapshotsFollowIds
<1>3. StateReplaysEvidence
  BY FS_EmptySet DEF Init, StateReplaysEvidence, Evidence, Of
<1>4. InsertsDistinct /\ \A r \in Requests : CallOK(r)
  BY DEF Init, Idle, InsertsDistinct, CallOK, Holding, Inserting, At
<1> QED
  BY <1>1, <1>2, <1>3, <1>4 DEF IInv

LEMMA IInvStep == IInv /\ [Next]_vars => IInv'
<1> SUFFICES ASSUME IInv, [Next]_vars PROVE IInv'
  OBVIOUS
<1>1. TypeOK'
  BY TypeStep DEF IInv
<1>2. CASE \E r \in Requests, l \in Learners, e \in Evaluations : Start(r, l, e)
  BY <1>1, <1>2, StartKeeps
<1>3. ASSUME NEW r \in Requests, Serve(r) PROVE IInv'
  <2>1. CASE Commit(r)
    BY <1>1, <2>1, PersistKeeps DEF Commit
  <2> QED
    BY <1>1, <1>3, <2>1, AcquireLockKeeps, RecheckKeeps, InsertKeeps, RebuildKeeps,
       ResolveKeeps DEF Serve
<1>4. ASSUME NEW r \in Requests, Fail(r) PROVE IInv'
  <2>1. CASE UNCHANGED <<updates, skill>>
    BY <1>1, <1>4, <2>1, RollbackKeeps
  <2>2. CASE At(r, "commit") /\ Persist(r)
    BY <1>1, <1>4, <2>2, PersistKeeps DEF Fail
  <2> QED
    BY <1>4, <2>1, <2>2 DEF Fail
<1>5. CASE UNCHANGED vars
  <2>1. AppliedOnce' /\ IdsBelow' /\ IsFiniteSet(updates)'
    BY <1>5 DEF vars, IInv, AppliedOnce, IdsBelow
  <2>2. StateReplaysEvidence' /\ SnapshotsFollowIds'
    BY <1>5 DEF vars, IInv, StateReplaysEvidence, SnapshotsFollowIds, Of, Evidence
  <2>3. InsertsDistinct'
    BY <1>5 DEF vars, IInv, InsertsDistinct, Inserting
  <2>4. (\A r \in Requests : CallOK(r))'
    BY <1>5 DEF vars, IInv, CallOK, Holding, Inserting, At, Of, Evidence, Persisted
  <2> QED
    BY <1>1, <2>1, <2>2, <2>3, <2>4 DEF IInv
<1> QED
  BY <1>2, <1>3, <1>4, <1>5 DEF Next

\* Whatever calls overlap and fail, a call that holds a lock knows all there is to
\* know of its learner: the invariant that the other results follow from.
THEOREM Consistent == Spec => []IInv
BY InitIInv, IInvStep, PTL DEF Spec

\* Every variable keeps its type.
THEOREM TypeCorrect == Spec => []TypeOK
<1>1. IInv => TypeOK
  BY DEF IInv
<1> QED
  BY <1>1, Consistent, PTL

\* No learner's update is lost by overlapping applications of any number of callers.
THEOREM NoLostUpdate == Spec => []StateReplaysEvidence
<1>1. IInv => StateReplaysEvidence
  BY DEF IInv
<1> QED
  BY <1>1, Consistent, PTL

\* Recommendations are decided in the order of their updates' ids.
THEOREM DecisionsFollowIds == Spec => []SnapshotsFollowIds
<1>1. IInv => SnapshotsFollowIds
  BY DEF IInv
<1> QED
  BY <1>1, Consistent, PTL
-----------------------------------------------------------------------------
(***************************************************************************)
(* Waiting                                                                 *)
(***************************************************************************)

\* A learner's row is locked by a call in the middle of its transaction.
LocksHeld ==
    \A l \in Learners, r \in Requests :
      lock[l] = r => Holding(r) /\ request[r].learner = l

LEMMA LocksHeldStep ==
    ASSUME IInv, LocksHeld, [Next]_vars
    PROVE  LocksHeld'
<1>0. TypeOK
  BY DEF IInv
<1> SUFFICES ASSUME NEW l \in Learners, NEW r \in Requests, lock'[l] = r
             PROVE  Holding(r)' /\ request'[r].learner = l
  BY DEF LocksHeld
<1>1. CASE request'[r] = request[r] /\ lock[l] = r
  BY <1>1 DEF LocksHeld, Holding
<1>2. ASSUME NEW s \in Requests, NEW k \in Learners, NEW e \in Evaluations, Start(s, k, e)
      PROVE  Holding(r)' /\ request'[r].learner = l
  <2>1. lock[l] = r /\ r # s
    BY <1>2 DEF Start, LocksHeld, Holding
  <2> QED
    BY <1>0, <1>1, <1>2, <2>1 DEF Start, TypeOK
<1>3. ASSUME NEW s \in Requests, AcquireLock(s)
      PROVE  Holding(r)' /\ request'[r].learner = l
  <2>1. request[s] \in Call
    BY <1>0, <1>3, BusyCall DEF AcquireLock, At
  <2>2. CASE r = s
    <3>1. /\ request'[s].step = "check" /\ request'[s].learner = request[s].learner
          /\ request[s].step = "lock"
      BY <1>0, <1>3, <2>1 DEF AcquireLock, At, GoTo, TypeOK, Call
    <3>2. lock[l] # s
      BY <3>1 DEF LocksHeld, Holding
    <3>3. l = request[s].learner
      BY <1>0, <1>3, <2>2, <3>2 DEF AcquireLock, TypeOK
    <3> QED
      BY <2>2, <3>1, <3>3 DEF Holding
  <2>3. CASE r # s
    BY <1>0, <1>1, <1>3, <2>1, <2>3 DEF AcquireLock, GoTo, TypeOK, Call
  <2> QED
    BY <2>2, <2>3
<1>4. ASSUME NEW s \in Requests, Release(s),
             \A q \in Requests \ {s} : request'[q] = request[q]
      PROVE  Holding(r)' /\ request'[r].learner = l
  BY <1>0, <1>1, <1>4, NullAssumption DEF Release, TypeOK, LocksHeld
<1>5. ASSUME NEW s \in Requests, UNCHANGED lock, request[s].step # "idle",
             \A q \in Requests \ {s} : request'[q] = request[q],
             \/ request'[s].step \in {"insert", "rebuild", "commit"}
                  /\ request'[s].learner = request[s].learner
             \/ ~Holding(s)
      PROVE  Holding(r)' /\ request'[r].learner = l
  BY <1>1, <1>5 DEF LocksHeld, Holding
<1>6. ASSUME NEW s \in Requests, Recheck(s)
      PROVE  Holding(r)' /\ request'[r].learner = l
  <2>1. request[s] \in Call /\ request[s].step # "idle"
    BY <1>0, <1>6, BusyCall DEF Recheck, At
  <2>2. \A q \in Requests \ {s} : request'[q] = request[q]
    BY <1>0, <1>6 DEF Recheck, GoTo, TypeOK
  <2>3. GoTo(s, "insert") => /\ request'[s].step = "insert"
                             /\ request'[s].learner = request[s].learner
    BY <1>0, <2>1 DEF GoTo, TypeOK, Call
  <2> QED
    BY <1>4, <1>5, <1>6, <2>1, <2>2, <2>3 DEF Recheck
<1>7. ASSUME NEW s \in Requests, Insert(s)
      PROVE  Holding(r)' /\ request'[r].learner = l
  <2>1. request[s] \in Call /\ request[s].step # "idle"
    BY <1>0, <1>7, BusyCall DEF Insert, At
  <2>2. \A q \in Requests \ {s} : request'[q] = request[q]
    BY <1>0, <1>7 DEF Insert, GoTo, TypeOK
  <2>3. CASE Release(s)
    BY <1>4, <2>2, <2>3
  <2>4. CASE UNCHANGED lock /\ request' = [request EXCEPT ![s].step = "rebuild", ![s].id = nextId]
    <3>1. request'[s] = [request[s] EXCEPT !.step = "rebuild", !.id = nextId]
      BY <1>0, <2>4 DEF TypeOK
    <3>2. request'[s].step = "rebuild" /\ request'[s].learner = request[s].learner
      BY <2>1, <3>1 DEF Call
    <3> QED
      BY <1>5, <2>1, <2>2, <2>4, <3>2
  <2> QED
    BY <1>7, <2>3, <2>4 DEF Insert
<1>8. ASSUME NEW s \in Requests, Rebuild(s)
      PROVE  Holding(r)' /\ request'[r].learner = l
  <2>1. request[s] \in Call /\ request[s].step # "idle" /\ UNCHANGED lock
    BY <1>0, <1>8, BusyCall DEF Rebuild, At
  <2>2. \A q \in Requests \ {s} : request'[q] = request[q]
    BY <1>0, <1>8 DEF Rebuild, TypeOK
  <2>3. request'[s].step = "commit" /\ request'[s].learner = request[s].learner
    BY <1>0, <1>8, <2>1 DEF Rebuild, TypeOK, Call
  <2> QED
    BY <1>5, <2>1, <2>2, <2>3
<1>9. ASSUME NEW s \in Requests, Commit(s) \/ Fail(s)
      PROVE  Holding(r)' /\ request'[r].learner = l
  <2>1. Release(s) /\ \A q \in Requests \ {s} : request'[q] = request[q]
    BY <1>0, <1>9 DEF Commit, Fail, Answered, TypeOK
  <2> QED
    BY <1>4, <2>1
<1>10. ASSUME NEW s \in Requests, Resolve(s)
       PROVE  Holding(r)' /\ request'[r].learner = l
  <2>1. /\ UNCHANGED lock /\ ~Holding(s) /\ request[s].step # "idle"
        /\ \A q \in Requests \ {s} : request'[q] = request[q]
    BY <1>0, <1>10 DEF Resolve, At, Holding, Answered, TypeOK
  <2> QED
    BY <1>5, <2>1
<1>11. CASE UNCHANGED vars
  BY <1>1, <1>11 DEF vars
<1> QED
  BY <1>2, <1>3, <1>6, <1>7, <1>8, <1>9, <1>10, <1>11 DEF Next, Serve

LEMMA WaitedForHolds ==
    ASSUME IInv, LocksHeld, NEW r \in Requests, NEW s \in Requests, WaitsFor(r, s)
    PROVE  /\ At(r, "lock") => Holding(s)
           /\ At(r, "insert") => Inserting(s)
           /\ At(r, "lock") \/ At(r, "insert")
<1>1. CASE At(r, "lock")
  <2>1. request[r].learner \in Learners
    BY <1>1, BusyCall DEF At, IInv, Call
  <2> QED
    BY <1>1, <2>1 DEF WaitsFor, LocksHeld, At
<1>2. CASE At(r, "insert")
  BY <1>2 DEF WaitsFor, At
<1> QED
  BY <1>1, <1>2 DEF WaitsFor

\* Whoever waits for a learner's row or an evaluation's index entry waits for a
\* transaction that goes on, at most behind one more that waits for nobody.
THEOREM NoEndlessWait == Spec => []WaitsEnd
<1>1. Init => LocksHeld
  BY NullAssumption DEF Init, LocksHeld
<1>2. IInv /\ LocksHeld /\ [Next]_vars => LocksHeld'
  BY LocksHeldStep
<1>3. IInv /\ LocksHeld => WaitsEnd
  <2> SUFFICES ASSUME IInv, LocksHeld, NEW r \in Requests, NEW s \in Requests, WaitsFor(r, s)
               PROVE  /\ request[s].step \notin {"idle", "done", "resolve"}
                      /\ \A t \in Requests :
                           WaitsFor(s, t) => /\ request[t].step \notin {"idle", "done", "resolve"}
                                             /\ \A q \in Requests : ~WaitsFor(t, q)
    BY DEF WaitsEnd
  <2>1. Holding(s)
    BY WaitedForHolds DEF Holding, Inserting
  <2>2. ASSUME NEW t \in Requests, WaitsFor(s, t)
        PROVE  Inserting(t)
    BY <2>1, <2>2, WaitedForHolds DEF Holding, At
  <2> QED
    BY <2>1, <2>2 DEF Holding, Inserting, WaitsFor, At
<1> QED
  BY <1>1, <1>2, <1>3, Consistent, PTL DEF Spec

-----------------------------------------------------------------------------
(***************************************************************************)
(* Refinement: every step is a step of OneOwnerApplication, or none        *)
(***************************************************************************)
Applied == {<<u.learner, u.evaluation>> : u \in updates}

\* What clients have been told is true of what has been applied.
LEMMA ToldTrue ==
    IInv => \A t \in Told : OneOwner!Truth(t[1], t[2], t[3])
<1> SUFFICES ASSUME IInv, NEW t \in Told PROVE OneOwner!Truth(t[1], t[2], t[3])
  OBVIOUS
<1>1. PICK r \in Requests :
        /\ At(r, "done") /\ request[r].answer \in {"applied", "reused", "cross_owner"}
        /\ t = <<request[r].learner, request[r].evaluation,
                 IF request[r].answer = "cross_owner" THEN "theirs" ELSE "mine">>
  BY DEF Told
<1>2. CallOK(r)
  BY DEF IInv
<1>3. CASE request[r].answer = "cross_owner"
  <2>1. PICK u \in updates : u.evaluation = request[r].evaluation
                             /\ u.learner # request[r].learner
    BY <1>1, <1>2, <1>3 DEF CallOK
  <2>2. u.learner \in Learners
    BY DEF IInv, TypeOK, Update
  <2> QED
    BY <1>1, <1>3, <2>1, <2>2 DEF OneOwner!Truth
<1>4. CASE request[r].answer \in {"applied", "reused"}
  <2>1. PICK u \in updates : u.evaluation = request[r].evaluation
                             /\ u.learner = request[r].learner
    BY <1>1, <1>2, <1>4 DEF CallOK
  <2> QED
    BY <1>1, <1>4, <2>1 DEF OneOwner!Truth
<1> QED
  BY <1>1, <1>3, <1>4

\* A commit applies its evaluation, which nobody owned, to its learner.
LEMMA PersistApplies ==
    ASSUME IInv, NEW r \in Requests, At(r, "commit"), Persist(r)
    PROVE  \E l \in Learners, e \in Evaluations : OneOwner!Apply(l, e)
<1>1. PICK l, e : l = request[r].learner /\ e = request[r].evaluation
  OBVIOUS
<1>2. l \in Learners /\ e \in Evaluations
  BY <1>1, BusyCall DEF IInv, At, Call
<1>3. PICK u : updates' = updates \cup {u} /\ u.learner = l /\ u.evaluation = e
  BY <1>1, PersistAdds
<1>4. Applied' = Applied \cup {<<l, e>>}
  BY <1>3 DEF Applied
<1>5. OneOwner!Owners(e) = {}
  <2>1. \A v \in updates : v.evaluation # e
    BY <1>1 DEF IInv, CallOK, Inserting, Persisted, At
  <2> QED
    BY <2>1 DEF OneOwner!Owners
<1> QED
  BY <1>2, <1>4, <1>5 DEF OneOwner!Apply, Applied

\* The calls implement OneOwnerApplication: an evaluation is applied once, to one
\* learner, and no client is ever told otherwise.
THEOREM OneOwnerImplemented == Spec => ImplementsOneOwner
<1>1. Init => OneOwner!Init
  BY DEF Init, OneOwner!Init, Told, Idle, At
<1>2. IInv /\ IInv' /\ [Next]_vars => [OneOwner!Next]_OneOwner!vars
  <2> SUFFICES ASSUME IInv, IInv', [Next]_vars PROVE OneOwner!Next
    OBVIOUS
  <2>1. (\A t \in Told : OneOwner!Truth(t[1], t[2], t[3]))'
    BY ToldTrue, PTL
  <2>2. \/ UNCHANGED updates
        \/ \E r \in Requests : At(r, "commit") /\ Persist(r)
    BY DEF Next, Serve, Start, AcquireLock, Recheck, Insert, Rebuild, Commit, Resolve, Fail,
       vars
  <2>3. CASE UNCHANGED updates
    BY <2>1, <2>3 DEF OneOwner!Next
  <2>4. CASE \E r \in Requests : At(r, "commit") /\ Persist(r)
    BY <2>1, <2>4, PersistApplies DEF OneOwner!Next
  <2> QED
    BY <2>2, <2>3, <2>4
<1> QED
  BY <1>1, <1>2, Consistent, PTL DEF Spec, ImplementsOneOwner, OneOwner!Spec
=============================================================================

---------------------- MODULE PracticeGenerationProofs ----------------------
(***************************************************************************)
(* Proofs about PracticeGeneration for every number of learners,           *)
(* recommendations and calls, and whatever providers generate.             *)
(***************************************************************************)
EXTENDS PracticeGeneration, TLAPS

(***************************************************************************)
(* The inductive invariant.  A fenced call that has looked again holds its *)
(* learner's row, so that what it saw is still so when it commits; an open *)
(* insert is the only one of its recommendation, which has no row yet.     *)
(***************************************************************************)
Persisting(c) == call[c].step \in {"lock", "recheck", "insert", "inserted"}
Holding(c) == call[c].step \in {"recheck", "insert", "inserted"} /\ call[c].fenced

\* What is true of one call, in relation to its learner's row and to the practices.
CallConsistent(c) ==
    /\ Persisting(c) => call[c].content \in Contents
    /\ call[c].step \in {"lock", "recheck"} => call[c].fenced
    /\ Holding(c) => lock[call[c].learner] = c
    /\ Holding(c) /\ ~At(c, "recheck") => IsCurrent(c)
    /\ At(c, "inserted") => rows[Target(c)] = << >>
    /\ At(c, "done") /\ call[c].answer = "practice"
         => rows[Target(c)] # << >> /\ call[c].content = rows[Target(c)][1]

LocksHeld ==
    \A l \in Learners, c \in Calls : lock[l] = c => Holding(c) /\ call[c].learner = l

InsertsDistinct ==
    \A c, d \in Calls :
      c # d /\ At(c, "inserted") /\ At(d, "inserted") => Target(c) # Target(d)

RowsUnique == \A r \in Recommendations : Len(rows[r]) <= 1

IInv ==
    /\ TypeOK
    /\ \A c \in Calls : CallConsistent(c)
    /\ LocksHeld
    /\ InsertsDistinct
    /\ RowsUnique

-----------------------------------------------------------------------------
(***************************************************************************)
(* Types                                                                   *)
(***************************************************************************)

\* A call that is not idle has every field of a call.
LEMMA BusyCall ==
    ASSUME TypeOK, NEW c \in Calls, call[c].step # "idle"
    PROVE  /\ call[c] \in Call
           /\ call[c].learner \in Learners
           /\ Target(c) \in Recommendations
BY DEF TypeOK, Idle, Call, Target

LEMMA GoToType ==
    ASSUME TypeOK, NEW c \in Calls, call[c].step # "idle", NEW s \in Steps, GoTo(c, s)
    PROVE  call' \in [Calls -> Call \cup {Idle}]
<1>1. [call[c] EXCEPT !.step = s] \in Call
  BY BusyCall DEF Call
<1> QED
  BY <1>1 DEF TypeOK, GoTo

LEMMA AnsweredType ==
    ASSUME TypeOK, NEW c \in Calls, call[c].step # "idle", NEW a \in Answers,
           NEW x \in Contents \cup {None}, Answered(c, a, x)
    PROVE  call' \in [Calls -> Call \cup {Idle}]
<1>1. "done" \in Steps
  BY DEF Steps
<1>2. [call[c] EXCEPT !.step = "done", !.answer = a, !.content = x] \in Call
  BY <1>1, BusyCall DEF Call
<1> QED
  BY <1>2 DEF TypeOK, Answered

\* The first practice of a recommendation, when it has one, is a content.
LEMMA FirstContent ==
    ASSUME TypeOK, NEW r \in Recommendations, rows[r] # << >>
    PROVE  rows[r][1] \in Contents
BY DEF TypeOK

LEMMA ReleasedType ==
    ASSUME TypeOK, NEW c \in Calls
    PROVE  Released(c) \in [Learners -> Calls \cup {None}]
BY DEF TypeOK, Released

LEMMA StoredType ==
    ASSUME TypeOK, NEW c \in Calls, call[c].step # "idle", call[c].content \in Contents, Stored(c)
    PROVE  rows' \in [Recommendations -> Seq(Contents)]
<1>1. Append(rows[Target(c)], call[c].content) \in Seq(Contents)
  BY BusyCall DEF TypeOK
<1> QED
  BY <1>1 DEF TypeOK, Stored

\* What the provider is made to answer is an answer.
LEMMA ProviderAnswerType ==
    ASSUME NEW category
    PROVE  ProviderAnswer(category) \in Answers
BY DEF ProviderAnswer, ProviderStatus, Answers

LEMMA GenerateType ==
    ASSUME TypeOK, NEW c \in Calls, Generate(c)
    PROVE  call' \in [Calls -> Call \cup {Idle}]
<1>1. call[c] \in Call
  BY BusyCall DEF Generate, At
<1>2. ASSUME NEW content \in Contents,
             call' = [call EXCEPT ![c].content = content,
                                  ![c].step = IF call[c].fenced THEN "lock" ELSE "insert"]
      PROVE  call' \in [Calls -> Call \cup {Idle}]
  <2>1. (IF call[c].fenced THEN "lock" ELSE "insert") \in Steps
    BY DEF Steps
  <2>2. [call[c] EXCEPT !.content = content,
                        !.step = IF call[c].fenced THEN "lock" ELSE "insert"] \in Call
    BY <1>1, <2>1 DEF Call
  <2> QED
    BY <1>2, <2>2 DEF TypeOK
<1>3. ASSUME NEW failure \in Failures, ShouldRetry(Category(failure), call[c].attempt),
             call' = [call EXCEPT ![c].attempt = @ + 1]
      PROVE  call' \in [Calls -> Call \cup {Idle}]
  <2>1. call[c].attempt \in 1..MaxProviderAttempts /\ call[c].attempt < MaxProviderAttempts
    BY <1>1, <1>3 DEF Call, ShouldRetry
  <2>2. call[c].attempt + 1 \in 1..MaxProviderAttempts
    BY <2>1 DEF MaxProviderAttempts
  <2>3. [call[c] EXCEPT !.attempt = @ + 1] \in Call
    BY <1>1, <2>2 DEF Call
  <2> QED
    BY <1>3, <2>3 DEF TypeOK
<1>4. ASSUME NEW failure \in Failures,
             Answered(c, ProviderAnswer(Category(failure)), None)
      PROVE  call' \in [Calls -> Call \cup {Idle}]
  <2>1. ProviderAnswer(Category(failure)) \in Answers
    BY ProviderAnswerType
  <2> QED
    BY <1>4, <1>1, <2>1, AnsweredType DEF Generate, At
<1> QED
  BY <1>2, <1>3, <1>4 DEF Generate

LEMMA TypeStep ==
    ASSUME IInv, [Next]_vars
    PROVE  TypeOK'
<1>0. TypeOK
  BY DEF IInv
<1> DEFINE CallsOK == call' \in [Calls -> Call \cup {Idle}]
<1>steps. {"load", "fence", "existing", "provider", "lock", "recheck", "insert",
           "inserted", "winner", "done"} = Steps
  BY DEF Steps
<1>answers. {"practice", "no_practice", "stale_discarded", "not_found", "not_owner",
             "unavailable"} \subseteq Answers
  BY DEF Answers
<1>1. ASSUME NEW c \in Calls, NEW fenced \in BOOLEAN, NEW l \in Learners,
             NEW r \in Recommendations, Begin(c, fenced, l, r)
      PROVE  TypeOK'
  <2>1. "load" \in Steps /\ 1 \in 1..MaxProviderAttempts
    BY DEF Steps, MaxProviderAttempts
  <2>2. [step |-> "load", fenced |-> fenced, learner |-> l, recommendation |-> r,
         attempt |-> 1, content |-> None, answer |-> None] \in Call
    BY <2>1 DEF Call
  <2> QED
    BY <1>0, <1>1, <2>2 DEF Begin, TypeOK
<1>2. ASSUME NEW c \in Calls, LoadRecommendation(c)
      PROVE  TypeOK'
  <2>1. CallsOK
    BY <1>0, <1>2, <1>steps, <1>answers, GoToType, AnsweredType DEF LoadRecommendation, At
  <2> QED
    BY <1>0, <1>2, <2>1 DEF LoadRecommendation, TypeOK
<1>3. ASSUME NEW c \in Calls, CheckFence(c)
      PROVE  TypeOK'
  <2>1. CallsOK
    BY <1>0, <1>3, <1>steps, <1>answers, GoToType, AnsweredType DEF CheckFence, At
  <2> QED
    BY <1>0, <1>3, <2>1 DEF CheckFence, TypeOK
<1>4. ASSUME NEW c \in Calls, ResolveExisting(c)
      PROVE  TypeOK'
  <2>1. Target(c) \in Recommendations
    BY <1>0, <1>4, BusyCall DEF ResolveExisting, At
  <2>2. CallsOK
    BY <1>0, <1>4, <2>1, <1>steps, <1>answers, FirstContent, GoToType, AnsweredType
    DEF ResolveExisting, At
  <2> QED
    BY <1>0, <1>4, <2>2 DEF ResolveExisting, TypeOK
<1>5. ASSUME NEW c \in Calls, Generate(c)
      PROVE  TypeOK'
  BY <1>0, <1>5, GenerateType DEF Generate, TypeOK
<1>6. ASSUME NEW c \in Calls, LockLearner(c)
      PROVE  TypeOK'
  <2>1. CallsOK
    BY <1>0, <1>6, <1>steps, GoToType DEF LockLearner, At
  <2> QED
    BY <1>0, <1>6, <2>1 DEF LockLearner, TypeOK
<1>7. ASSUME NEW c \in Calls, Recheck(c)
      PROVE  TypeOK'
  <2>1. Target(c) \in Recommendations
    BY <1>0, <1>7, BusyCall DEF Recheck, At
  <2>2. CallsOK
    BY <1>0, <1>7, <2>1, <1>steps, <1>answers, FirstContent, GoToType, AnsweredType
    DEF Recheck, At
  <2>3. lock' \in [Learners -> Calls \cup {None}]
    BY <1>0, <1>7, ReleasedType DEF Recheck, TypeOK
  <2> QED
    BY <1>0, <1>7, <2>2, <2>3 DEF Recheck, TypeOK
<1>8. ASSUME NEW c \in Calls, Insert(c)
      PROVE  TypeOK'
  <2>1. CallsOK
    BY <1>0, <1>8, <1>steps, GoToType DEF Insert, At
  <2>2. lock' \in [Learners -> Calls \cup {None}]
    BY <1>0, <1>8, ReleasedType DEF Insert, TypeOK
  <2> QED
    BY <1>0, <1>8, <2>1, <2>2 DEF Insert, TypeOK
<1>9. ASSUME NEW c \in Calls, Commit(c)
      PROVE  TypeOK'
  <2>1. call[c].content \in Contents /\ call[c].step # "idle"
    BY <1>9 DEF Commit, MayCommit, At, IInv, CallConsistent, Persisting
  <2>2. CallsOK
    BY <1>0, <1>9, <2>1, <1>answers, AnsweredType DEF Commit
  <2>3. rows' \in [Recommendations -> Seq(Contents)]
    BY <1>0, <1>9, <2>1, StoredType DEF Commit
  <2> QED
    BY <1>0, <1>9, <2>2, <2>3, ReleasedType DEF Commit, TypeOK
<1>10. ASSUME NEW c \in Calls, ResolveWinner(c)
       PROVE  TypeOK'
  <2>1. Target(c) \in Recommendations
    BY <1>0, <1>10, BusyCall DEF ResolveWinner, At
  <2>2. CallsOK
    BY <1>0, <1>10, <2>1, <1>answers, FirstContent, AnsweredType DEF ResolveWinner, At
  <2> QED
    BY <1>0, <1>10, <2>2 DEF ResolveWinner, TypeOK
<1>11. ASSUME NEW c \in Calls, EndDeadlock(c)
       PROVE  TypeOK'
  <2>1. CallsOK
    BY <1>0, <1>11, <1>answers, AnsweredType DEF EndDeadlock, Deadlocked, At
  <2> QED
    BY <1>0, <1>11, <2>1, ReleasedType DEF EndDeadlock, TypeOK
<1>12. ASSUME NEW c \in Calls, Fail(c)
       PROVE  TypeOK'
  <2>1. CallsOK
    BY <1>0, <1>12, <1>answers, AnsweredType DEF Fail, Active, TypeOK
  <2>2. rows' \in [Recommendations -> Seq(Contents)]
    <3>1. CASE UNCHANGED rows
      BY <1>0, <3>1 DEF TypeOK
    <3>2. CASE MayCommit(c) /\ Stored(c)
      <4>1. call[c].content \in Contents /\ call[c].step # "idle"
        BY <3>2 DEF MayCommit, At, IInv, CallConsistent, Persisting
      <4> QED
        BY <1>0, <3>2, <4>1, StoredType
    <3> QED
      BY <1>12, <3>1, <3>2 DEF Fail
  <2>3. faults' \in 0..MaxFaults
    BY <1>0, <1>12, BoundAssumption DEF Fail, TypeOK
  <2> QED
    BY <1>0, <1>12, <2>1, <2>2, <2>3, ReleasedType DEF Fail, TypeOK
<1>13. ASSUME NEW l \in Learners, Advance(l)
       PROVE  TypeOK'
  BY <1>0, <1>13, BoundAssumption DEF Advance, TypeOK
<1>14. CASE UNCHANGED vars
  BY <1>0, <1>14 DEF vars, TypeOK
<1>15. ASSUME NEW c \in Calls, Unconfigured(c)
       PROVE  TypeOK'
  <2>1. CallsOK
    BY <1>0, <1>15, ProviderAnswerType, AnsweredType DEF Unconfigured, At
  <2> QED
    BY <1>0, <1>15, <2>1 DEF Unconfigured, TypeOK
<1> QED
  BY <1>1, <1>2, <1>3, <1>4, <1>5, <1>6, <1>7, <1>8, <1>9, <1>10, <1>11, <1>12, <1>13, <1>14, <1>15
  DEF Next, Serve, Persist

-----------------------------------------------------------------------------
(***************************************************************************)
(* The rest of the invariant, by what a step may disturb                   *)
(***************************************************************************)
Others(c) == \A d \in Calls \ {c} : call'[d] = call[d]
Consistent == (\A c \in Calls : CallConsistent(c)) /\ LocksHeld /\ InsertsDistinct /\ RowsUnique

\* c keeps what it holds, or has let go of it and of the fence.
KeepsLock(c) ==
    UNCHANGED lock /\ (Holding(c) => Holding(c)' /\ call'[c].learner = call[c].learner)
ReleasesLock(c) == lock' = Released(c) /\ ~Holding(c)'

LEMMA LockStep ==
    ASSUME TypeOK, LocksHeld, NEW c \in Calls, Others(c), KeepsLock(c) \/ ReleasesLock(c)
    PROVE  /\ LocksHeld'
           /\ \A l \in Learners : lock[l] # c => lock'[l] = lock[l]
<1>1. \A l \in Learners : lock[l] \in Calls \cup {None}
  BY DEF TypeOK
<1>2. CASE KeepsLock(c)
  <2>1. ASSUME NEW l \in Learners, NEW d \in Calls, lock'[l] = d
        PROVE  Holding(d)' /\ call'[d].learner = l
    <3>1. Holding(d) /\ call[d].learner = l
      BY <1>2, <2>1 DEF LocksHeld, KeepsLock
    <3> QED
      BY <1>2, <3>1 DEF KeepsLock, Holding, Others
  <2> QED
    BY <1>2, <2>1 DEF LocksHeld, KeepsLock
<1>3. CASE ReleasesLock(c)
  <2>1. \A l \in Learners : lock'[l] = IF lock[l] = c THEN None ELSE lock[l]
    BY <1>3 DEF ReleasesLock, Released
  <2>2. ASSUME NEW l \in Learners, NEW d \in Calls, lock'[l] = d
        PROVE  Holding(d)' /\ call'[d].learner = l
    <3>1. lock[l] = d /\ d # c
      BY <2>1, <2>2, NullAssumption
    <3>2. call'[d] = call[d]
      BY <3>1 DEF Others
    <3>3. Holding(d) /\ call[d].learner = l
      BY <3>1 DEF LocksHeld
    <3> QED
      BY <3>2, <3>3 DEF Holding
  <2> QED
    BY <2>1, <2>2 DEF LocksHeld
<1> QED
  BY <1>2, <1>3

\* A step of one call that stores nothing.
LEMMA QuietStep ==
    ASSUME TypeOK, Consistent, NEW c \in Calls, Others(c),
           KeepsLock(c) \/ ReleasesLock(c), UNCHANGED <<rows, latest>>,
           CallConsistent(c)',
           At(c, "inserted")' => \A d \in Calls \ {c} :
                                   At(d, "inserted") => Target(d) # Target(c)'
    PROVE  Consistent'
<1>1. LocksHeld' /\ \A l \in Learners : lock[l] # c => lock'[l] = lock[l]
  BY LockStep DEF Consistent
<1>2. ASSUME NEW d \in Calls, d # c
      PROVE  CallConsistent(d)'
  <2>1. call'[d] = call[d] /\ CallConsistent(d)
    BY <1>2 DEF Others, Consistent
  <2>2. Holding(d)' => call[d].step # "idle" /\ Holding(d)
    BY <2>1 DEF Holding
  <2>3. Holding(d)' => lock'[call'[d].learner] = d
    BY <1>1, <1>2, <2>1, <2>2, BusyCall DEF CallConsistent
  <2> QED
    BY <2>1, <2>3 DEF CallConsistent, Persisting, Holding, At, Target, IsCurrent
<1>3. \A d \in Calls : CallConsistent(d)'
  BY <1>2
<1>4. InsertsDistinct'
  BY DEF Consistent, InsertsDistinct, Others, At, Target
<1>5. RowsUnique'
  BY DEF Consistent, RowsUnique
<1> QED
  BY <1>1, <1>3, <1>4, <1>5 DEF Consistent

\* A call stores its practice and is over.
LEMMA StoringStep ==
    ASSUME TypeOK, Consistent, NEW c \in Calls, Others(c), MayCommit(c), Stored(c),
           lock' = Released(c), UNCHANGED latest,
           call'[c].step \in {"idle", "done"},
           At(c, "done")' /\ call'[c].answer = "practice"
             => Target(c)' = Target(c) /\ call'[c].content = call[c].content
    PROVE  Consistent'
<1> DEFINE r == Target(c)
<1>0. /\ At(c, "inserted") /\ call[c].step # "idle" /\ CallConsistent(c)
      /\ call[c] \in Call /\ r \in Recommendations
  <2>1. At(c, "inserted") /\ call[c].step # "idle" /\ CallConsistent(c)
    BY DEF MayCommit, At, Consistent
  <2> QED
    BY <2>1, BusyCall
<1>1. rows[r] = << >> /\ call[c].content \in Contents
  BY <1>0 DEF CallConsistent, At, Persisting
<1>2. /\ rows'[r] = <<call[c].content>>
      /\ \A q \in Recommendations : q # r => rows'[q] = rows[q]
  BY <1>0, <1>1 DEF Stored, TypeOK
<1>3. LocksHeld' /\ \A l \in Learners : lock[l] # c => lock'[l] = lock[l]
  <2>1. ReleasesLock(c)
    BY DEF ReleasesLock, Holding
  <2> QED
    BY <2>1, LockStep DEF Consistent
<1>5. CallConsistent(c)'
  <2>1. ~(call'[c].step \in {"lock", "recheck", "insert", "inserted"})
    OBVIOUS
  <2>2. At(c, "done")' /\ call'[c].answer = "practice"
          => rows'[Target(c)'] # << >> /\ call'[c].content = rows'[Target(c)'][1]
    BY <1>2
  <2> QED
    BY <2>1, <2>2 DEF CallConsistent, Persisting, Holding, At, Target
<1>6. ASSUME NEW d \in Calls, d # c
      PROVE  CallConsistent(d)'
  <2>1. call'[d] = call[d] /\ CallConsistent(d)
    BY <1>6 DEF Others, Consistent
  <2>2. Holding(d)' => call[d].step # "idle" /\ Holding(d)
    BY <2>1 DEF Holding
  <2>3. Holding(d)' => lock'[call'[d].learner] = d
    BY <1>3, <1>6, <2>1, <2>2, BusyCall DEF CallConsistent
  <2>4. At(d, "inserted") => Target(d) \in Recommendations /\ Target(d) # r
    BY <1>0, <1>6, BusyCall DEF Consistent, InsertsDistinct, At
  <2>5. At(d, "done") /\ call[d].answer = "practice"
          => Target(d) \in Recommendations /\ Target(d) # r
    BY <1>1, <2>1, BusyCall DEF CallConsistent, At
  <2>6. At(d, "inserted")' => rows'[Target(d)] = << >>
    BY <1>2, <2>1, <2>4 DEF CallConsistent, At
  <2>7. At(d, "done")' /\ call'[d].answer = "practice"
          => rows'[Target(d)] # << >> /\ call[d].content = rows'[Target(d)][1]
    BY <1>2, <2>1, <2>5 DEF CallConsistent, At
  <2> QED
    BY <2>1, <2>3, <2>6, <2>7 DEF CallConsistent, Persisting, Holding, At, Target, IsCurrent
<1>7. \A d \in Calls : CallConsistent(d)'
  BY <1>5, <1>6
<1>8. InsertsDistinct'
  BY DEF Consistent, InsertsDistinct, Others, At, Target
<1>9. RowsUnique'
  <2>1. Len(<<call[c].content>>) <= 1
    OBVIOUS
  <2> QED
    BY <1>2, <2>1 DEF Consistent, RowsUnique
<1> QED
  BY <1>3, <1>7, <1>8, <1>9 DEF Consistent

LEMMA LockLearnerStep ==
    ASSUME TypeOK, Consistent, NEW c \in Calls, LockLearner(c)
    PROVE  Consistent'
<1>1. /\ call[c].step = "lock" /\ call[c] \in Call /\ call[c].learner \in Learners
      /\ call' = [call EXCEPT ![c].step = "recheck"]
      /\ lock[call[c].learner] = None /\ lock' = [lock EXCEPT ![call[c].learner] = c]
      /\ UNCHANGED <<rows, latest>>
  BY BusyCall DEF LockLearner, At, GoTo
<1>2. call'[c] = [call[c] EXCEPT !.step = "recheck"] /\ Others(c)
  BY <1>1 DEF TypeOK, Others
<1>3. ASSUME NEW d \in Calls, d # c
      PROVE  CallConsistent(d)'
  <2>1. call'[d] = call[d] /\ CallConsistent(d)
    BY <1>2, <1>3 DEF Others, Consistent
  <2>2. Holding(d)' => call[d].step # "idle" /\ Holding(d) /\ lock[call[d].learner] = d
    BY <2>1 DEF Holding, CallConsistent
  <2>3. Holding(d)' => lock'[call'[d].learner] = d
    BY <1>1, <1>3, <2>1, <2>2, BusyCall, NullAssumption DEF TypeOK
  <2> QED
    BY <1>1, <2>1, <2>3 DEF CallConsistent, Persisting, Holding, At, Target, IsCurrent
<1>4. CallConsistent(c)'
  <2>1. call[c].content \in Contents
    BY <1>1 DEF Consistent, CallConsistent, Persisting
  <2>2. /\ call'[c].step = "recheck" /\ call'[c].content = call[c].content
        /\ call'[c].learner = call[c].learner
    BY <1>1, <1>2 DEF Call
  <2>3. lock'[call[c].learner] = c
    BY <1>1 DEF TypeOK
  <2> QED
    BY <1>1, <1>2, <2>1, <2>2, <2>3 DEF CallConsistent, Holding, At, Call, Consistent
<1>5. LocksHeld'
  <2>1. ASSUME NEW l \in Learners, NEW d \in Calls, lock'[l] = d
        PROVE  Holding(d)' /\ call'[d].learner = l
    <3>1. CASE l = call[c].learner
      <4>1. d = c
        BY <1>1, <2>1, <3>1 DEF TypeOK
      <4> QED
        BY <4>1, <3>1, <1>1, <1>2 DEF Call, Holding, Consistent, CallConsistent
    <3>2. CASE l # call[c].learner
      <4>1. lock[l] = d
        BY <1>1, <2>1, <3>2 DEF TypeOK
      <4>2. Holding(d) /\ call[d].learner = l /\ d # c
        BY <1>1, <4>1, <3>2 DEF Consistent, LocksHeld
      <4> QED
        BY <1>2, <4>2 DEF Others, Holding
    <3> QED
      BY <3>1, <3>2
  <2> QED
    BY <2>1 DEF LocksHeld
<1>6. InsertsDistinct' /\ RowsUnique'
  BY <1>1, <1>2 DEF Consistent, InsertsDistinct, RowsUnique, Others, At, Target, Call
<1> QED
  BY <1>3, <1>4, <1>5, <1>6 DEF Consistent

\* The latest update of a learner changes only while nobody holds the learner's row.
LEMMA AdvanceStep ==
    ASSUME TypeOK, Consistent, NEW l \in Learners, Advance(l)
    PROVE  Consistent'
<1>1. ASSUME NEW c \in Calls
      PROVE  CallConsistent(c)'
  <2>1. CallConsistent(c)
    BY DEF Consistent
  <2>2. Holding(c) => call[c].learner # l /\ call[c].learner \in Learners
    BY <2>1, BusyCall, NullAssumption DEF Advance, CallConsistent, Holding
  <2>3. Holding(c) => IsCurrent(c)' = IsCurrent(c)
    BY <2>2 DEF Advance, IsCurrent, TypeOK, Target
  <2> QED
    BY <2>1, <2>3 DEF Advance, CallConsistent, Persisting, Holding, At, Target
<1> QED
  BY <1>1 DEF Advance, Consistent, LocksHeld, InsertsDistinct, RowsUnique, Holding, At, Target

-----------------------------------------------------------------------------
(***************************************************************************)
(* Every action                                                            *)
(***************************************************************************)

\* A step that answers or moves one call, storing nothing: what is left to show is what
\* the call looks like afterwards.
LEMMA GoToStep ==
    ASSUME TypeOK, Consistent, NEW c \in Calls, NEW s \in Steps,
           call[c].step # "idle", GoTo(c, s), KeepsLock(c) \/ ReleasesLock(c),
           UNCHANGED <<rows, latest>>,
           s \in {"lock", "recheck", "insert", "inserted"} => call[c].content \in Contents,
           s \in {"lock", "recheck"} => call[c].fenced,
           s \in {"recheck", "insert", "inserted"} /\ call[c].fenced
             => lock[call[c].learner] = c /\ lock' = lock,
           s \in {"insert", "inserted"} /\ call[c].fenced => IsCurrent(c),
           s = "inserted" => rows[Target(c)] = << >> /\ ~InsertedElsewhere(c),
           s # "done"
    PROVE  Consistent'
<1>1. call[c] \in Call /\ call'[c] = [call[c] EXCEPT !.step = s] /\ Others(c)
  BY BusyCall DEF GoTo, TypeOK, Others
<1>2. /\ call'[c].step = s /\ call'[c].learner = call[c].learner
      /\ call'[c].fenced = call[c].fenced /\ call'[c].content = call[c].content
      /\ call'[c].recommendation = call[c].recommendation
  BY <1>1 DEF Call
<1>3. CallConsistent(c)'
  BY <1>2 DEF CallConsistent, Persisting, Holding, At, Target, IsCurrent
<1>4. At(c, "inserted")' => \A d \in Calls \ {c} :
                              At(d, "inserted") => Target(d) # Target(c)'
  BY <1>2 DEF InsertedElsewhere, At, Target
<1> QED
  BY <1>1, <1>3, <1>4, QuietStep

LEMMA AnsweredStep ==
    ASSUME TypeOK, Consistent, NEW c \in Calls, NEW a, NEW x,
           call[c].step # "idle", Answered(c, a, x),
           lock' = Released(c) \/ (UNCHANGED lock /\ ~Holding(c)),
           UNCHANGED <<rows, latest>>,
           a = "practice" => rows[Target(c)] # << >> /\ x = rows[Target(c)][1]
    PROVE  Consistent'
<1>1. /\ call[c] \in Call /\ Others(c)
      /\ call'[c] = [call[c] EXCEPT !.step = "done", !.answer = a, !.content = x]
  BY BusyCall DEF Answered, TypeOK, Others
<1>2. /\ call'[c].step = "done" /\ call'[c].answer = a /\ call'[c].content = x
      /\ call'[c].recommendation = call[c].recommendation
  BY <1>1 DEF Call
<1>3. CallConsistent(c)' /\ ~Holding(c)'
  BY <1>2 DEF CallConsistent, Persisting, Holding, At, Target
<1>4. KeepsLock(c) \/ ReleasesLock(c)
  BY <1>3 DEF KeepsLock, ReleasesLock
<1>5. ~At(c, "inserted")'
  BY <1>2 DEF At
<1> QED
  BY <1>1, <1>3, <1>4, <1>5, QuietStep

\* A call that holds no lock may move on without one.
LEMMA Unheld ==
    ASSUME NEW c \in Calls, ~Holding(c), UNCHANGED lock
    PROVE  KeepsLock(c)
BY DEF KeepsLock

LEMMA ConsistentStep ==
    ASSUME IInv, [Next]_vars
    PROVE  Consistent'
<1>0. TypeOK /\ Consistent
  BY DEF IInv, Consistent
<1>steps. {"load", "fence", "existing", "provider", "lock", "recheck", "insert",
           "inserted", "winner", "done"} = Steps
  BY DEF Steps
<1>1. ASSUME NEW c \in Calls, NEW fenced \in BOOLEAN, NEW l \in Learners,
             NEW r \in Recommendations, Begin(c, fenced, l, r)
      PROVE  Consistent'
  <2>1. Others(c) /\ call'[c].step = "load" /\ ~Holding(c)
    BY <1>0, <1>1 DEF Begin, TypeOK, Others, Active, Holding
  <2>2. CallConsistent(c)'
    BY <2>1 DEF CallConsistent, Persisting, Holding, At
  <2> QED
    BY <1>0, <1>1, <2>1, <2>2, Unheld, QuietStep DEF Begin, At
<1>2. ASSUME NEW c \in Calls, LoadRecommendation(c)
      PROVE  Consistent'
  <2>1. call[c].step = "load" /\ ~Holding(c) /\ KeepsLock(c)
    BY <1>2, Unheld DEF LoadRecommendation, At, Holding
  <2> QED
    BY <1>0, <1>2, <2>1, <1>steps, GoToStep, AnsweredStep DEF LoadRecommendation
<1>3. ASSUME NEW c \in Calls, CheckFence(c)
      PROVE  Consistent'
  <2>1. call[c].step = "fence" /\ ~Holding(c) /\ KeepsLock(c)
    BY <1>3, Unheld DEF CheckFence, At, Holding
  <2> QED
    BY <1>0, <1>3, <2>1, <1>steps, GoToStep, AnsweredStep DEF CheckFence
<1>4. ASSUME NEW c \in Calls, ResolveExisting(c)
      PROVE  Consistent'
  <2>1. call[c].step = "existing" /\ ~Holding(c) /\ KeepsLock(c)
    BY <1>4, Unheld DEF ResolveExisting, At, Holding
  <2> QED
    BY <1>0, <1>4, <2>1, <1>steps, GoToStep, AnsweredStep DEF ResolveExisting
<1>5. ASSUME NEW c \in Calls, Generate(c)
      PROVE  Consistent'
  <2>1. call[c].step = "provider" /\ ~Holding(c) /\ call[c] \in Call
    BY <1>0, <1>5, BusyCall DEF Generate, At, Holding
  <2>2. ASSUME NEW content \in Contents,
               call' = [call EXCEPT ![c].content = content,
                                    ![c].step = IF call[c].fenced THEN "lock" ELSE "insert"]
        PROVE  Consistent'
    <3>1. Others(c) /\ call'[c] = [call[c] EXCEPT
                         !.content = content,
                         !.step = IF call[c].fenced THEN "lock" ELSE "insert"]
      BY <1>0, <2>2 DEF TypeOK, Others
    <3>2. /\ call'[c].content = content /\ call'[c].fenced = call[c].fenced
          /\ call'[c].step = IF call[c].fenced THEN "lock" ELSE "insert"
      BY <2>1, <3>1 DEF Call
    <3>3. CallConsistent(c)' /\ ~At(c, "inserted")'
      BY <3>2 DEF CallConsistent, Persisting, Holding, At
    <3> QED
      BY <1>0, <1>5, <2>1, <3>1, <3>3, Unheld, QuietStep DEF Generate
  <2>3. ASSUME call' = [call EXCEPT ![c].attempt = @ + 1]
        PROVE  Consistent'
    <3>1. Others(c) /\ call'[c] = [call[c] EXCEPT !.attempt = @ + 1]
      BY <1>0, <2>3 DEF TypeOK, Others
    <3>2. call'[c].step = "provider"
      BY <2>1, <3>1 DEF Call
    <3>3. CallConsistent(c)' /\ ~At(c, "inserted")'
      BY <3>2 DEF CallConsistent, Persisting, Holding, At
    <3> QED
      BY <1>0, <1>5, <2>1, <3>1, <3>3, Unheld, QuietStep DEF Generate
  <2>4. ASSUME NEW category, Answered(c, ProviderAnswer(category), None)
        PROVE  Consistent'
    <3>1. ProviderAnswer(category) # "practice"
      BY DEF ProviderAnswer, ProviderStatus
    <3> QED
      BY <1>0, <1>5, <2>1, <2>4, <3>1, AnsweredStep DEF Generate
  <2> QED
    BY <1>5, <2>2, <2>3, <2>4 DEF Generate
<1>6. ASSUME NEW c \in Calls, LockLearner(c)
      PROVE  Consistent'
  BY <1>0, <1>6, LockLearnerStep
<1>7. ASSUME NEW c \in Calls, Recheck(c)
      PROVE  Consistent'
  <2>1. call[c].step = "recheck" /\ call[c] \in Call
    BY <1>0, <1>7, BusyCall DEF Recheck, At
  <2>2. call[c].fenced /\ lock[call[c].learner] = c /\ call[c].content \in Contents
    BY <1>0, <2>1 DEF Consistent, CallConsistent, Persisting, Holding
  <2>3. CASE GoTo(c, "insert") /\ UNCHANGED lock /\ IsCurrent(c)
    <3>1. call'[c] = [call[c] EXCEPT !.step = "insert"]
      BY <1>0, <2>3 DEF GoTo, TypeOK
    <3>2. KeepsLock(c)
      BY <2>1, <2>2, <2>3, <3>1 DEF KeepsLock, Holding, Call
    <3> QED
      BY <1>0, <1>7, <2>1, <2>2, <2>3, <3>2, <1>steps, GoToStep DEF Recheck
  <2> QED
    BY <1>0, <1>7, <2>1, <2>3, AnsweredStep DEF Recheck
<1>8. ASSUME NEW c \in Calls, Insert(c)
      PROVE  Consistent'
  <2>1. call[c].step = "insert" /\ call[c] \in Call
    BY <1>0, <1>8, BusyCall DEF Insert, At
  <2>2. /\ call[c].content \in Contents
        /\ call[c].fenced => lock[call[c].learner] = c /\ IsCurrent(c)
    BY <1>0, <2>1 DEF Consistent, CallConsistent, Persisting, Holding, At
  <2>3. CASE rows[Target(c)] = << >> /\ GoTo(c, "inserted") /\ UNCHANGED lock
    <3>1. call'[c] = [call[c] EXCEPT !.step = "inserted"]
      BY <1>0, <2>3 DEF GoTo, TypeOK
    <3>2. KeepsLock(c)
      BY <2>1, <2>2, <2>3, <3>1 DEF KeepsLock, Holding, Call
    <3> QED
      BY <1>0, <1>8, <2>1, <2>2, <2>3, <3>2, <1>steps, GoToStep DEF Insert
  <2>4. CASE GoTo(c, "winner") /\ lock' = Released(c)
    <3>1. call'[c] = [call[c] EXCEPT !.step = "winner"]
      BY <1>0, <2>4 DEF GoTo, TypeOK
    <3>2. ReleasesLock(c)
      BY <2>1, <2>4, <3>1 DEF ReleasesLock, Holding, Call
    <3> QED
      BY <1>0, <1>8, <2>1, <2>4, <3>2, <1>steps, GoToStep DEF Insert
  <2> QED
    BY <1>8, <2>3, <2>4 DEF Insert
<1>9. ASSUME NEW c \in Calls, Commit(c)
      PROVE  Consistent'
  <2>1. call[c].step = "inserted" /\ call[c] \in Call
    BY <1>0, <1>9, BusyCall DEF Commit, MayCommit, At
  <2>2. Others(c) /\ call'[c] = [call[c] EXCEPT !.step = "done", !.answer = "practice",
                                                !.content = call[c].content]
    BY <1>0, <1>9 DEF Commit, Answered, TypeOK, Others
  <2>3. /\ call'[c].step = "done" /\ call'[c].content = call[c].content
        /\ Target(c)' = Target(c)
    BY <2>1, <2>2 DEF Call, Target
  <2> QED
    BY <1>0, <1>9, <2>2, <2>3, StoringStep DEF Commit
<1>10. ASSUME NEW c \in Calls, ResolveWinner(c)
       PROVE  Consistent'
  <2>1. call[c].step = "winner" /\ ~Holding(c)
    BY <1>10 DEF ResolveWinner, At, Holding
  <2> QED
    BY <1>0, <1>10, <2>1, AnsweredStep DEF ResolveWinner
<1>11. ASSUME NEW c \in Calls, EndDeadlock(c)
       PROVE  Consistent'
  <2>1. call[c].step # "idle"
    BY <1>11 DEF EndDeadlock, Deadlocked, At
  <2> QED
    BY <1>0, <1>11, <2>1, AnsweredStep DEF EndDeadlock
<1>12. ASSUME NEW c \in Calls, Fail(c)
       PROVE  Consistent'
  <2>1. call[c].step # "idle" /\ lock' = Released(c) /\ UNCHANGED latest
    BY <1>12 DEF Fail, Active
  <2>2. call[c] \in Call
    BY <1>0, <2>1, BusyCall
  <2>3. \/ Answered(c, "unavailable", None)
        \/ call' = [call EXCEPT ![c] = Idle]
    BY <1>12 DEF Fail
  <2>4. Others(c)
    BY <1>0, <2>3 DEF Answered, TypeOK, Others
  <2>5. \/ call'[c].step = "done" /\ call'[c].answer = "unavailable"
        \/ call'[c].step = "idle"
    <3>1. CASE Answered(c, "unavailable", None)
      <4>1. call'[c] = [call[c] EXCEPT !.step = "done", !.answer = "unavailable",
                                       !.content = None]
        BY <1>0, <3>1 DEF Answered, TypeOK
      <4> QED
        BY <2>2, <4>1 DEF Call
    <3>2. CASE call' = [call EXCEPT ![c] = Idle]
      BY <1>0, <3>2 DEF Idle, TypeOK
    <3> QED
      BY <2>3, <3>1, <3>2
  <2>6. CASE UNCHANGED rows
    <3>1. CallConsistent(c)' /\ ~Holding(c)' /\ ~At(c, "inserted")'
      BY <2>5 DEF CallConsistent, Persisting, Holding, At
    <3> QED
      BY <1>0, <2>1, <2>4, <2>6, <3>1, QuietStep DEF ReleasesLock
  <2>7. CASE MayCommit(c) /\ Stored(c)
    <3>1. /\ call'[c].step \in {"idle", "done"}
          /\ ~(At(c, "done")' /\ call'[c].answer = "practice")
      BY <2>5 DEF At
    <3> QED
      BY <1>0, <2>1, <2>4, <2>7, <3>1, StoringStep
  <2> QED
    BY <1>12, <2>6, <2>7 DEF Fail
<1>13. ASSUME NEW l \in Learners, Advance(l)
       PROVE  Consistent'
  BY <1>0, <1>13, AdvanceStep
<1>14. CASE UNCHANGED vars
  BY <1>0, <1>14 DEF vars, Consistent, CallConsistent, Persisting, Holding, At, Target,
       IsCurrent, LocksHeld, InsertsDistinct, RowsUnique
<1>15. ASSUME NEW c \in Calls, Unconfigured(c)
       PROVE  Consistent'
  <2>1. call[c].step = "load" /\ ~Holding(c) /\ KeepsLock(c)
    BY <1>15, Unheld DEF Unconfigured, At, Holding
  <2>2. ProviderAnswer("configuration") # "practice"
    BY DEF ProviderAnswer, ProviderStatus
  <2> QED
    BY <1>0, <1>15, <2>1, <2>2, AnsweredStep DEF Unconfigured
<1> QED
  BY <1>1, <1>2, <1>3, <1>4, <1>5, <1>6, <1>7, <1>8, <1>9, <1>10, <1>11, <1>12, <1>13, <1>14, <1>15
  DEF Next, Serve, Persist

-----------------------------------------------------------------------------
(***************************************************************************)
(* Theorems                                                                *)
(***************************************************************************)

LEMMA InitIInv ==
    ASSUME Init
    PROVE  IInv
<1>1. TypeOK
  BY BoundAssumption DEF Init, TypeOK
<1> QED
  BY <1>1, NullAssumption DEF Init, IInv, CallConsistent, Persisting, Holding, At, Idle,
     LocksHeld, InsertsDistinct, RowsUnique

\* The invariant holds in every state of every behaviour.
THEOREM GenerationInvariant == Spec => []IInv
<1>1. Init => IInv
  BY InitIInv
<1>2. IInv /\ [Next]_vars => IInv'
  BY TypeStep, ConsistentStep DEF IInv, Consistent
<1> QED
  BY <1>1, <1>2, PTL DEF Spec

\* The variables keep their types (the rows, locks and calls of the generation service).
THEOREM GenerationTypeCorrect == Spec => []TypeOK
<1>1. IInv => TypeOK
  BY DEF IInv
<1> QED
  BY <1>1, GenerationInvariant, PTL

\* The agent's call stores a practice only while the update it observed is still the
\* learner's latest (_persist_if_agent_current): of any number of concurrent calls and
\* learning updates, none slips between its second look and its commit.
THEOREM FencedStoresCurrent == Spec => FencedIsCurrent
<1>1. IInv => [\A c \in Calls :
         At(c, "inserted") /\ call[c].fenced /\ rows' # rows /\ call'[c] # call[c]
           => latest[call[c].learner] = UpdateOf[Target(c)]]_vars
  BY DEF IInv, CallConsistent, Holding, At, IsCurrent
<1> QED
  BY <1>1, GenerationInvariant, PTL DEF FencedIsCurrent

-----------------------------------------------------------------------------
(***************************************************************************)
(* The refinement                                                          *)
(***************************************************************************)

\* The practice of a caller that was given one is its recommendation's.
LEMMA GivenAreTruths == IInv => Given \subseteq OnePractice!Truths(rows)
<1> SUFFICES ASSUME IInv
             PROVE  Given \subseteq OnePractice!Truths(rows)
  OBVIOUS
<1>1. ASSUME NEW c \in Calls, At(c, "done"), call[c].answer = "practice"
      PROVE  <<Target(c), call[c].content>> \in OnePractice!Truths(rows)
  <2>1. /\ Target(c) \in Recommendations /\ rows[Target(c)] # << >>
        /\ call[c].content = rows[Target(c)][1]
    BY <1>1, BusyCall DEF IInv, CallConsistent, At
  <2> QED
    BY <2>1 DEF OnePractice!Truths
<1> QED
  BY <1>1 DEF Given

\* A step either leaves the practices alone or creates one where there was none.
LEMMA StepCreates ==
    ASSUME IInv, [Next]_vars
    PROVE  \/ \E r \in Recommendations, content \in Contents : OnePractice!Create(r, content)
           \/ UNCHANGED rows
<1>1. ASSUME NEW c \in Calls, MayCommit(c), Stored(c)
      PROVE  \E r \in Recommendations, content \in Contents : OnePractice!Create(r, content)
  <2>1. /\ Target(c) \in Recommendations /\ rows[Target(c)] = << >>
        /\ call[c].content \in Contents
    BY <1>1, BusyCall DEF IInv, MayCommit, At, CallConsistent, Persisting
  <2>2. rows' = [rows EXCEPT ![Target(c)] = <<call[c].content>>]
    BY <1>1, <2>1 DEF Stored, IInv, TypeOK
  <2> QED
    BY <2>1, <2>2 DEF OnePractice!Create
<1>2. ASSUME NEW c \in Calls, Serve(c), ~Commit(c)
      PROVE  UNCHANGED rows
  BY <1>2 DEF Serve, Persist, Unconfigured, LoadRecommendation, CheckFence, ResolveExisting, Generate,
     LockLearner, Recheck, Insert, ResolveWinner, EndDeadlock
<1>3. ASSUME NEW c \in Calls, Commit(c)
      PROVE  MayCommit(c) /\ Stored(c)
  BY <1>3 DEF Commit
<1>4. ASSUME NEW c \in Calls, Fail(c)
      PROVE  UNCHANGED rows \/ (MayCommit(c) /\ Stored(c))
  BY <1>4 DEF Fail
<1>5. ASSUME NEW l \in Learners, Advance(l)
      PROVE  UNCHANGED rows
  BY <1>5 DEF Advance
<1>6. ASSUME NEW c \in Calls, NEW fenced \in BOOLEAN, NEW l \in Learners,
             NEW r \in Recommendations, Begin(c, fenced, l, r)
      PROVE  UNCHANGED rows
  BY <1>6 DEF Begin
<1> QED
  BY <1>1, <1>2, <1>3, <1>4, <1>5, <1>6 DEF Next, vars

\* However calls race around the provider and the unique index, a recommendation has one
\* practice for good, and every caller that got a practice got that one.
THEOREM OnePracticeImplemented == Spec => ImplementsOnePractice
<1>1. Init => OnePractice!Init
  BY DEF Init, OnePractice!Init, Given, At, Idle
<1>2. (IInv => Given \subseteq OnePractice!Truths(rows))'
  BY GivenAreTruths, PTL
<1>3. IInv /\ [Next]_vars => IInv'
  BY TypeStep, ConsistentStep DEF IInv, Consistent
<1>4. IInv /\ [Next]_vars => [OnePractice!Next]_(OnePractice!vars)
  BY <1>2, <1>3, StepCreates DEF OnePractice!Next, OnePractice!Give, OnePractice!Truths
<1> QED
  BY <1>1, <1>4, GenerationInvariant, PTL
  DEF Spec, ImplementsOnePractice, OnePractice!Spec
=============================================================================

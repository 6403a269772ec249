---------------------------- MODULE AgentTurnProofs ----------------------------
(***************************************************************************)
(* Proofs about AgentTurn for any number of turns, updates, granular calls *)
(* and faults.                                                             *)
(***************************************************************************)
EXTENDS AgentTurn, FiniteSetTheorems, TLAPS

(***************************************************************************)
(* The inductive invariant.  What a turn may still do depends on where it  *)
(* stands in the loop: one that is about to observe has an observation     *)
(* left, one that is about to run a tool has a tool left, and as long as   *)
(* it still has an essay to send it has run no tool at all.                *)
(***************************************************************************)
Observations(q) == Count(q.trace, "observe")
Tools(q) == Len(q.trace) - Observations(q)
Generations(q) == Count(q.trace, "generate")
Completions(q) == Count(q.trace, "complete")

Within(q) ==
    /\ Tools(q) <= MaxMutations
    /\ Observations(q) <= MaxObservations
    /\ Generations(q) <= MaxGenerations
    /\ Completions(q) <= MaxCompletions
    /\ q.providers <= MaxProviderCalls

Observing == {"latest", "practice", "completion"}
Generating == {"fence", "existing", "generating"}
Submitting == {"claim", "evaluating"}

Steady(q) ==
    /\ Within(q)
    /\ q.step \in Observing => Observations(q) < MaxObservations
    /\ q.step \in Generating \cup Submitting \cup {"complete"} => Tools(q) < MaxMutations
    /\ q.step \in Generating => MayGenerate(q) /\ ~q.submits
    /\ q.step = "complete" => MayComplete(q) /\ ~q.submits
    /\ q.submits => Tools(q) = 0 /\ q.providers = 0 /\ MayGenerate(q) /\ MayComplete(q)
    /\ q.step \in {"practice", "completion"} => q.update \in Numbers
    /\ q.step = "select" => q.kind \in Kinds
    /\ q.step = "claim" => q.update = q.target
    /\ q.step \in Submitting => q.submits

TurnsOK ==
    /\ turn \in [Turns -> Turn \cup {Idle}]
    /\ \A t \in Turns : turn[t].step # "idle" => Steady(turn[t])

RowsOK ==
    /\ updates \in Seq(Decisions) /\ Len(updates) <= MaxUpdates
    /\ practice \in [Numbers -> Row]
    /\ applied \in [Numbers -> {None, "own", "other"}]
    /\ direct \in 0..MaxDirect /\ faults \in 0..MaxFaults

IInv == RowsOK /\ TurnsOK /\ disturbed \subseteq Turns

-----------------------------------------------------------------------------
(***************************************************************************)
(* Counting the steps of a trace                                           *)
(***************************************************************************)
LEMMA CountType ==
    ASSUME NEW s \in Seq(Outcomes), NEW tool PROVE Count(s, tool) \in Nat
<1>1. IsFiniteSet(1..Len(s))
  BY FS_Interval
<1>2. Numbered(s, By(tool)) \subseteq 1..Len(s)
  BY DEF Numbered
<1>3. IsFiniteSet(Numbered(s, By(tool)))
  BY <1>1, <1>2, FS_Subset
<1> QED
  BY <1>3, FS_CardinalityType DEF Count

LEMMA CountAppend ==
    ASSUME NEW s \in Seq(Outcomes), NEW o \in Outcomes, NEW tool
    PROVE  Count(Append(s, o), tool) = Count(s, tool) + IF ToolOf[o] = tool THEN 1 ELSE 0
<1> DEFINE n == Len(s) + 1
           before == Numbered(s, By(tool))
           after == Numbered(Append(s, o), By(tool))
<1>1. before \subseteq 1..Len(s) /\ n \notin before
  BY DEF Numbered
<1>2. IsFiniteSet(before)
  <2>1. IsFiniteSet(1..Len(s))
    BY FS_Interval
  <2> QED
    BY <1>1, <2>1, FS_Subset
<1>3. CASE ToolOf[o] = tool
  <2>1. after = before \cup {n}
    BY <1>3 DEF Numbered, By
  <2> QED
    BY <1>1, <1>2, <1>3, <2>1, FS_AddElement, FS_CardinalityType DEF Count
<1>4. CASE ToolOf[o] # tool
  <2>1. after = before
    BY <1>4 DEF Numbered, By
  <2> QED
    BY <1>2, <1>4, <2>1, FS_CardinalityType DEF Count
<1> QED
  BY <1>3, <1>4

\* What a step adds to a trace.
Longer(q, o) == [q EXCEPT !.trace = Append(@, o)]

LEMMA LongerTrace ==
    ASSUME NEW q \in Turn, NEW o \in Outcomes
    PROVE  /\ Longer(q, o) \in Turn
           /\ Observations(q) \in Nat /\ Generations(q) \in Nat /\ Completions(q) \in Nat
           /\ Len(q.trace) \in Nat /\ Len(Longer(q, o).trace) = Len(q.trace) + 1
           /\ Observations(Longer(q, o)) = Observations(q) + IF ToolOf[o] = "observe" THEN 1 ELSE 0
           /\ Generations(Longer(q, o)) = Generations(q) + IF ToolOf[o] = "generate" THEN 1 ELSE 0
           /\ Completions(Longer(q, o)) = Completions(q) + IF ToolOf[o] = "complete" THEN 1 ELSE 0
<1>1. q.trace \in Seq(Outcomes)
  BY DEF Turn
<1>2. ASSUME NEW s \in Seq(Outcomes)
      PROVE  [q EXCEPT !.trace = s] \in Turn /\ [q EXCEPT !.trace = s].trace = s
  BY DEF Turn
<1>3. Longer(q, o) \in Turn /\ Longer(q, o).trace = Append(q.trace, o)
  <2>1. Append(q.trace, o) \in Seq(Outcomes)
    BY <1>1
  <2>2. Longer(q, o) = [q EXCEPT !.trace = Append(q.trace, o)]
    BY DEF Longer
  <2> QED
    BY <1>2, <2>1, <2>2
<1> QED
  BY <1>1, <1>3, CountType, CountAppend DEF Observations, Generations, Completions

-----------------------------------------------------------------------------
(***************************************************************************)
(* What the turn's own operators make of it                                *)
(***************************************************************************)
\* The counts see a turn's trace and providers only.
LEMMA SameTrace ==
    ASSUME NEW q \in Turn, NEW r \in Turn, r.trace = q.trace
    PROVE  /\ Observations(r) = Observations(q) /\ Tools(r) = Tools(q)
           /\ Generations(r) = Generations(q) /\ Completions(r) = Completions(q)
           /\ MayComplete(r) = MayComplete(q)
           /\ r.providers = q.providers => Within(r) = Within(q) /\ MayGenerate(r) = MayGenerate(q)
BY DEF Observations, Tools, Generations, Completions, Within, MayGenerate, MayComplete

\* Assigning a field that the counts do not see.
LEMMA EssayField ==
    ASSUME NEW x \in Turn, NEW e \in Essays \cup {None}
    PROVE  LET y == [x EXCEPT !.essay = e] IN
           y \in Turn /\ y.step = x.step /\ y.trace = x.trace /\ y.providers = x.providers
<1>1. [x EXCEPT !.essay = e] \in Turn
  BY DEF Turn
<1> QED
  BY <1>1 DEF Turn

LEMMA UpdateOnly ==
    ASSUME NEW x \in Turn, NEW u \in 0..MaxUpdates
    PROVE  LET y == [x EXCEPT !.update = u] IN
           y \in Turn /\ y.step = x.step /\ y.trace = x.trace /\ y.providers = x.providers
<1>1. [x EXCEPT !.update = u] \in Turn
  BY DEF Turn
<1> QED
  BY <1>1 DEF Turn

LEMMA KindField ==
    ASSUME NEW x \in Turn, NEW k \in Kinds \cup {None}
    PROVE  LET y == [x EXCEPT !.kind = k] IN
           y \in Turn /\ y.step = x.step /\ y.trace = x.trace /\ y.providers = x.providers
<1>1. [x EXCEPT !.kind = k] \in Turn
  BY DEF Turn
<1> QED
  BY <1>1 DEF Turn

LEMMA EssayFoundField ==
    ASSUME NEW x \in Turn, NEW e \in Essays \cup {None}
    PROVE  LET y == [x EXCEPT !.essayFound = e] IN
           y \in Turn /\ y.step = x.step /\ y.trace = x.trace /\ y.providers = x.providers
<1>1. [x EXCEPT !.essayFound = e] \in Turn
  BY DEF Turn
<1> QED
  BY <1>1 DEF Turn

LEMMA PreparedField ==
    ASSUME NEW x \in Turn, NEW f \in BOOLEAN
    PROVE  LET y == [x EXCEPT !.prepared = f] IN
           /\ y \in Turn /\ y.step = x.step /\ y.trace = x.trace /\ y.providers = x.providers
           /\ y.submits = x.submits
<1>1. [x EXCEPT !.prepared = f] \in Turn
  BY DEF Turn
<1> QED
  BY <1>1 DEF Turn

LEMMA SubmitsField ==
    ASSUME NEW x \in Turn, NEW f \in BOOLEAN
    PROVE  LET y == [x EXCEPT !.submits = f] IN
           /\ y \in Turn /\ y.step = x.step /\ y.trace = x.trace /\ y.providers = x.providers
           /\ y.submits = f
<1>1. [x EXCEPT !.submits = f] \in Turn
  BY DEF Turn
<1>2. [x EXCEPT !.submits = f].submits = f
  BY DEF Turn
<1> QED
  BY <1>1, <1>2 DEF Turn

Stops == StopReasons \cup {"stale", "error"}

LEMMA StoppedSteady ==
    ASSUME NEW q \in Turn, Within(q), NEW reason \in Stops
    PROVE  /\ Stopped(q, reason) \in Turn /\ Steady(Stopped(q, reason))
           /\ Stopped(q, reason).step = "done"
<1> DEFINE r == Stopped(q, reason)
<1>1. /\ r \in Turn /\ r.step = "done" /\ r.trace = q.trace /\ r.providers = q.providers
      /\ r.submits = FALSE
  <2> DEFINE a == [q EXCEPT !.step = "done", !.stop = reason]
             b1 == [a EXCEPT !.essay = None]
             b == [b1 EXCEPT !.update = 0]
             c1 == [b EXCEPT !.kind = None]
             c == [c1 EXCEPT !.essayFound = None]
  <2>1. a \in Turn /\ a.step = "done" /\ a.trace = q.trace /\ a.providers = q.providers
    BY DEF Turn, Steps, Stops
  <2> DEFINE d == [c EXCEPT !.prepared = FALSE]
  <2>5. r = [d EXCEPT !.submits = FALSE]
    BY DEF Stopped
  <2> HIDE DEF a, r
  <2> DEFINE Alike(y) == /\ y \in Turn /\ y.step = "done" /\ y.trace = q.trace
                         /\ y.providers = q.providers
  <2>6. Alike(b1)
    BY <2>1, EssayField
  <2>7. Alike(b)
    <3> HIDE DEF b1
    <3>1. 0 \in 0..MaxUpdates
      BY BoundAssumption
    <3> QED
      BY <2>6, <3>1, UpdateOnly
  <2>8. Alike(c1)
    <3> HIDE DEF b
    <3> QED
      BY <2>7, KindField
  <2>9. Alike(c)
    <3> HIDE DEF c1
    <3> QED
      BY <2>8, EssayFoundField
  <2>10. Alike(d)
    <3> HIDE DEF c
    <3> QED
      BY <2>9, PreparedField
  <2> HIDE DEF d
  <2> QED
    BY <2>5, <2>10, SubmitsField
<1> HIDE DEF r
<1>2. Within(r)
  BY <1>1, SameTrace
<1>3. Steady(r)
  BY <1>1, <1>2 DEF Steady, Observing, Generating, Submitting
<1> QED
  BY <1>1, <1>3 DEF r

LEMMA ClassifiedSteady ==
    ASSUME NEW q \in Turn, Steady(q), q.step \in Observing,
           NEW kind \in Kinds, NEW essay \in Essays \cup {None}
    PROVE  LET r == Classified(q, kind, essay) IN
             r \in Turn /\ Steady(r) /\ r.step = "select"
<1> DEFINE l == Longer(q, "observation_classified")
           r == Classified(q, kind, essay)
<1>1. "observation_classified" \in Outcomes /\ ToolOf["observation_classified"] = "observe"
  BY DEF Outcomes, ToolOf
<1>2. /\ l \in Turn /\ l.providers = q.providers /\ l.submits = q.submits
      /\ Observations(l) = Observations(q) + 1 /\ Tools(l) = Tools(q)
      /\ Generations(l) = Generations(q) /\ Completions(l) = Completions(q)
      /\ Observations(q) \in Nat
  <2>1. l.providers = q.providers /\ l.submits = q.submits
    BY DEF Longer, Turn
  <2> HIDE DEF l
  <2>2. l \in Turn /\ Observations(l) = Observations(q) + 1 /\ Len(l.trace) = Len(q.trace) + 1
    BY <1>1, LongerTrace DEF l
  <2>3. /\ Generations(l) = Generations(q) /\ Completions(l) = Completions(q)
        /\ Observations(q) \in Nat /\ Generations(q) \in Nat /\ Completions(q) \in Nat
        /\ Len(q.trace) \in Nat
    <3> DEFINE o == "observation_classified"
    <3>1. o \in Outcomes /\ ToolOf[o] # "generate" /\ ToolOf[o] # "complete"
      BY <1>1
    <3> HIDE DEF o
    <3>2. l = Longer(q, o)
      BY DEF l, o
    <3>3. Observations(q) \in Nat /\ Generations(q) \in Nat /\ Completions(q) \in Nat
          /\ Len(q.trace) \in Nat
      BY <3>1, LongerTrace
    <3>4. Generations(l) = Generations(q) + 0 /\ Completions(l) = Completions(q) + 0
      BY <3>1, <3>2, LongerTrace
    <3> QED
      BY <3>3, <3>4
  <2> HIDE DEF r
  <2>4. Tools(l) = Tools(q)
    BY <2>2, <2>3 DEF Tools
  <2> QED
    BY <2>1, <2>2, <2>3, <2>4
<1>3. /\ r \in Turn /\ r.step = "select" /\ r.kind = kind /\ r.trace = l.trace
      /\ r.providers = l.providers /\ r.submits = q.submits
  <2>1. l.trace = Append(q.trace, "observation_classified") /\ l.trace \in Seq(Outcomes)
    BY <1>2 DEF Longer, Turn
  <2>2. ASSUME NEW s \in Seq(Outcomes), NEW f \in Kinds \cup {None}
        PROVE  LET x == [q EXCEPT !.step = "select", !.kind = kind, !.essayFound = essay,
                                  !.first = f, !.trace = s] IN
               /\ x \in Turn /\ x.step = "select" /\ x.kind = kind /\ x.trace = s
               /\ x.providers = q.providers /\ x.submits = q.submits
    BY DEF Turn, Steps
  <2>3. (IF q.first = None THEN kind ELSE q.first) \in Kinds \cup {None}
    BY DEF Turn
  <2>4. r = [q EXCEPT !.step = "select", !.kind = kind, !.essayFound = essay,
                      !.first = (IF q.first = None THEN kind ELSE q.first), !.trace = l.trace]
    BY <2>1 DEF Classified
  <2> HIDE DEF l, r
  <2> QED
    BY <1>2, <2>1, <2>2, <2>3, <2>4
<1> HIDE DEF l, r
<1>4. Within(r) /\ MayGenerate(r) = MayGenerate(l) /\ MayComplete(r) = MayComplete(l)
  <2>1. Within(l)
    BY <1>2 DEF Steady, Within, MaxObservations
  <2> QED
    BY <1>2, <1>3, <2>1, SameTrace
<1>5. Tools(r) = Tools(q) /\ r.providers = q.providers
  BY <1>2, <1>3, SameTrace
<1>6. MayGenerate(l) = MayGenerate(q) /\ MayComplete(l) = MayComplete(q)
  BY <1>2 DEF MayGenerate, MayComplete, Generations, Completions
<1> QED
  BY <1>3, <1>4, <1>5, <1>6 DEF Steady, Observing, Generating, Submitting, r

\* A tool has run: the turn observes again if it may.
LEMMA ToolWithin ==
    ASSUME NEW q \in Turn, Within(q), Tools(q) < MaxMutations, NEW o \in Outcomes,
           ToolOf[o] # "observe",
           ToolOf[o] = "generate" => Generations(q) < MaxGenerations,
           ToolOf[o] = "complete" => Completions(q) < MaxCompletions
    PROVE  LET l == Longer(q, o) IN
           /\ l \in Turn /\ Within(l) /\ Tools(l) = Tools(q) + 1
           /\ l.submits = q.submits /\ l.step = q.step /\ l.providers = q.providers
<1> DEFINE l == Longer(q, o)
<1>1. l.submits = q.submits /\ l.step = q.step /\ l.providers = q.providers
  BY DEF Longer, Turn
<1> HIDE DEF l
<1>2. /\ l \in Turn /\ Observations(l) = Observations(q) /\ Len(l.trace) = Len(q.trace) + 1
      /\ Observations(q) \in Nat /\ Generations(q) \in Nat /\ Completions(q) \in Nat
      /\ Len(q.trace) \in Nat
  <2>1. /\ l \in Turn /\ Len(l.trace) = Len(q.trace) + 1
        /\ Observations(l) = Observations(q) + IF ToolOf[o] = "observe" THEN 1 ELSE 0
    BY LongerTrace DEF l
  <2>2. /\ Observations(q) \in Nat /\ Generations(q) \in Nat /\ Completions(q) \in Nat
        /\ Len(q.trace) \in Nat
    BY LongerTrace
  <2> QED
    BY <2>1, <2>2
<1>3. /\ Generations(l) = Generations(q) + IF ToolOf[o] = "generate" THEN 1 ELSE 0
      /\ Completions(l) = Completions(q) + IF ToolOf[o] = "complete" THEN 1 ELSE 0
  BY LongerTrace DEF l
<1>4. Tools(l) = Tools(q) + 1
  BY <1>2 DEF Tools
<1>5. Tools(q) \in Int
  BY <1>2 DEF Tools
<1>6. Within(l)
  BY <1>1, <1>2, <1>3, <1>4, <1>5
  DEF Within, MaxMutations, MaxGenerations, MaxCompletions
<1> QED
  BY <1>1, <1>2, <1>4, <1>6 DEF l

LEMMA ReobserveSteady ==
    ASSUME NEW q \in Turn, Within(q), ~q.submits
    PROVE  Reobserve(q) \in Turn /\ Steady(Reobserve(q)) /\ Reobserve(q).step # "idle"
<1>1. CASE Observations(q) >= MaxObservations
  <2>1. Reobserve(q) = Stopped(q, "max_actions")
    BY <1>1 DEF Reobserve, Observations
  <2> QED
    BY <2>1, StoppedSteady DEF Stops, StopReasons
<1>2. CASE ~(Observations(q) >= MaxObservations)
  <2> DEFINE r == [q EXCEPT !.step = "latest"]
  <2>1. Reobserve(q) = r
    BY <1>2 DEF Reobserve, Observations
  <2>2. r \in Turn /\ r.step = "latest" /\ r.trace = q.trace /\ r.providers = q.providers
        /\ ~r.submits
    BY DEF Turn, Steps
  <2> HIDE DEF r
  <2>3. Within(r) /\ Observations(r) = Observations(q)
    BY <2>2, SameTrace
  <2>4. Observations(q) \in Nat
    BY CountType DEF Observations, Turn
  <2> QED
    BY <1>2, <2>1, <2>2, <2>3, <2>4
    DEF Steady, Observing, Generating, Submitting, MaxObservations
<1> QED
  BY <1>1, <1>2

LEMMA RanSteady ==
    ASSUME NEW q \in Turn, Within(q), Tools(q) < MaxMutations, NEW o \in Outcomes,
           ToolOf[o] # "observe", ~q.submits,
           ToolOf[o] = "generate" => Generations(q) < MaxGenerations,
           ToolOf[o] = "complete" => Completions(q) < MaxCompletions
    PROVE  Ran(q, o) \in Turn /\ Steady(Ran(q, o)) /\ Ran(q, o).step # "idle"
<1>1. Ran(q, o) = Reobserve(Longer(q, o))
  BY DEF Ran, Longer
<1>2. Longer(q, o) \in Turn /\ Within(Longer(q, o)) /\ ~Longer(q, o).submits
  BY ToolWithin
<1> QED
  BY <1>1, <1>2, ReobserveSteady

LEMMA RefusedSteady ==
    ASSUME NEW q \in Turn, Within(q), Tools(q) < MaxMutations,
           NEW o \in {"submission_conflict", "submission_in_progress"}
    PROVE  Refused(q, o) \in Turn /\ Steady(Refused(q, o)) /\ Refused(q, o).step # "idle"
<1>1. Refused(q, o) = Stopped(Longer(q, o), StopAfter[o])
  BY DEF Refused, Longer
<1>2. o \in Outcomes /\ ToolOf[o] = "submit" /\ StopAfter[o] \in Stops
  BY DEF Outcomes, ToolOf, StopAfter, Stops, StopReasons
<1>3. Longer(q, o) \in Turn /\ Within(Longer(q, o))
  BY <1>2, ToolWithin
<1> QED
  BY <1>1, <1>2, <1>3, StoppedSteady

-----------------------------------------------------------------------------
(***************************************************************************)
(* The steps of a turn                                                     *)
(***************************************************************************)
LEMMA BusyTurn ==
    ASSUME TurnsOK, NEW t \in Turns, turn[t].step # "idle"
    PROVE  turn[t] \in Turn /\ Steady(turn[t])
BY DEF TurnsOK, Idle

LEMMA BecomeSteady ==
    ASSUME TurnsOK, NEW t \in Turns, NEW q \in Turn, Steady(q), Become(t, q)
    PROVE  TurnsOK'
<1>1. turn' = [turn EXCEPT ![t] = q] /\ turn \in [Turns -> Turn \cup {Idle}]
  BY DEF Become, TurnsOK
<1>2. turn' \in [Turns -> Turn \cup {Idle}]
  BY <1>1
<1>3. \A u \in Turns : turn'[u] = q \/ turn'[u] = turn[u]
  BY <1>1
<1>4. ASSUME NEW u \in Turns, turn'[u].step # "idle" PROVE Steady(turn'[u])
  BY <1>3, <1>4 DEF TurnsOK
<1> QED
  BY <1>2, <1>4 DEF TurnsOK

LEMMA StopKeeps ==
    ASSUME TurnsOK, NEW t \in Turns, turn[t].step # "idle", NEW reason \in Stops,
           Stop(t, reason)
    PROVE  TurnsOK'
<1>1. Stopped(turn[t], reason) \in Turn /\ Steady(Stopped(turn[t], reason))
  BY BusyTurn, StoppedSteady DEF Steady
<1> QED
  BY <1>1, BecomeSteady DEF Stop

\* A turn at its next step has the counts it had.
LEMMA StepField ==
    ASSUME NEW q \in Turn, NEW s \in Steps
    PROVE  LET r == [q EXCEPT !.step = s] IN
           /\ r \in Turn /\ r.step = s /\ r.submits = q.submits /\ r.update = q.update
           /\ r.target = q.target /\ r.kind = q.kind
           /\ Observations(r) = Observations(q) /\ Tools(r) = Tools(q)
           /\ r.providers = q.providers /\ Within(r) = Within(q)
           /\ MayGenerate(r) = MayGenerate(q) /\ MayComplete(r) = MayComplete(q)
<1> DEFINE r == [q EXCEPT !.step = s]
<1>1. r \in Turn
  BY DEF Turn
<1>2. /\ r.step = s /\ r.update = q.update /\ r.target = q.target /\ r.kind = q.kind
      /\ r.trace = q.trace /\ r.providers = q.providers
  BY DEF Turn
<1>3. r.submits = q.submits
  BY DEF Turn
<1> HIDE DEF r
<1>4. /\ Observations(r) = Observations(q) /\ Tools(r) = Tools(q)
      /\ MayComplete(r) = MayComplete(q)
      /\ Within(r) = Within(q) /\ MayGenerate(r) = MayGenerate(q)
  BY <1>1, <1>2, SameTrace
<1> QED
  BY <1>1, <1>2, <1>3, <1>4 DEF r

LEMMA UpdateField ==
    ASSUME NEW q \in Turn, Steady(q), NEW u \in 0..MaxUpdates, q.step = "latest"
    PROVE  LET r == [q EXCEPT !.update = u] IN
           r \in Turn /\ Steady(r) /\ r.step = "latest" /\ r.update = u
<1> DEFINE r == [q EXCEPT !.update = u]
<1>1. r \in Turn
  BY DEF Turn
<1>2. r.step = "latest" /\ r.update = u /\ r.trace = q.trace /\ r.providers = q.providers
  BY DEF Turn
<1>3. r.submits = q.submits
  BY DEF Turn
<1> HIDE DEF r
<1>4. /\ Observations(r) = Observations(q) /\ Tools(r) = Tools(q)
      /\ MayComplete(r) = MayComplete(q)
      /\ Within(r) = Within(q) /\ MayGenerate(r) = MayGenerate(q)
  BY <1>1, <1>2, SameTrace
<1>5. Steady(r)
  BY <1>2, <1>3, <1>4 DEF Steady, Observing, Generating, Submitting
<1> QED
  BY <1>1, <1>2, <1>5 DEF r

LEMMA ProviderField ==
    ASSUME NEW q \in Turn, Within(q), q.providers < MaxProviderCalls
    PROVE  LET r == [q EXCEPT !.providers = @ + 1] IN
           /\ r \in Turn /\ Within(r) /\ Tools(r) = Tools(q) /\ r.submits = q.submits
           /\ Generations(r) = Generations(q) /\ Completions(r) = Completions(q)
<1> DEFINE r == [q EXCEPT !.providers = @ + 1]
<1>1. r \in Turn /\ r.trace = q.trace /\ r.providers = q.providers + 1
  BY DEF Turn
<1>2. r.submits = q.submits
  BY DEF Turn
<1>3. q.providers \in Nat
  BY DEF Turn
<1> HIDE DEF r
<1>4. /\ Observations(r) = Observations(q) /\ Tools(r) = Tools(q)
      /\ Generations(r) = Generations(q) /\ Completions(r) = Completions(q)
  BY <1>1, SameTrace
<1>5. Within(r)
  BY <1>1, <1>3, <1>4 DEF Within, MaxProviderCalls
<1> QED
  BY <1>1, <1>2, <1>4, <1>5 DEF r

-----------------------------------------------------------------------------
(***************************************************************************)
(* Actions of a turn, one lemma each                                       *)
(***************************************************************************)
LEMMA BeginKeeps ==
    ASSUME RowsOK, TurnsOK, NEW t \in Turns, NEW submits \in BOOLEAN, NEW n \in Numbers \cup {0},
           NEW e \in Essays \cup {None}, Begin(t, submits, n, e)
    PROVE  RowsOK' /\ TurnsOK'
<1> DEFINE q == [step |-> "latest", submits |-> submits, target |-> n, essay |-> e,
                 first |-> None, update |-> 0, kind |-> None, essayFound |-> None, trace |-> << >>,
                 providers |-> 0, prepared |-> FALSE, stop |-> None]
<1>1. q \in Turn
  <2>1. 0 \in 0..MaxUpdates
    BY BoundAssumption
  <2> QED
    BY <2>1 DEF Turn, Steps
<1>2. q.trace = << >> /\ q.providers = 0 /\ q.step = "latest"
  OBVIOUS
<1> HIDE DEF q
<1>3. \A tool : Count(q.trace, tool) = 0
  <2>1. \A tool : Numbered(q.trace, By(tool)) = {}
    BY <1>2 DEF Numbered
  <2> QED
    BY <2>1, FS_EmptySet DEF Count
<1>4. Observations(q) = 0 /\ Generations(q) = 0 /\ Completions(q) = 0 /\ Tools(q) = 0
  BY <1>2, <1>3 DEF Observations, Generations, Completions, Tools
<1>5. Within(q) /\ MayGenerate(q) /\ MayComplete(q)
  BY <1>2, <1>3, <1>4 DEF Within, MayGenerate, MayComplete, MaxMutations, MaxObservations,
     MaxGenerations, MaxCompletions, MaxProviderCalls
<1>6. Steady(q)
  BY <1>2, <1>4, <1>5
  DEF Steady, Observing, Generating, Submitting, MaxObservations, MaxMutations
<1>7. Become(t, q) /\ RowsOK'
  BY DEF Begin, RowsOK, q
<1> QED
  BY <1>1, <1>6, <1>7, BecomeSteady

LEMMA ReadLatestKeeps ==
    ASSUME RowsOK, TurnsOK, NEW t \in Turns, ReadLatest(t)
    PROVE  RowsOK' /\ TurnsOK'
<1> DEFINE q == [turn[t] EXCEPT !.update = Latest]
<1>1. RowsOK' /\ turn[t].step = "latest"
  BY DEF ReadLatest, RowsOK, At
<1>2. Latest \in 0..MaxUpdates
  BY BoundAssumption DEF RowsOK, Latest
<1>3. turn[t] \in Turn /\ Steady(turn[t])
  BY <1>1, BusyTurn
<1>4. q \in Turn /\ Steady(q) /\ q.step = "latest" /\ q.update = Latest
  BY <1>1, <1>2, <1>3, UpdateField
<1> HIDE DEF q
<1>5. CASE Latest = 0
  <2> DEFINE r == Classified(q, "needs_initial_writing", None)
  <2>1. r \in Turn /\ Steady(r)
    BY <1>4, ClassifiedSteady DEF Kinds, Observing
  <2>2. Become(t, r)
    BY <1>5 DEF ReadLatest, q
  <2> QED
    BY <1>1, <2>1, <2>2, BecomeSteady
<1>6. CASE Latest # 0 /\ updates[Latest] = "practice"
  <2> DEFINE r == [q EXCEPT !.step = "practice"]
  <2>1. Become(t, r)
    BY <1>6 DEF ReadLatest, q
  <2>2. Latest \in Numbers
    BY <1>2, <1>6 DEF Numbers
  <2>3. /\ r \in Turn /\ r.step = "practice" /\ r.submits = q.submits /\ r.update = q.update
        /\ Observations(r) = Observations(q) /\ Tools(r) = Tools(q)
        /\ r.providers = q.providers /\ Within(r) = Within(q)
        /\ MayGenerate(r) = MayGenerate(q) /\ MayComplete(r) = MayComplete(q)
    BY <1>4, StepField DEF Steps
  <2> HIDE DEF r
  <2>4. Steady(r)
    BY <1>4, <2>2, <2>3 DEF Steady, Observing, Generating, Submitting
  <2> QED
    BY <1>1, <2>1, <2>3, <2>4, BecomeSteady
<1>7. CASE Latest # 0 /\ updates[Latest] # "practice"
  <2> DEFINE r == Classified(q, "no_practice", None)
  <2>1. r \in Turn /\ Steady(r)
    BY <1>4, ClassifiedSteady DEF Kinds, Observing
  <2>2. Become(t, r)
    BY <1>7 DEF ReadLatest, q
  <2> QED
    BY <1>1, <2>1, <2>2, BecomeSteady
<1> QED
  BY <1>5, <1>6, <1>7

LEMMA ReadPracticeKeeps ==
    ASSUME RowsOK, TurnsOK, NEW t \in Turns, ReadPractice(t)
    PROVE  RowsOK' /\ TurnsOK'
<1> DEFINE q == turn[t]
           row == practice[q.update]
<1>1. RowsOK' /\ q.step = "practice"
  BY DEF ReadPractice, RowsOK, At
<1>2. q \in Turn /\ Steady(q)
  BY <1>1, BusyTurn
<1>3. row \in Row
  BY <1>1, <1>2 DEF RowsOK, Steady
<1>4. row.essay \in Essays \cup {None}
      /\ row.state \in {"none", "generated", "submission_in_progress", "submitted"}
  BY <1>3 DEF Row
<1>5. ASSUME NEW kind \in Kinds, NEW essay \in Essays \cup {None},
             Become(t, Classified(q, kind, essay))
      PROVE  TurnsOK'
  BY <1>1, <1>2, <1>5, ClassifiedSteady, BecomeSteady DEF Observing
<1>6. CASE row.state = "submitted"
  <2> DEFINE x == [q EXCEPT !.essayFound = row.essay]
             r == [x EXCEPT !.step = "completion"]
  <2>1. x \in Turn
    BY <1>2, <1>4 DEF Turn
  <2>2. x.trace = q.trace /\ x.providers = q.providers /\ x.update = q.update
    BY <1>2 DEF Turn
  <2>3. x.submits = q.submits
    BY <1>2 DEF Turn
  <2>4. r = [q EXCEPT !.step = "completion", !.essayFound = row.essay]
    BY <1>2 DEF Turn
  <2>5. Become(t, r)
    BY <1>6, <2>4 DEF ReadPractice
  <2> HIDE DEF x, q
  <2>6. /\ Observations(x) = Observations(q) /\ Tools(x) = Tools(q)
        /\ Within(x) = Within(q) /\ MayGenerate(x) = MayGenerate(q)
        /\ MayComplete(x) = MayComplete(q)
    BY <1>2, <2>1, <2>2, SameTrace
  <2>7. /\ r \in Turn /\ r.step = "completion" /\ r.submits = x.submits /\ r.update = x.update
        /\ Observations(r) = Observations(x) /\ Tools(r) = Tools(x)
        /\ r.providers = x.providers /\ Within(r) = Within(x)
        /\ MayGenerate(r) = MayGenerate(x) /\ MayComplete(r) = MayComplete(x)
    BY <2>1, StepField DEF Steps
  <2> HIDE DEF r
  <2>8. Steady(r)
    BY <1>1, <1>2, <2>2, <2>3, <2>6, <2>7 DEF Steady, Observing, Generating, Submitting, q
  <2> QED
    BY <1>1, <2>5, <2>7, <2>8, BecomeSteady
<1>7. CASE row.state = "none"
  <2>1. Become(t, Classified(q, "needs_generation", None))
    BY <1>7 DEF ReadPractice
  <2> QED
    BY <1>1, <1>5, <2>1 DEF Kinds
<1>8. CASE row.state = "generated"
  <2>1. Become(t, Classified(q, "needs_practice_submission", None))
    BY <1>8 DEF ReadPractice
  <2> QED
    BY <1>1, <1>5, <2>1 DEF Kinds
<1>9. CASE row.state = "submission_in_progress"
  <2>1. Become(t, Classified(q, "await_submission", row.essay))
    BY <1>9 DEF ReadPractice
  <2> QED
    BY <1>1, <1>4, <1>5, <2>1 DEF Kinds
<1> QED
  BY <1>4, <1>6, <1>7, <1>8, <1>9

LEMMA ReadCompletionKeeps ==
    ASSUME RowsOK, TurnsOK, NEW t \in Turns, ReadCompletion(t)
    PROVE  RowsOK' /\ TurnsOK'
<1>1. RowsOK' /\ turn[t].step = "completion"
  BY DEF ReadCompletion, RowsOK, At
<1>2. turn[t] \in Turn /\ Steady(turn[t])
  BY <1>1, BusyTurn
<1>3. CASE applied[turn[t].update] # None
  <2>1. Stop(t, "error")
    BY <1>3 DEF ReadCompletion, Stop
  <2> QED
    BY <1>1, <2>1, StopKeeps DEF Stops
<1>4. CASE applied[turn[t].update] = None
  <2> DEFINE r == Classified(turn[t], "needs_completion", turn[t].essayFound)
  <2>1. turn[t].essayFound \in Essays \cup {None}
    BY <1>2 DEF Turn
  <2>2. r \in Turn /\ Steady(r)
    BY <1>1, <1>2, <2>1, ClassifiedSteady DEF Kinds, Observing
  <2>3. Become(t, r)
    BY <1>4 DEF ReadCompletion
  <2> QED
    BY <1>1, <2>2, <2>3, BecomeSteady
<1> QED
  BY <1>3, <1>4

\* A turn that has room for one more tool, as the counts have it.
LEMMA RoomForTool ==
    ASSUME NEW t \in Turns, turn[t] \in Turn
    PROVE  Mutations(t) = Tools(turn[t])
BY DEF Mutations, Tools, Observations

LEMMA SelectReplayKeeps ==
    ASSUME RowsOK, TurnsOK, NEW t \in Turns, SelectReplay(t)
    PROVE  TurnsOK'
<1> DEFINE q == turn[t]
           row == practice[q.target]
           l == Longer(q, "submission_reused")
           reused == [l EXCEPT !.submits = FALSE]
<1>1. q.step = "select" /\ q.submits
  BY DEF SelectReplay, Selecting, At
<1>2. q \in Turn /\ Steady(q)
  BY <1>1, BusyTurn
<1>3. Within(q) /\ Tools(q) = 0 /\ MayComplete(q) /\ 0 < MaxMutations
  BY <1>1, <1>2 DEF Steady, MaxMutations
<1>4. CASE row.state # "submitted"
  <2>1. Stop(t, "stale")
    BY <1>4 DEF SelectReplay, Stop
  <2> QED
    BY <1>1, <2>1, StopKeeps DEF Stops
<1>5. CASE row.state = "submitted" /\ row.essay # q.essay
  <2>1. Become(t, Refused(q, "submission_conflict"))
    BY <1>5 DEF SelectReplay
  <2>2. Refused(q, "submission_conflict") \in Turn /\ Steady(Refused(q, "submission_conflict"))
    BY <1>2, <1>3, RefusedSteady
  <2> QED
    BY <2>1, <2>2, BecomeSteady
<1>6. /\ l \in Turn /\ Within(l) /\ Tools(l) = 1
      /\ l.providers = q.providers /\ l.step = q.step
  <2>1. "submission_reused" \in Outcomes /\ ToolOf["submission_reused"] = "submit"
    BY DEF Outcomes, ToolOf
  <2> QED
    BY <1>2, <1>3, <2>1, ToolWithin
<1>7. MayComplete(l)
  <2>1. "submission_reused" \in Outcomes /\ ToolOf["submission_reused"] = "submit"
    BY DEF Outcomes, ToolOf
  <2>2. Completions(l) = Completions(q)
    BY <1>2, <2>1, LongerTrace
  <2> QED
    BY <1>3, <2>2 DEF MayComplete, Completions
<1>8. /\ reused \in Turn /\ reused.trace = l.trace /\ reused.providers = l.providers
      /\ reused.submits = FALSE
  <2> HIDE DEF l
  <2> QED
    BY <1>6, SubmitsField
<1>9. reused = [q EXCEPT !.trace = Append(@, "submission_reused"), !.submits = FALSE]
  BY DEF Longer
<1> HIDE DEF l, reused
<1>10. Within(reused) /\ Tools(reused) = 1 /\ MayComplete(reused)
  BY <1>6, <1>7, <1>8, SameTrace
<1>11. CASE row.state = "submitted" /\ row.essay = q.essay /\ applied[q.target] = None
  <2> DEFINE x == [reused EXCEPT !.step = "complete"]
             r == [x EXCEPT !.update = q.target]
  <2>1. Become(t, [reused EXCEPT !.step = "complete", !.update = q.target])
    BY <1>9, <1>11 DEF SelectReplay
  <2>2. r = [reused EXCEPT !.step = "complete", !.update = q.target]
    BY <1>8 DEF Turn
  <2>3. /\ x \in Turn /\ x.step = "complete" /\ x.submits = FALSE
        /\ Within(x) /\ Tools(x) = 1 /\ MayComplete(x)
    BY <1>8, <1>10, StepField DEF Steps
  <2> HIDE DEF x
  <2>4. q.target \in 0..MaxUpdates
    BY <1>2, BoundAssumption DEF Turn, Numbers
  <2>5. r \in Turn
    BY <2>3, <2>4 DEF Turn
  <2>6. r.trace = x.trace /\ r.providers = x.providers /\ r.step = "complete"
    BY <2>3 DEF Turn
  <2>7. r.submits = FALSE
    BY <2>3 DEF Turn
  <2> HIDE DEF r
  <2>8. Within(r) /\ Tools(r) = 1 /\ MayComplete(r)
    BY <2>3, <2>5, <2>6, SameTrace
  <2>9. Steady(r)
    BY <2>6, <2>7, <2>8 DEF Steady, Observing, Generating, Submitting, MaxMutations
  <2> QED
    BY <2>1, <2>2, <2>5, <2>9, BecomeSteady
<1>12. CASE row.state = "submitted" /\ row.essay = q.essay /\ applied[q.target] # None
  <2>1. Become(t, Reobserve(reused))
    BY <1>9, <1>12 DEF SelectReplay
  <2>2. Reobserve(reused) \in Turn /\ Steady(Reobserve(reused))
    BY <1>8, <1>10, ReobserveSteady
  <2> QED
    BY <2>1, <2>2, BecomeSteady
<1> QED
  BY <1>4, <1>5, <1>11, <1>12

LEMMA SelectSubmissionKeeps ==
    ASSUME RowsOK, TurnsOK, NEW t \in Turns, SelectSubmission(t)
    PROVE  TurnsOK'
<1> DEFINE q == turn[t]
<1>1. q.step = "select" /\ q.submits /\ q.update = q.target
  BY DEF SelectSubmission, Selecting, At, IsCurrent
<1>2. q \in Turn /\ Steady(q)
  BY <1>1, BusyTurn
<1>3. Within(q) /\ Tools(q) = 0 /\ 0 < MaxMutations /\ MayGenerate(q) /\ MayComplete(q)
      /\ q.providers = 0
  BY <1>1, <1>2 DEF Steady, MaxMutations
<1>4. CASE q.essayFound \notin {None, q.essay}
  <2>1. Become(t, Refused(q, "submission_conflict"))
    BY <1>4 DEF SelectSubmission
  <2>2. Refused(q, "submission_conflict") \in Turn /\ Steady(Refused(q, "submission_conflict"))
    BY <1>2, <1>3, RefusedSteady
  <2> QED
    BY <2>1, <2>2, BecomeSteady
<1>5. CASE q.essayFound \in {None, q.essay}
  <2> DEFINE r == [q EXCEPT !.step = "claim"]
  <2>1. Become(t, r)
    BY <1>5 DEF SelectSubmission, GoTo
  <2>2. /\ r \in Turn /\ r.step = "claim" /\ r.submits = q.submits /\ r.update = q.update
        /\ r.target = q.target /\ Tools(r) = Tools(q)
        /\ r.providers = q.providers /\ Within(r) = Within(q)
        /\ MayGenerate(r) = MayGenerate(q) /\ MayComplete(r) = MayComplete(q)
    BY <1>2, StepField DEF Steps
  <2> HIDE DEF r
  <2>3. Steady(r)
    BY <1>1, <1>3, <2>2 DEF Steady, Observing, Generating, Submitting
  <2> QED
    BY <2>1, <2>2, <2>3, BecomeSteady
<1> QED
  BY <1>4, <1>5

LEMMA SelectContinueKeeps ==
    ASSUME RowsOK, TurnsOK, NEW t \in Turns, SelectContinue(t)
    PROVE  TurnsOK'
<1> DEFINE q == turn[t]
<1>1. q.step = "select" /\ ~q.submits /\ Mutations(t) < MaxMutations
  BY DEF SelectContinue, Selecting, At
<1>2. q \in Turn /\ Steady(q)
  BY <1>1, BusyTurn
<1>3. Within(q) /\ Tools(q) < MaxMutations /\ q.kind \in Kinds
  BY <1>1, <1>2, RoomForTool DEF Steady
<1>4. ASSUME NEW s \in {"fence", "complete"}, GoTo(t, s),
             s = "fence" => MayGenerate(q), s = "complete" => MayComplete(q)
      PROVE  TurnsOK'
  <2> DEFINE r == [q EXCEPT !.step = s]
  <2>0. s \in Steps
    BY DEF Steps
  <2>1. /\ r \in Turn /\ r.step = s /\ r.submits = q.submits /\ Tools(r) = Tools(q)
        /\ Within(r) = Within(q)
        /\ MayGenerate(r) = MayGenerate(q) /\ MayComplete(r) = MayComplete(q)
    BY <1>2, <2>0, StepField
  <2>2. Become(t, r)
    BY <1>4 DEF GoTo
  <2> HIDE DEF r
  <2>3. Steady(r)
    BY <1>1, <1>3, <1>4, <2>1 DEF Steady, Observing, Generating, Submitting
  <2> QED
    BY <2>1, <2>2, <2>3, BecomeSteady
<1>5. ASSUME NEW reason \in Stops, Stop(t, reason) PROVE TurnsOK'
  BY <1>1, <1>5, StopKeeps
<1>6. CASE q.kind = "needs_generation"
  <2>1. IF MayGenerate(q) THEN GoTo(t, "fence") ELSE Stop(t, "max_actions")
    BY <1>6 DEF SelectContinue
  <2> QED
    BY <1>4, <1>5, <2>1 DEF Stops, StopReasons
<1>7. CASE q.kind = "needs_completion"
  <2>1. IF MayComplete(q) THEN GoTo(t, "complete") ELSE Stop(t, "max_actions")
    BY <1>7 DEF SelectContinue
  <2> QED
    BY <1>4, <1>5, <2>1 DEF Stops, StopReasons
<1>8. CASE q.kind = "needs_practice_submission" /\ q.prepared
  <2>1. Stop(t, "practice_ready")
    BY <1>8 DEF SelectContinue
  <2> QED
    BY <1>5, <2>1 DEF Stops, StopReasons
<1>9. CASE q.kind \notin {"needs_generation", "needs_completion"}
           /\ ~(q.kind = "needs_practice_submission" /\ q.prepared)
  <2>1. Stop(t, q.kind)
    BY <1>9 DEF SelectContinue
  <2>2. q.kind \in Stops
    BY <1>3, <1>9 DEF Kinds, Stops, StopReasons
  <2> QED
    BY <1>5, <2>1, <2>2
<1> QED
  BY <1>6, <1>7, <1>8, <1>9

LEMMA SelectKeeps ==
    ASSUME RowsOK, TurnsOK, NEW t \in Turns, Select(t)
    PROVE  RowsOK' /\ TurnsOK'
<1>1. RowsOK'
  BY DEF Select, RowsOK
<1>2. CASE OutOfActions(t)
  <2>1. turn[t].step = "select" /\ Stop(t, "max_actions")
    BY <1>2 DEF OutOfActions, At
  <2> QED
    BY <1>1, <2>1, StopKeeps DEF Stops, StopReasons
<1> QED
  BY <1>1, <1>2, SelectReplayKeeps, SelectSubmissionKeeps, SelectContinueKeeps DEF Select

LEMMA GenerationRanSteady ==
    ASSUME NEW q \in Turn, Within(q), Tools(q) < MaxMutations, Generations(q) < MaxGenerations,
           ~q.submits, NEW o \in By("generate")
    PROVE  GenerationRan(q, o) \in Turn /\ Steady(GenerationRan(q, o))
<1> DEFINE r == [q EXCEPT !.prepared = o \in Prepared]
<1>1. o \in Outcomes /\ ToolOf[o] = "generate"
  BY DEF By
<1>2. r \in Turn /\ r.trace = q.trace /\ r.providers = q.providers /\ ~r.submits
  <2>1. (o \in Prepared) \in BOOLEAN
    OBVIOUS
  <2> QED
    BY <2>1, PreparedField
<1>3. GenerationRan(q, o) = Ran(r, o)
  BY DEF GenerationRan
<1> HIDE DEF r
<1>4. Within(r) /\ Tools(r) = Tools(q) /\ Generations(r) = Generations(q)
  BY <1>2, SameTrace
<1> QED
  BY <1>1, <1>2, <1>3, <1>4, RanSteady

LEMMA GenerateOutcomes ==
    {"generation_stale_discarded", "practice_resolved", "practice_generated"} \subseteq By("generate")
BY DEF By, Outcomes, ToolOf

\* A step within generate_or_resolve_current.
LEMMA GeneratingTurn ==
    ASSUME TurnsOK, NEW t \in Turns, turn[t].step \in Generating
    PROVE  /\ turn[t] \in Turn /\ Steady(turn[t]) /\ Within(turn[t])
           /\ Tools(turn[t]) < MaxMutations /\ ~turn[t].submits /\ MayGenerate(turn[t])
           /\ Generations(turn[t]) < MaxGenerations /\ turn[t].providers < MaxProviderCalls
BY BusyTurn DEF Generating, Steady, MayGenerate, Generations

LEMMA GoGenerating ==
    ASSUME TurnsOK, NEW t \in Turns, turn[t].step \in Generating, NEW s \in Generating,
           GoTo(t, s)
    PROVE  TurnsOK'
<1> DEFINE q == turn[t]
           r == [q EXCEPT !.step = s]
<1>1. /\ q \in Turn /\ Within(q) /\ Tools(q) < MaxMutations /\ ~q.submits /\ MayGenerate(q)
  BY GeneratingTurn
<1>2. s \in Steps
  BY DEF Generating, Steps
<1>3. /\ r \in Turn /\ r.step = s /\ r.submits = q.submits /\ Tools(r) = Tools(q)
      /\ Within(r) = Within(q) /\ MayGenerate(r) = MayGenerate(q)
  BY <1>1, <1>2, StepField
<1>4. Become(t, r)
  BY DEF GoTo
<1> HIDE DEF r
<1>5. Steady(r)
  BY <1>1, <1>3 DEF Steady, Observing, Generating, Submitting
<1> QED
  BY <1>3, <1>4, <1>5, BecomeSteady

LEMMA CheckFenceKeeps ==
    ASSUME RowsOK, TurnsOK, NEW t \in Turns, CheckFence(t)
    PROVE  RowsOK' /\ TurnsOK'
<1>1. RowsOK' /\ turn[t].step \in Generating
  BY DEF CheckFence, RowsOK, At, Generating
<1>2. CASE IsLatest(t)
  <2>1. GoTo(t, "existing")
    BY <1>2 DEF CheckFence
  <2> QED
    BY <1>1, <2>1, GoGenerating DEF Generating
<1>3. CASE ~IsLatest(t)
  <2>1. Become(t, GenerationRan(turn[t], "generation_stale_discarded"))
    BY <1>3 DEF CheckFence
  <2> QED
    BY <1>1, <2>1, GeneratingTurn, GenerateOutcomes, GenerationRanSteady, BecomeSteady
<1> QED
  BY <1>2, <1>3

LEMMA ResolveExistingKeeps ==
    ASSUME RowsOK, TurnsOK, NEW t \in Turns, ResolveExisting(t)
    PROVE  RowsOK' /\ TurnsOK'
<1>1. RowsOK' /\ turn[t].step \in Generating
  BY DEF ResolveExisting, RowsOK, At, Generating
<1>2. CASE practice[turn[t].update].state = "none"
  <2>1. GoTo(t, "generating")
    BY <1>2 DEF ResolveExisting
  <2> QED
    BY <1>1, <2>1, GoGenerating DEF Generating
<1>3. CASE practice[turn[t].update].state # "none"
  <2>1. Become(t, GenerationRan(turn[t], "practice_resolved"))
    BY <1>3 DEF ResolveExisting
  <2> QED
    BY <1>1, <2>1, GeneratingTurn, GenerateOutcomes, GenerationRanSteady, BecomeSteady
<1> QED
  BY <1>2, <1>3

LEMMA RowChange ==
    ASSUME practice \in [Numbers -> Row], NEW n, NEW row \in Row,
           practice' = [practice EXCEPT ![n] = row]
    PROVE  practice' \in [Numbers -> Row] /\ \A m \in Numbers : m # n => practice'[m] = practice[m]
OBVIOUS

LEMMA GeneratedType == Generated \in Row
<1>1. Generated = [state |-> "generated", essay |-> None, holder |-> None]
  BY DEF Generated, NoPractice
<1> QED
  BY <1>1 DEF Row

LEMMA PersistKeeps ==
    ASSUME RowsOK, TurnsOK, NEW t \in Turns, PersistGenerated(t)
    PROVE  RowsOK' /\ TurnsOK'
<1> DEFINE q == turn[t]
           r == [q EXCEPT !.providers = @ + 1]
           outcome == CASE ~IsLatest(t) -> "generation_stale_discarded"
                        [] practice' = practice -> "practice_resolved"
                        [] OTHER -> "practice_generated"
<1>1. q.step \in Generating
  BY DEF PersistGenerated, PersistIf, At, Generating
<1>2. /\ q \in Turn /\ Within(q) /\ Tools(q) < MaxMutations /\ ~q.submits
      /\ Generations(q) < MaxGenerations /\ q.providers < MaxProviderCalls
  BY <1>1, GeneratingTurn
<1>3. /\ r \in Turn /\ Within(r) /\ Tools(r) < MaxMutations /\ ~r.submits
      /\ Generations(r) < MaxGenerations
  BY <1>2, ProviderField
<1>4. outcome = "generation_stale_discarded" \/ outcome = "practice_resolved"
      \/ outcome = "practice_generated"
  <2>1. CASE ~IsLatest(t)
    BY <2>1
  <2>2. CASE IsLatest(t) /\ practice' = practice
    BY <2>2
  <2>3. CASE IsLatest(t) /\ practice' # practice
    BY <2>3
  <2> QED
    BY <2>1, <2>2, <2>3
<1>5. Become(t, GenerationRan(r, outcome))
  BY DEF PersistGenerated, PersistIf
<1>6. practice' \in [Numbers -> Row]
  <2>1. practice' = practice \/ practice' = [practice EXCEPT ![q.update] = Generated]
    BY DEF PersistGenerated, PersistIf
  <2> QED
    BY <2>1, RowChange, GeneratedType DEF RowsOK
<1>7. RowsOK'
  BY <1>6 DEF RowsOK, PersistGenerated, PersistIf
<1> HIDE DEF r, outcome
<1>8. outcome \in By("generate")
  BY <1>4, GenerateOutcomes
<1>9. GenerationRan(r, outcome) \in Turn /\ Steady(GenerationRan(r, outcome))
  BY <1>3, <1>8, GenerationRanSteady
<1> QED
  BY <1>5, <1>7, <1>9, BecomeSteady

\* A step of submit.
LEMMA SubmittingTurn ==
    ASSUME TurnsOK, NEW t \in Turns, turn[t].step \in Submitting
    PROVE  /\ turn[t] \in Turn /\ Steady(turn[t]) /\ Within(turn[t]) /\ turn[t].submits
           /\ Tools(turn[t]) = 0 /\ 0 < MaxMutations /\ turn[t].providers = 0
           /\ turn[t].providers < MaxProviderCalls
           /\ MayGenerate(turn[t]) /\ MayComplete(turn[t])
<1>1. turn[t] \in Turn /\ Steady(turn[t])
  BY BusyTurn DEF Submitting
<1> QED
  BY <1>1 DEF Steady, MaxMutations, MaxProviderCalls

LEMMA SubmitOutcomes ==
    ASSUME NEW o \in {"submission_reused", "submission_submitted"}
    PROVE  o \in Outcomes /\ ToolOf[o] = "submit"
BY DEF Outcomes, ToolOf

LEMMA ClaimedType ==
    ASSUME NEW e \in Essays \cup {None}, NEW h \in Turns \cup {Client, None}
    PROVE  Claimed(e, h) \in Row
BY DEF Claimed, Row

\* The essay was taken, by this turn or by another: what remains is to complete it.
LEMMA SentSteady ==
    ASSUME NEW q \in Turn, Within(q), Tools(q) < MaxMutations,
           NEW o \in {"submission_reused", "submission_submitted"}
    PROVE  LET r == [q EXCEPT !.submits = FALSE] IN Ran(r, o) \in Turn /\ Steady(Ran(r, o))
<1> DEFINE r == [q EXCEPT !.submits = FALSE]
<1>1. r \in Turn /\ r.trace = q.trace /\ r.providers = q.providers /\ r.submits = FALSE
  BY SubmitsField
<1> HIDE DEF r
<1>2. Within(r) /\ Tools(r) < MaxMutations
  BY <1>1, SameTrace
<1>3. Ran(r, o) \in Turn /\ Steady(Ran(r, o))
  BY <1>1, <1>2, SubmitOutcomes, RanSteady
<1> QED
  BY <1>3 DEF r

LEMMA ClaimKeeps ==
    ASSUME RowsOK, TurnsOK, NEW t \in Turns, Claim(t)
    PROVE  RowsOK' /\ TurnsOK'
<1> DEFINE q == turn[t]
<1>1. q.step \in Submitting /\ q.step = "claim"
  BY DEF Claim, At, Submitting
<1>2. /\ q \in Turn /\ Steady(q) /\ Within(q) /\ q.submits /\ Tools(q) = 0 /\ 0 < MaxMutations
      /\ q.providers = 0 /\ MayGenerate(q) /\ MayComplete(q)
  BY <1>1, SubmittingTurn
<1>3. CASE Stop(t, "stale") /\ UNCHANGED practice
  BY <1>1, <1>3, StopKeeps DEF Stops, Claim, RowsOK
<1>4. ASSUME NEW o \in {"submission_conflict", "submission_in_progress"},
             Become(t, Refused(q, o)), UNCHANGED practice
      PROVE  RowsOK' /\ TurnsOK'
  <2>1. Refused(q, o) \in Turn /\ Steady(Refused(q, o))
    BY <1>2, RefusedSteady
  <2> QED
    BY <1>4, <2>1, BecomeSteady DEF Claim, RowsOK
<1>5. CASE /\ Become(t, Ran([q EXCEPT !.submits = FALSE], "submission_reused"))
           /\ UNCHANGED practice
  <2> DEFINE r == Ran([q EXCEPT !.submits = FALSE], "submission_reused")
  <2>1. r \in Turn /\ Steady(r)
    BY <1>2, SentSteady
  <2> QED
    BY <1>5, <2>1, BecomeSteady DEF Claim, RowsOK
<1>6. CASE /\ practice' = [practice EXCEPT ![q.target] = Claimed(q.essay, t)]
           /\ GoTo(t, "evaluating")
  <2> DEFINE r == [q EXCEPT !.step = "evaluating"]
  <2>1. /\ r \in Turn /\ r.step = "evaluating" /\ r.submits = q.submits /\ Tools(r) = Tools(q)
        /\ r.providers = q.providers /\ Within(r) = Within(q)
        /\ MayGenerate(r) = MayGenerate(q) /\ MayComplete(r) = MayComplete(q)
    BY <1>2, StepField DEF Steps
  <2>2. Become(t, r)
    BY <1>6 DEF GoTo
  <2> HIDE DEF r
  <2>3. Steady(r)
    BY <1>2, <2>1 DEF Steady, Observing, Generating, Submitting
  <2>4. Claimed(q.essay, t) \in Row
    BY <1>2, ClaimedType DEF Turn
  <2>5. practice' \in [Numbers -> Row]
    BY <1>6, <2>4, RowChange DEF RowsOK
  <2> QED
    BY <2>1, <2>2, <2>3, <2>5, BecomeSteady DEF Claim, RowsOK
<1> QED
  BY <1>3, <1>4, <1>5, <1>6 DEF Claim

LEMMA SubmittedType ==
    ASSUME practice \in [Numbers -> Row], NEW n, Submitted(n)
    PROVE  /\ practice' \in [Numbers -> Row]
           /\ \A m \in Numbers : m # n => practice'[m] = practice[m]
           /\ \A m \in Numbers : m = n => practice'[m].holder = None
                                        /\ practice'[m].state = "submitted"
<1>1. CASE n \in Numbers
  <2> DEFINE row == [practice[n] EXCEPT !.state = "submitted", !.holder = None]
  <2>1. row \in Row /\ row.holder = None /\ row.state = "submitted"
    BY <1>1 DEF Row
  <2>2. practice' = [practice EXCEPT ![n] = row]
    BY <1>1 DEF Submitted
  <2> QED
    BY <2>1, <2>2
<1>2. CASE n \notin Numbers
  <2>1. practice' = practice
    BY <1>2 DEF Submitted
  <2> QED
    BY <1>2, <2>1
<1> QED
  BY <1>1, <1>2

LEMMA FinishEvaluationKeeps ==
    ASSUME RowsOK, TurnsOK, NEW t \in Turns, FinishEvaluation(t)
    PROVE  RowsOK' /\ TurnsOK'
<1> DEFINE q == turn[t]
           x == [q EXCEPT !.providers = @ + 1]
           y == [x EXCEPT !.submits = FALSE]
<1>1. q.step \in Submitting
  BY DEF FinishEvaluation, At, Submitting
<1>2. /\ q \in Turn /\ Within(q) /\ Tools(q) = 0 /\ 0 < MaxMutations
      /\ q.providers < MaxProviderCalls
  BY <1>1, SubmittingTurn
<1>3. CASE Holds(t, q.target)
  <2>1. Become(t, Ran([q EXCEPT !.submits = FALSE, !.providers = @ + 1], "submission_submitted"))
    BY <1>3 DEF FinishEvaluation
  <2>2. y = [q EXCEPT !.submits = FALSE, !.providers = @ + 1]
    BY <1>2 DEF Turn
  <2>3. x \in Turn /\ Within(x) /\ Tools(x) = 0
    BY <1>2, ProviderField
  <2> HIDE DEF x
  <2>4. Ran(y, "submission_submitted") \in Turn /\ Steady(Ran(y, "submission_submitted"))
    BY <1>2, <2>3, SentSteady
  <2>5. practice' \in [Numbers -> Row]
    BY <1>3, SubmittedType DEF FinishEvaluation, RowsOK
  <2>6. RowsOK'
    BY <2>5 DEF FinishEvaluation, RowsOK
  <2> HIDE DEF y
  <2> QED
    BY <2>1, <2>2, <2>4, <2>6, BecomeSteady
<1>4. CASE ~Holds(t, q.target)
  <2>1. Stop(t, "error") /\ UNCHANGED practice
    BY <1>4 DEF FinishEvaluation
  <2> QED
    BY <1>1, <2>1, StopKeeps DEF FinishEvaluation, RowsOK, Submitting, Stops
<1> QED
  BY <1>3, <1>4

LEMMA ApplyType ==
    ASSUME RowsOK, NEW d \in Decisions, Apply(d)
    PROVE  updates' \in Seq(Decisions) /\ Len(updates') <= MaxUpdates
BY BoundAssumption DEF RowsOK, Apply, Latest

LEMMA AppliedType ==
    ASSUME RowsOK, NEW n, NEW w \in {"own", "other"}, applied' = [applied EXCEPT ![n] = w]
    PROVE  applied' \in [Numbers -> {None, "own", "other"}]
BY DEF RowsOK

LEMMA CompleteKeeps ==
    ASSUME RowsOK, TurnsOK, NEW t \in Turns, Complete(t)
    PROVE  RowsOK' /\ TurnsOK'
<1> DEFINE q == turn[t]
<1>1. q.step = "complete"
  BY DEF Complete, At
<1>2. q \in Turn /\ Steady(q)
  BY <1>1, BusyTurn
<1>3. /\ Within(q) /\ Tools(q) < MaxMutations /\ ~q.submits /\ Completions(q) < MaxCompletions
  BY <1>1, <1>2 DEF Steady, MayComplete, Completions
<1>4. ASSUME NEW o \in {"completion_applied", "completion_reused"}, Become(t, Ran(q, o))
      PROVE  TurnsOK'
  <2>1. o \in Outcomes /\ ToolOf[o] = "complete"
    BY DEF Outcomes, ToolOf
  <2>2. Ran(q, o) \in Turn /\ Steady(Ran(q, o))
    BY <1>2, <1>3, <2>1, RanSteady
  <2> QED
    BY <1>4, <2>2, BecomeSteady
<1>5. CASE /\ \E d \in Decisions : ApplyPractice(q.update, d)
           /\ Become(t, Ran(q, "completion_applied"))
  <2>1. PICK d \in Decisions : Apply(d) /\ applied' = [applied EXCEPT ![q.update] = "own"]
    BY <1>5 DEF ApplyPractice
  <2>2. updates' \in Seq(Decisions) /\ Len(updates') <= MaxUpdates
    BY <2>1, ApplyType
  <2>3. applied' \in [Numbers -> {None, "own", "other"}]
    BY <2>1, AppliedType
  <2> QED
    BY <1>4, <1>5, <2>2, <2>3 DEF Complete, RowsOK
<1>6. CASE /\ UNCHANGED <<updates, applied>>
           /\ \/ Become(t, Ran(q, "completion_reused"))
              \/ Stop(t, "error")
  <2>1. TurnsOK'
    BY <1>1, <1>4, <1>6, StopKeeps DEF Stops
  <2> QED
    BY <1>6, <2>1 DEF Complete, RowsOK
<1> QED
  BY <1>5, <1>6 DEF Complete

LEMMA FailKeeps ==
    ASSUME RowsOK, TurnsOK, NEW t \in Turns, Fail(t)
    PROVE  RowsOK' /\ TurnsOK'
<1>1. turn[t].step # "idle" /\ Stop(t, "error")
  BY DEF Fail, Active
<1>2. TurnsOK'
  BY <1>1, StopKeeps DEF Stops
<1>3. practice' \in [Numbers -> Row]
  BY RowChange, GeneratedType DEF Fail, RowsOK
<1>4. faults' \in 0..MaxFaults
  BY BoundAssumption DEF Fail, RowsOK
<1> QED
  BY <1>2, <1>3, <1>4 DEF Fail, RowsOK

-----------------------------------------------------------------------------
(***************************************************************************)
(* The granular endpoints leave the turns alone                            *)
(***************************************************************************)
LEMMA DirectKeeps ==
    ASSUME RowsOK, TurnsOK, NEW n, NEW e,
           \/ DirectApply \/ DirectGenerate(n) \/ DirectFinish(n) \/ DirectComplete(n)
           \/ e \in Essays /\ DirectClaim(n, e)
    PROVE  RowsOK' /\ TurnsOK'
<1>1. turn' = turn /\ faults' = faults
  BY DEF DirectApply, DirectGenerate, DirectClaim, DirectFinish, DirectComplete
<1>2. TurnsOK'
  BY <1>1 DEF TurnsOK
<1>3. direct' \in 0..MaxDirect
  BY BoundAssumption DEF DirectApply, DirectGenerate, DirectClaim, DirectFinish, DirectComplete,
     Granular, RowsOK
<1>4. practice' \in [Numbers -> Row]
  <2>1. CASE DirectApply \/ DirectComplete(n)
    BY <2>1 DEF DirectApply, DirectComplete, RowsOK
  <2>2. CASE DirectGenerate(n)
    BY <2>2, RowChange, GeneratedType DEF DirectGenerate, RowsOK
  <2>3. CASE e \in Essays /\ DirectClaim(n, e)
    <3>1. Claimed(e, Client) \in Row
      BY <2>3, ClaimedType
    <3> QED
      BY <2>3, <3>1, RowChange DEF DirectClaim, RowsOK
  <2>4. CASE DirectFinish(n)
    BY <2>4, SubmittedType, RowChange, GeneratedType DEF DirectFinish, RowsOK
  <2> QED
    BY <2>1, <2>2, <2>3, <2>4
<1>5. /\ updates' \in Seq(Decisions) /\ Len(updates') <= MaxUpdates
      /\ applied' \in [Numbers -> {None, "own", "other"}]
  <2>1. CASE DirectApply
    <3>1. PICK d \in Decisions : Apply(d)
      BY <2>1 DEF DirectApply
    <3> QED
      BY <2>1, <3>1, ApplyType DEF DirectApply, RowsOK
  <2>2. CASE DirectComplete(n)
    <3>1. CASE \E d \in Decisions : ApplyPractice(n, d)
      <4>1. PICK d \in Decisions : Apply(d) /\ applied' = [applied EXCEPT ![n] = "own"]
        BY <3>1 DEF ApplyPractice
      <4> QED
        BY <4>1, ApplyType, AppliedType
    <3>2. CASE applied' = [applied EXCEPT ![n] = "other"] /\ UNCHANGED updates
      BY <3>2, AppliedType DEF RowsOK
    <3> QED
      BY <2>2, <3>1, <3>2 DEF DirectComplete
  <2>3. CASE DirectGenerate(n) \/ DirectClaim(n, e) \/ DirectFinish(n)
    BY <2>3 DEF DirectGenerate, DirectClaim, DirectFinish, RowsOK
  <2> QED
    BY <2>1, <2>2, <2>3
<1> QED
  BY <1>1, <1>2, <1>3, <1>4, <1>5 DEF RowsOK

-----------------------------------------------------------------------------
(***************************************************************************)
(* The theorems                                                            *)
(***************************************************************************)
LEMMA Initially == Init => IInv
<1> SUFFICES ASSUME Init PROVE IInv
  OBVIOUS
<1>1. RowsOK
  <2>1. NoPractice \in Row
    <3>1. NoPractice = [state |-> "none", essay |-> None, holder |-> None]
      BY DEF NoPractice
    <3> QED
      BY <3>1 DEF Row
  <2> QED
    BY <2>1, BoundAssumption DEF Init, RowsOK
<1>2. TurnsOK
  BY DEF Init, TurnsOK, Idle
<1> QED
  BY <1>1, <1>2 DEF Init, IInv

LEMMA RunKeeps ==
    ASSUME RowsOK, TurnsOK, NEW t \in Turns, Run(t)
    PROVE  RowsOK' /\ TurnsOK'
BY ReadLatestKeeps, ReadPracticeKeeps, ReadCompletionKeeps, SelectKeeps, CheckFenceKeeps,
   ResolveExistingKeeps, PersistKeeps, ClaimKeeps, FinishEvaluationKeeps, CompleteKeeps
   DEF Run, Observe, Generate, SubmitPractice

LEMMA StepKeeps == IInv /\ [Next]_vars => IInv'
<1> SUFFICES ASSUME IInv, [Next]_vars PROVE IInv'
  OBVIOUS
<1> USE DEF IInv
<1>1. CASE Next
  <2>1. disturbed' \subseteq Turns
    BY <1>1 DEF Next, Watch
  <2>2. ASSUME NEW t \in Turns, NEW n \in Numbers, NEW e \in Essays, Begin(t, TRUE, n, e)
        PROVE  RowsOK' /\ TurnsOK'
    BY <2>2, BeginKeeps
  <2>3. ASSUME NEW t \in Turns, BeginContinue(t) PROVE RowsOK' /\ TurnsOK'
    BY <2>3, BeginKeeps DEF BeginContinue
  <2>4. ASSUME NEW t \in Turns, Run(t) PROVE RowsOK' /\ TurnsOK'
    BY <2>4, RunKeeps
  <2>5. ASSUME NEW t \in Turns, Fail(t) PROVE RowsOK' /\ TurnsOK'
    BY <2>5, FailKeeps
  <2>6. ASSUME DirectApply PROVE RowsOK' /\ TurnsOK'
    BY <2>6, DirectKeeps
  <2>7. ASSUME NEW n \in Numbers, DirectGenerate(n) \/ DirectFinish(n) \/ DirectComplete(n)
        PROVE  RowsOK' /\ TurnsOK'
    BY <2>7, DirectKeeps
  <2>8. ASSUME NEW n \in Numbers, NEW e \in Essays, DirectClaim(n, e)
        PROVE  RowsOK' /\ TurnsOK'
    BY <2>8, DirectKeeps
  <2> QED
    BY <1>1, <2>1, <2>2, <2>3, <2>4, <2>5, <2>6, <2>7, <2>8 DEF Next, Step
<1>2. CASE UNCHANGED vars
  BY <1>2 DEF vars, state, RowsOK, TurnsOK
<1> QED
  BY <1>1, <1>2

\* The inductive invariant of the turns, any number of them with the granular
\* endpoints beside them.
THEOREM AgentInvariant == Spec => []IInv
BY Initially, StepKeeps, PTL DEF Spec

\* Turns and rows have their types.
THEOREM AgentTypeCorrect == Spec => []TypeOK
<1>1. IInv => TypeOK
  BY DEF IInv, RowsOK, TurnsOK, TypeOK
<1> QED
  BY <1>1, AgentInvariant, PTL

\* No turn of execute exceeds its bounds or the room of its response, however stale
\* what it observed was when it acted on it.
THEOREM TurnsWithinBounds == Spec => []WithinBounds
<1>1. IInv => WithinBounds
  <2> SUFFICES ASSUME IInv, NEW t \in Turns, turn[t] # Idle
               PROVE  /\ Mutations(t) <= MaxMutations
                      /\ Count(turn[t].trace, "observe") <= MaxObservations
                      /\ Count(turn[t].trace, "generate") <= MaxGenerations
                      /\ Count(turn[t].trace, "complete") <= MaxCompletions
                      /\ turn[t].providers <= MaxProviderCalls
                      /\ Len(turn[t].trace) <= 7
    BY DEF WithinBounds
  <2>1. turn[t] \in Turn
    BY DEF IInv, TurnsOK
  <2>2. turn[t].step # "idle"
    BY <2>1 DEF Turn, Steps
  <2>3. Within(turn[t])
    BY <2>2, BusyTurn DEF IInv, Steady
  <2>4. Len(turn[t].trace) \in Nat /\ Observations(turn[t]) \in Nat
    BY <2>1, CountType DEF Turn, Observations
  <2> QED
    BY <2>1, <2>3, <2>4, RoomForTool
    DEF Within, Tools, Observations, Generations, Completions, MaxMutations, MaxObservations
<1> QED
  BY <1>1, AgentInvariant, PTL

ActsOnCurrent ==
    \A n \in Numbers :
      \/ direct' = direct /\ practice[n].state = "none" /\ practice'[n].state # "none"
      \/ practice'[n].holder \in Turns \ {practice[n].holder}
      => n = Latest

LEMMA ActsOnCurrentStep == IInv /\ [Next]_vars => ActsOnCurrent
<1> SUFFICES ASSUME IInv, [Next]_vars, NEW n \in Numbers,
                    \/ /\ direct' = direct
                       /\ practice[n].state = "none" /\ practice'[n].state # "none"
                    \/ practice'[n].holder \in Turns \ {practice[n].holder}
             PROVE  n = Latest
  BY DEF ActsOnCurrent
<1>1. practice \in [Numbers -> Row] /\ direct \in Nat
  BY DEF IInv, RowsOK
<1>2. practice' # practice
  OBVIOUS
<1>3. Generated.state = "generated" /\ Generated.holder = None
  BY DEF Generated, NoPractice
<1>4. ASSUME NEW m, practice' = [practice EXCEPT ![m] = Generated], m # n
      PROVE  FALSE
  BY <1>1, <1>4
<1>5. ASSUME NEW m, Submitted(m), NEW h, Holds(h, m) PROVE FALSE
  <2>1. /\ m # n => practice'[n] = practice[n]
        /\ m = n => practice'[n].holder = None /\ practice[n].state = "submission_in_progress"
    BY <1>1, <1>5, SubmittedType DEF Holds
  <2> QED
    BY <2>1, HolderAssumption
<1>6. ASSUME NEW t \in Turns, PersistGenerated(t) PROVE n = Latest
  <2>1. IsLatest(t) /\ practice' = [practice EXCEPT ![turn[t].update] = Generated]
    BY <1>2, <1>6 DEF PersistGenerated, PersistIf
  <2> QED
    BY <1>4, <2>1 DEF IsLatest
<1>7. ASSUME NEW t \in Turns, Claim(t) PROVE n = Latest
  <2>1. IsLatest(t) /\ practice' = [practice EXCEPT ![turn[t].target] = Claimed(turn[t].essay, t)]
    BY <1>2, <1>7 DEF Claim
  <2>2. turn[t].step = "claim"
    BY <1>7 DEF Claim, At
  <2>3. turn[t].update = turn[t].target
    BY <2>2, BusyTurn DEF IInv, Steady
  <2>4. turn[t].target = n
    BY <1>1, <2>1
  <2> QED
    BY <2>1, <2>3, <2>4 DEF IsLatest
<1>8. ASSUME NEW t \in Turns, FinishEvaluation(t) PROVE FALSE
  BY <1>2, <1>5, <1>8 DEF FinishEvaluation
<1>9. ASSUME NEW m \in Numbers, practice' = [practice EXCEPT ![m] = Generated],
             practice[m].state # "none"
      PROVE  FALSE
  <2>1. practice'[m] = Generated /\ m = n
    BY <1>1, <1>4, <1>9
  <2> QED
    BY <1>3, <1>9, <2>1, HolderAssumption
<1>10. ASSUME NEW t \in Turns, Fail(t) PROVE FALSE
  <2>1. practice' = [practice EXCEPT ![turn[t].target] = Generated] /\ Holds(t, turn[t].target)
    BY <1>2, <1>10 DEF Fail
  <2>2. turn[t].target = n
    BY <1>4, <2>1
  <2> QED
    BY <1>9, <2>1, <2>2 DEF Holds
<1>11. ASSUME NEW m \in Numbers, DirectFinish(m) PROVE FALSE
  <2>1. Holds(Client, m)
    BY <1>11 DEF DirectFinish
  <2>2. CASE Submitted(m)
    BY <1>5, <2>1, <2>2
  <2>3. CASE practice' = [practice EXCEPT ![m] = Generated]
    BY <1>9, <2>1, <2>3 DEF Holds
  <2> QED
    BY <1>11, <2>2, <2>3 DEF DirectFinish
<1>12. ASSUME NEW m \in Numbers, DirectGenerate(m) PROVE FALSE
  <2>1. practice' = [practice EXCEPT ![m] = Generated] /\ direct' = direct + 1
    BY <1>12 DEF DirectGenerate, Granular
  <2>2. m = n /\ practice'[m] = Generated
    BY <1>1, <1>4, <2>1
  <2> QED
    BY <1>1, <1>3, <2>1, <2>2, HolderAssumption
<1>13. ASSUME NEW m \in Numbers, NEW e \in Essays, DirectClaim(m, e) PROVE FALSE
  <2>1. /\ practice' = [practice EXCEPT ![m] = Claimed(e, Client)] /\ direct' = direct + 1
    BY <1>13 DEF DirectClaim, Granular
  <2>2. m # n => practice'[n] = practice[n]
    BY <1>1, <2>1
  <2>3. m = n => practice'[n].holder = Client
    BY <1>1, <2>1 DEF Claimed
  <2> QED
    BY <1>1, <2>1, <2>2, <2>3, HolderAssumption
<1>14. Next
  BY <1>2 DEF vars, state
<1>15. ASSUME NEW t \in Turns, Run(t) PROVE n = Latest
  BY <1>2, <1>6, <1>7, <1>8, <1>15
  DEF Run, Observe, ReadLatest, ReadPractice, ReadCompletion, Select, Generate, CheckFence,
      ResolveExisting, SubmitPractice, Complete
<1> QED
  BY <1>2, <1>10, <1>11, <1>12, <1>13, <1>14, <1>15
  DEF Next, Step, Begin, BeginContinue, DirectApply, DirectComplete

\* A turn creates a practice, and takes an essay for evaluation, only for the learner's
\* latest update, however long it waited for a lock or a provider.
THEOREM TurnsActOnCurrent == Spec => AgentActsOnCurrent
<1>1. IInv /\ [Next]_vars => [ActsOnCurrent]_vars
  BY ActsOnCurrentStep
<1> QED
  BY <1>1, AgentInvariant, PTL DEF Spec, AgentActsOnCurrent, ActsOnCurrent

-----------------------------------------------------------------------------
(***************************************************************************)
(* What the evaluation gate makes of a turn: the invariant has three       *)
(* layers.  Rows are reached in the order of the learning cycle; the trace *)
(* of a turn says what it may have done by then; and a turn that runs      *)
(* alone finds things as it left them.                                     *)
(***************************************************************************)
Has(s, outcomes) == Numbered(s, outcomes) # {}
Flaws(first, s) == UNION {StepViolations(first, s, i) : i \in DOMAIN s}
Refusals == DOMAIN StopAfter
Stale == "generation_stale_discarded"
NoPracticeSeen == "submission_without_practice"

\* The updates that ask for practice, and those whose practice has been submitted.
Given == {n \in DOMAIN updates : updates[n] = "practice"}
Taken == {n \in Numbers : practice[n].state = "submitted"}
Rooted ==
    \A n \in Numbers : /\ practice[n].state # "none" => n \in Given
                       /\ applied[n] # None => n \in Taken

\* What a turn knows of the update it looks at stays true, whoever else is at work.
Asked == {"needs_generation", "needs_practice_submission", "await_submission",
          "needs_completion"}
Informed(q, given, taken) ==
    /\ q.step \in {"practice", "completion"} \cup Generating => q.update \in given
    /\ q.step = "select" /\ q.kind \in Asked => q.update \in given
    /\ q.step \in {"completion", "complete"} => q.update \in taken
    /\ q.step = "select" /\ q.kind = "needs_completion" => q.update \in taken
    /\ q.submits => q.target \in given

\* The trace of any turn.
Recorded(q) ==
    /\ (q.trace = << >>) <=> (q.first = None)
    /\ q.trace # << >> => q.trace[1] = "observation_classified"
    /\ \/ q.step \in Observing \/ q.trace # << >>
       \/ q.step = "done" /\ q.stop \notin StopReasons
    /\ Flaws(q.first, q.trace) \subseteq Unforeseen
    /\ \A o \in Refusals : Has(q.trace, {o}) => q.step = "done" /\ q.stop = StopAfter[o]
    /\ Cardinality(Numbered(q.trace, ProviderBacked)) <= q.providers
    /\ q.submits => ~Has(q.trace, Mutating)

\* The kind an observation would come to now.
KindOf == [none |-> "needs_generation", generated |-> "needs_practice_submission",
           submission_in_progress |-> "await_submission", submitted |-> "needs_completion"]
Now == IF Latest = 0 THEN "needs_initial_writing"
       ELSE IF Latest \in Given THEN KindOf[practice[Latest].state]
       ELSE "no_practice"

\* A turn that nobody has disturbed, while n is the latest update and an observation would
\* come to now: what is wrong with its trace, what it remembers and what it is about to do.
Fair(q) ==
    /\ ~Has(q.trace, {Stale})
    /\ \/ Flaws(q.first, q.trace) = {}
       \/ /\ Flaws(q.first, q.trace) = {NoPracticeSeen}
          /\ \/ q.first = "await_submission"
             \/ q.step = "done" /\ q.stop = "submission_conflict"

Changing == By("generate") \cup By("complete") \cup {"submission_submitted"}
Remembers(q, now) ==
    /\ q.step # "evaluating" /\ q.trace # << >> /\ ~Has(q.trace, Changing) => q.first = now
    /\ Has(q.trace, {"submission_submitted"}) /\ ~Has(q.trace, By("complete"))
         => now = "needs_completion"
    /\ Has(q.trace, By("generate")) => now = "needs_practice_submission"

Entitled(q, n, now) ==
    /\ q.step \in {"practice", "completion", "select"} \cup Generating \cup Submitting
         => q.update = n
    /\ q.step = "select" => q.kind = now
    /\ q.step \in Generating
         => /\ now = "needs_generation" /\ ~Has(q.trace, By("generate"))
            /\ q.first = "needs_generation" \/ Has(q.trace, By("complete"))
    /\ q.step \in Submitting
         => q.target = q.update /\ q.first \in PracticeContext \cup {"await_submission"}
    /\ q.step = "complete"
         => /\ ~Has(q.trace, By("generate"))
            /\ q.first = "needs_completion" \/ Has(q.trace, Stored)

Undisturbed(q, n, now) ==
    Fair(q) /\ (q.step # "done" => Remembers(q, now) /\ Entitled(q, n, now))

\* A turn, among the rows as they are, that was alone or was not.
Accounted(q, given, taken, n, now, alone) ==
    /\ Informed(q, given, taken) /\ Recorded(q)
    /\ alone => Undisturbed(q, n, now)
Account(t) == Accounted(turn[t], Given, Taken, Latest, Now, t \notin disturbed)
Ledger == Rooted /\ \A t \in Turns : turn[t].step # "idle" => Account(t)

-----------------------------------------------------------------------------
(***************************************************************************)
(* Violations, as a trace grows                                            *)
(***************************************************************************)

\* The tools and outcomes of the trajectory evaluator.
LEMMA Tooling ==
    /\ By("observe") = {"observation_classified"}
    /\ By("generate") = {"practice_generated", "practice_resolved", Stale}
    /\ By("submit") = {"submission_submitted", "submission_reused",
                       "submission_in_progress", "submission_conflict"}
    /\ By("complete") = {"completion_applied", "completion_reused"}
    /\ Mutating = By("generate") \cup By("submit") \cup By("complete")
    /\ Outcomes = Mutating \cup {"observation_classified"}
    /\ Refusals = {"submission_conflict", "submission_in_progress"}
BY DEF By, Mutating, Outcomes, ToolOf, Refusals, StopAfter, Stale

LEMMA NumberedAppend ==
    ASSUME NEW s \in Seq(Outcomes), NEW o \in Outcomes, NEW outcomes
    PROVE  Numbered(Append(s, o), outcomes)
             = Numbered(s, outcomes) \cup (IF o \in outcomes THEN {Len(s) + 1} ELSE {})
BY DEF Numbered

LEMMA HasAppend ==
    ASSUME NEW s \in Seq(Outcomes), NEW o \in Outcomes, NEW outcomes
    PROVE  Has(Append(s, o), outcomes) <=> Has(s, outcomes) \/ o \in outcomes
BY NumberedAppend DEF Has

\* A set of outcomes found in a trace has a member that is.
LEMMA HasPart ==
    ASSUME NEW s, NEW part, NEW whole, part \subseteq whole, Has(s, part)
    PROVE  Has(s, whole)
BY DEF Has, Numbered

\* A violation of one step, in the words of evaluate_trajectory.
LEMMA StepMeaning ==
    ASSUME NEW first, NEW s, NEW i, NEW v
    PROVE  v \in StepViolations(first, s, i) <=>
             \/ /\ v = "mutation_after_terminal"
                /\ s[i] \in Mutating /\ Before(s, i, Refusals)
             \/ /\ v = "generation_without_valid_state"
                /\ ToolOf[s[i]] = "generate" /\ first # "needs_generation"
                /\ ~Before(s, i, By("complete"))
             \/ /\ v = "submission_after_completion"
                /\ ToolOf[s[i]] = "submit" /\ Before(s, i, By("complete"))
             \/ /\ v = "submission_after_generation"
                /\ ToolOf[s[i]] = "submit" /\ Before(s, i, Prepared)
             \/ /\ v = NoPracticeSeen
                /\ ToolOf[s[i]] = "submit" /\ s[i] # "submission_reused"
                /\ first \notin PracticeContext /\ ~Before(s, i, Prepared)
             \/ /\ v = "duplicate_submission"
                /\ s[i] \in Stored /\ Before(s, i, Stored)
             \/ /\ v = "completion_without_submission"
                /\ ToolOf[s[i]] = "complete" /\ first # "needs_completion"
                /\ ~Before(s, i, Stored)
BY DEF StepViolations, Refusals, NoPracticeSeen, SubmissionContext

\* Steps before are judged as they were, and the new one by what came before it.
LEMMA FlawsAppend ==
    ASSUME NEW first, NEW s \in Seq(Outcomes), NEW o \in Outcomes
    PROVE  LET r == Append(s, o) last == Len(s) + 1 IN
           /\ Flaws(first, r) = Flaws(first, s) \cup StepViolations(first, r, last)
           /\ r[last] = o
           /\ \A outcomes : Before(r, last, outcomes) <=> Has(s, outcomes)
<1> DEFINE r == Append(s, o)
           last == Len(s) + 1
<1>1. /\ DOMAIN s = 1..Len(s) /\ DOMAIN r = DOMAIN s \cup {last} /\ last \notin DOMAIN s
      /\ r[last] = o /\ \A i \in DOMAIN s : r[i] = s[i] /\ i < last
      /\ DOMAIN s \subseteq Nat /\ last \in Nat
  OBVIOUS
<1> HIDE DEF r, last
<1>2. ASSUME NEW i \in DOMAIN s, NEW outcomes
      PROVE  Before(r, i, outcomes) <=> Before(s, i, outcomes)
  <2>1. \A j \in DOMAIN r : j < i => j \in DOMAIN s /\ r[j] = s[j]
    BY <1>1
  <2>2. \A j \in DOMAIN s : j \in DOMAIN r /\ r[j] = s[j]
    BY <1>1
  <2> QED
    BY <2>1, <2>2 DEF Before, Numbered
<1>3. ASSUME NEW outcomes PROVE Before(r, last, outcomes) <=> Has(s, outcomes)
  <2>1. /\ \A j \in DOMAIN r : j < last => j \in DOMAIN s
        /\ \A j \in DOMAIN s : j < last
    <3>1. ~(last < last)
      BY <1>1
    <3> QED
      BY <1>1, <3>1
  <2>2. \A j \in DOMAIN s : j \in DOMAIN r /\ r[j] = s[j]
    BY <1>1
  <2> QED
    BY <2>1, <2>2 DEF Before, Numbered, Has
<1>4. ASSUME NEW i \in DOMAIN s PROVE StepViolations(first, r, i) = StepViolations(first, s, i)
  <2>1. r[i] = s[i] /\ \A outcomes : Before(r, i, outcomes) <=> Before(s, i, outcomes)
    BY <1>1, <1>2
  <2>2. ASSUME NEW v PROVE v \in StepViolations(first, r, i) <=> v \in StepViolations(first, s, i)
    BY <2>1, StepMeaning
  <2> QED
    BY <2>2
<1>5. Flaws(first, r) = Flaws(first, s) \cup StepViolations(first, r, last)
  BY <1>1, <1>4 DEF Flaws
<1> QED
  BY <1>1, <1>3, <1>5 DEF r, last

LEMMA NoFlawsYet ==
    ASSUME NEW first PROVE Flaws(first, << >>) = {}
BY DEF Flaws

\* What the next outcome adds, by the tool it comes from.
LEMMA ObserveFlaws ==
    ASSUME NEW first, NEW s \in Seq(Outcomes)
    PROVE  Flaws(first, Append(s, "observation_classified")) = Flaws(first, s)
<1> DEFINE o == "observation_classified"
           r == Append(s, o)
           last == Len(s) + 1
<1>1. o \in Outcomes /\ o \notin Mutating /\ ToolOf[o] = "observe" /\ o \notin Stored
  <2>1. ToolOf[o] = "observe" /\ o \notin Stored
    BY DEF ToolOf, Stored
  <2>2. o \in Outcomes /\ o \notin Mutating
    BY Tooling DEF Stale
  <2> QED
    BY <2>1, <2>2
<1>2. /\ Flaws(first, r) = Flaws(first, s) \cup StepViolations(first, r, last)
      /\ r[last] = o
  BY <1>1, FlawsAppend
<1> HIDE DEF o, r, last
<1>3. ASSUME NEW v PROVE v \notin StepViolations(first, r, last)
  BY <1>1, <1>2, StepMeaning
<1> QED
  BY <1>2, <1>3 DEF r, o

LEMMA GenerateFlaws ==
    ASSUME NEW first, NEW s \in Seq(Outcomes), NEW o \in By("generate"), ~Has(s, Refusals)
    PROVE  /\ Flaws(first, Append(s, o))
                \subseteq Flaws(first, s) \cup {"generation_without_valid_state"}
           /\ first = "needs_generation" \/ Has(s, By("complete"))
                => Flaws(first, Append(s, o)) = Flaws(first, s)
<1> DEFINE r == Append(s, o)
           last == Len(s) + 1
<1>1. o \in Outcomes /\ ToolOf[o] = "generate" /\ o \notin Stored
  BY Tooling DEF ToolOf, Stored, By
<1>2. /\ Flaws(first, r) = Flaws(first, s) \cup StepViolations(first, r, last)
      /\ r[last] = o /\ \A outcomes : Before(r, last, outcomes) <=> Has(s, outcomes)
  BY <1>1, FlawsAppend
<1> HIDE DEF r, last
<1>3. ASSUME NEW v \in StepViolations(first, r, last)
      PROVE  /\ v = "generation_without_valid_state"
             /\ first # "needs_generation" /\ ~Has(s, By("complete"))
  BY <1>1, <1>2, StepMeaning
<1> QED
  BY <1>2, <1>3 DEF r

LEMMA SubmitFlaws ==
    ASSUME NEW first, NEW s \in Seq(Outcomes), NEW o \in By("submit"), ~Has(s, Mutating)
    PROVE  /\ Flaws(first, Append(s, o)) \subseteq Flaws(first, s) \cup {NoPracticeSeen}
           /\ o = "submission_reused" \/ first \in PracticeContext
                => Flaws(first, Append(s, o)) = Flaws(first, s)
<1> DEFINE r == Append(s, o)
           last == Len(s) + 1
<1>1. o \in Outcomes /\ ToolOf[o] = "submit"
  BY DEF By
<1>2. ~Has(s, Refusals) /\ ~Has(s, By("complete")) /\ ~Has(s, Prepared) /\ ~Has(s, Stored)
  <2>1. /\ Refusals \subseteq Mutating /\ By("complete") \subseteq Mutating
        /\ Prepared \subseteq Mutating /\ Stored \subseteq Mutating
    BY Tooling DEF Prepared, Stored
  <2> QED
    BY <2>1, HasPart
<1>3. /\ Flaws(first, r) = Flaws(first, s) \cup StepViolations(first, r, last)
      /\ r[last] = o /\ \A outcomes : Before(r, last, outcomes) <=> Has(s, outcomes)
  BY <1>1, FlawsAppend
<1> HIDE DEF r, last
<1>4. ASSUME NEW v \in StepViolations(first, r, last)
      PROVE  v = NoPracticeSeen /\ o # "submission_reused" /\ first \notin PracticeContext
  BY <1>1, <1>2, <1>3, StepMeaning
<1> QED
  BY <1>3, <1>4 DEF r

LEMMA CompleteFlaws ==
    ASSUME NEW first, NEW s \in Seq(Outcomes), NEW o \in By("complete"), ~Has(s, Refusals)
    PROVE  /\ Flaws(first, Append(s, o))
                \subseteq Flaws(first, s) \cup {"completion_without_submission"}
           /\ first = "needs_completion" \/ Has(s, Stored)
                => Flaws(first, Append(s, o)) = Flaws(first, s)
<1> DEFINE r == Append(s, o)
           last == Len(s) + 1
<1>1. o \in Outcomes /\ ToolOf[o] = "complete" /\ o \notin Stored
  BY Tooling DEF ToolOf, Stored, By
<1>2. /\ Flaws(first, r) = Flaws(first, s) \cup StepViolations(first, r, last)
      /\ r[last] = o /\ \A outcomes : Before(r, last, outcomes) <=> Has(s, outcomes)
  BY <1>1, FlawsAppend
<1> HIDE DEF r, last
<1>3. ASSUME NEW v \in StepViolations(first, r, last)
      PROVE  /\ v = "completion_without_submission"
             /\ first # "needs_completion" /\ ~Has(s, Stored)
  BY <1>1, <1>2, StepMeaning
<1> QED
  BY <1>2, <1>3 DEF r

-----------------------------------------------------------------------------
(***************************************************************************)
(* What becomes of a turn's fields                                         *)
(***************************************************************************)

\* A turn that ends keeps what is in the response.
LEMMA StoppedFields ==
    ASSUME NEW q \in Turn, NEW reason
    PROVE  LET r == Stopped(q, reason) IN
           /\ r.step = "done" /\ r.first = q.first /\ r.trace = q.trace
           /\ r.stop = reason /\ r.providers = q.providers /\ r.submits = FALSE
<1>1. /\ Stopped(q, reason).step = "done" /\ Stopped(q, reason).first = q.first
      /\ Stopped(q, reason).trace = q.trace /\ Stopped(q, reason).stop = reason
      /\ Stopped(q, reason).providers = q.providers
  BY DEF Stopped, Turn
<1>2. Stopped(q, reason).submits = FALSE
  BY DEF Stopped, Turn
<1> QED
  BY <1>1, <1>2

LEMMA ClassifiedFields ==
    ASSUME NEW q \in Turn, NEW kind, NEW essay
    PROVE  LET r == Classified(q, kind, essay) IN
           /\ r.step = "select" /\ r.kind = kind /\ r.update = q.update /\ r.target = q.target
           /\ r.first = (IF q.first = None THEN kind ELSE q.first)
           /\ r.trace = Append(q.trace, "observation_classified")
           /\ r.providers = q.providers /\ r.stop = q.stop /\ r.submits = q.submits
<1>1. /\ Classified(q, kind, essay).step = "select" /\ Classified(q, kind, essay).kind = kind
      /\ Classified(q, kind, essay).update = q.update
      /\ Classified(q, kind, essay).target = q.target
      /\ Classified(q, kind, essay).providers = q.providers
      /\ Classified(q, kind, essay).stop = q.stop
  BY DEF Classified, Turn
<1>2. Classified(q, kind, essay).first = (IF q.first = None THEN kind ELSE q.first)
  BY DEF Classified, Turn
<1>3. Classified(q, kind, essay).trace = Append(q.trace, "observation_classified")
  BY DEF Classified, Turn
<1>4. Classified(q, kind, essay).submits = q.submits
  BY DEF Classified, Turn
<1> QED
  BY <1>1, <1>2, <1>3, <1>4

LEMMA GoFields ==
    ASSUME NEW q \in Turn, NEW step
    PROVE  LET r == [q EXCEPT !.step = step] IN
           /\ r.step = step /\ r.first = q.first /\ r.trace = q.trace /\ r.stop = q.stop
           /\ r.update = q.update /\ r.target = q.target /\ r.kind = q.kind
           /\ r.providers = q.providers /\ r.submits = q.submits /\ r.essay = q.essay
<1>1. [q EXCEPT !.step = step].submits = q.submits
  BY DEF Turn
<1> QED
  BY <1>1 DEF Turn

LEMMA LongerFields ==
    ASSUME NEW q \in Turn, NEW o \in Outcomes
    PROVE  LET r == Longer(q, o) IN
           /\ r \in Turn
           /\ r.step = q.step /\ r.first = q.first /\ r.trace = Append(q.trace, o)
           /\ r.stop = q.stop /\ r.update = q.update /\ r.target = q.target
           /\ r.providers = q.providers /\ r.submits = q.submits
<1>1. Longer(q, o).submits = q.submits
  BY DEF Longer, Turn
<1>2. Longer(q, o).trace = Append(q.trace, o)
  BY DEF Longer, Turn
<1>3. Longer(q, o) \in Turn
  BY LongerTrace
<1> QED
  BY <1>1, <1>2, <1>3 DEF Longer, Turn

\* After a tool the turn reads the latest update again, or ends.
LEMMA ReobserveFields ==
    ASSUME NEW q \in Turn
    PROVE  LET r == Reobserve(q) IN
           /\ r.first = q.first /\ r.trace = q.trace /\ r.providers = q.providers
           /\ \/ r.step = "latest" /\ r.submits = q.submits /\ r.stop = q.stop
              \/ r.step = "done" /\ r.submits = FALSE /\ r.stop = "max_actions"
<1>1. CASE Count(q.trace, "observe") >= MaxObservations
  <2> DEFINE r == Stopped(q, "max_actions")
  <2>1. Reobserve(q) = r
    BY <1>1 DEF Reobserve
  <2>2. /\ r.step = "done" /\ r.first = q.first /\ r.trace = q.trace
        /\ r.stop = "max_actions" /\ r.providers = q.providers
    BY StoppedFields
  <2>3. r.submits = FALSE
    BY StoppedFields
  <2> HIDE DEF r
  <2> QED
    BY <2>1, <2>2, <2>3, Zenon
<1>2. CASE ~(Count(q.trace, "observe") >= MaxObservations)
  <2> DEFINE r == [q EXCEPT !.step = "latest"]
  <2>1. Reobserve(q) = r
    BY <1>2 DEF Reobserve
  <2>2. /\ r.step = "latest" /\ r.first = q.first /\ r.trace = q.trace
        /\ r.stop = q.stop /\ r.providers = q.providers
    BY GoFields
  <2>3. r.submits = q.submits
    BY GoFields
  <2> HIDE DEF r
  <2> QED
    BY <2>1, <2>2, <2>3, Zenon
<1> QED
  BY <1>1, <1>2

LEMMA RanFields ==
    ASSUME NEW q \in Turn, NEW o \in Outcomes
    PROVE  LET r == Ran(q, o) IN
           /\ r.first = q.first /\ r.trace = Append(q.trace, o) /\ r.providers = q.providers
           /\ \/ r.step = "latest" /\ r.submits = q.submits /\ r.stop = q.stop
              \/ r.step = "done" /\ r.submits = FALSE /\ r.stop = "max_actions"
<1> DEFINE l == Longer(q, o)
<1>1. Ran(q, o) = Reobserve(l)
  BY DEF Ran, Longer
<1>2. /\ l \in Turn /\ l.first = q.first /\ l.trace = Append(q.trace, o)
      /\ l.providers = q.providers /\ l.stop = q.stop
  BY LongerFields
<1>3. l.submits = q.submits
  BY LongerFields
<1> HIDE DEF l
<1> QED
  BY <1>1, <1>2, <1>3, ReobserveFields

LEMMA RefusedFields ==
    ASSUME NEW q \in Turn, NEW o \in Refusals
    PROVE  LET r == Refused(q, o) IN
           /\ r.step = "done" /\ r.first = q.first /\ r.trace = Append(q.trace, o)
           /\ r.stop = StopAfter[o] /\ r.providers = q.providers /\ r.submits = FALSE
<1> DEFINE l == Longer(q, o)
<1>1. Refused(q, o) = Stopped(l, StopAfter[o])
  BY DEF Refused, Longer
<1>2. /\ l \in Turn /\ l.first = q.first /\ l.trace = Append(q.trace, o)
      /\ l.providers = q.providers
  BY Tooling, LongerFields
<1> HIDE DEF l
<1> DEFINE r == Stopped(l, StopAfter[o])
<1>3. /\ r.step = "done" /\ r.first = l.first /\ r.trace = l.trace
      /\ r.stop = StopAfter[o] /\ r.providers = l.providers
  BY <1>2, StoppedFields
<1>4. r.submits = FALSE
  BY <1>2, StoppedFields
<1> HIDE DEF r
<1>5. Refused(q, o) = r
  BY <1>1 DEF r
<1> QED
  BY <1>2, <1>3, <1>4, <1>5, Zenon

LEMMA SentFields ==
    ASSUME NEW q \in Turn
    PROVE  LET r == [q EXCEPT !.submits = FALSE] IN
           /\ r \in Turn /\ r.submits = FALSE
           /\ r.step = q.step /\ r.first = q.first /\ r.trace = q.trace /\ r.stop = q.stop
           /\ r.update = q.update /\ r.target = q.target /\ r.providers = q.providers
<1>1. [q EXCEPT !.submits = FALSE] \in Turn /\ [q EXCEPT !.submits = FALSE].submits = FALSE
  BY SubmitsField
<1> QED
  BY <1>1 DEF Turn

LEMMA PreparedFields ==
    ASSUME NEW q \in Turn, NEW f \in BOOLEAN
    PROVE  LET r == [q EXCEPT !.prepared = f] IN
           /\ r \in Turn /\ r.submits = q.submits
           /\ r.step = q.step /\ r.first = q.first /\ r.trace = q.trace /\ r.stop = q.stop
           /\ r.update = q.update /\ r.target = q.target /\ r.providers = q.providers
<1>1. [q EXCEPT !.prepared = f] \in Turn /\ [q EXCEPT !.prepared = f].submits = q.submits
  BY PreparedField
<1> QED
  BY <1>1 DEF Turn

LEMMA CalledFields ==
    ASSUME NEW q \in Turn
    PROVE  LET r == [q EXCEPT !.providers = @ + 1] IN
           /\ r \in Turn /\ r.submits = q.submits /\ r.providers = q.providers + 1
           /\ r.step = q.step /\ r.first = q.first /\ r.trace = q.trace /\ r.stop = q.stop
           /\ r.update = q.update /\ r.target = q.target
<1>1. [q EXCEPT !.providers = @ + 1] \in Turn
  BY DEF Turn
<1>2. [q EXCEPT !.providers = @ + 1].submits = q.submits
  BY DEF Turn
<1> QED
  BY <1>1, <1>2 DEF Turn

-----------------------------------------------------------------------------
(***************************************************************************)
(* The trace of any turn                                                   *)
(***************************************************************************)
LEMMA NumberedCount ==
    ASSUME NEW s \in Seq(Outcomes), NEW outcomes
    PROVE  /\ IsFiniteSet(Numbered(s, outcomes)) /\ Cardinality(Numbered(s, outcomes)) \in Nat
           /\ \A o \in Outcomes :
                Cardinality(Numbered(Append(s, o), outcomes))
                  = Cardinality(Numbered(s, outcomes)) + IF o \in outcomes THEN 1 ELSE 0
<1>1. Numbered(s, outcomes) \subseteq 1..Len(s) /\ Len(s) + 1 \notin Numbered(s, outcomes)
  BY DEF Numbered
<1>2. IsFiniteSet(Numbered(s, outcomes)) /\ Cardinality(Numbered(s, outcomes)) \in Nat
  <2>1. IsFiniteSet(1..Len(s))
    BY FS_Interval
  <2>2. IsFiniteSet(Numbered(s, outcomes))
    BY <1>1, <2>1, FS_Subset
  <2> QED
    BY <2>2, FS_CardinalityType
<1>3. ASSUME NEW o \in Outcomes
      PROVE  Cardinality(Numbered(Append(s, o), outcomes))
               = Cardinality(Numbered(s, outcomes)) + IF o \in outcomes THEN 1 ELSE 0
  <2>1. CASE o \in outcomes
    <3>1. Numbered(Append(s, o), outcomes) = Numbered(s, outcomes) \cup {Len(s) + 1}
      BY <2>1, NumberedAppend
    <3> QED
      BY <1>1, <1>2, <2>1, <3>1, FS_AddElement
  <2>2. CASE o \notin outcomes
    <3>1. Numbered(Append(s, o), outcomes) = Numbered(s, outcomes) \cup {}
      BY <2>2, NumberedAppend
    <3>2. Numbered(Append(s, o), outcomes) = Numbered(s, outcomes)
      BY <3>1
    <3> QED
      BY <1>2, <2>2, <3>2
  <2> QED
    BY <2>1, <2>2
<1> QED
  BY <1>2, <1>3

LEMMA TraceAppend ==
    ASSUME NEW s \in Seq(Outcomes), NEW o \in Outcomes
    PROVE  /\ Append(s, o) \in Seq(Outcomes) /\ Append(s, o) # << >>
           /\ Append(s, o)[1] = (IF s = << >> THEN o ELSE s[1])
<1>1. CASE s = << >>
  BY <1>1
<1>2. CASE s # << >>
  <2>1. Len(s) \in Nat /\ Len(s) # 0 /\ 1 \in 1..Len(s)
    BY <1>2
  <2>2. /\ Append(s, o) \in Seq(Outcomes) /\ Len(Append(s, o)) = Len(s) + 1
        /\ Append(s, o)[1] = s[1]
    BY <2>1
  <2>3. Append(s, o) # << >>
    BY <2>1, <2>2
  <2> QED
    BY <1>2, <2>2, <2>3
<1> QED
  BY <1>1, <1>2

\* The turn goes on, or ends, with nothing added to its trace.
LEMMA RecordedSame ==
    ASSUME NEW q \in Turn, NEW r \in Turn, Recorded(q), q.step # "done",
           r.first = q.first, r.trace = q.trace, q.providers <= r.providers,
           r.submits => q.submits,
           \/ r.step \in Observing \/ r.trace # << >>
           \/ r.step = "done" /\ r.stop \notin StopReasons
    PROVE  Recorded(r)
<1>1. ~Has(r.trace, Mutating) \/ ~r.submits
  BY DEF Recorded
<1>2. /\ (r.trace = << >>) <=> (r.first = None)
      /\ r.trace # << >> => r.trace[1] = "observation_classified"
      /\ \/ r.step \in Observing \/ r.trace # << >>
         \/ r.step = "done" /\ r.stop \notin StopReasons
      /\ Flaws(r.first, r.trace) \subseteq Unforeseen
  BY DEF Recorded
<1>3. \A o \in Refusals : ~Has(r.trace, {o})
  BY DEF Recorded
<1>4. Cardinality(Numbered(r.trace, ProviderBacked)) <= r.providers
  <2>1. q.providers \in Nat /\ r.providers \in Nat /\ q.trace \in Seq(Outcomes)
    BY DEF Turn
  <2>2. /\ Cardinality(Numbered(q.trace, ProviderBacked)) \in Nat
        /\ Cardinality(Numbered(q.trace, ProviderBacked)) <= q.providers
    BY <2>1, NumberedCount DEF Recorded
  <2> QED
    BY <2>1, <2>2
<1> QED
  BY <1>1, <1>2, <1>3, <1>4, Zenon DEF Recorded

\* An observation.
LEMMA RecordedObservation ==
    ASSUME NEW q \in Turn, NEW r \in Turn, Recorded(q), q.step \in Observing,
           NEW kind \in Kinds, r.first = (IF q.first = None THEN kind ELSE q.first),
           r.trace = Append(q.trace, "observation_classified"), r.providers = q.providers,
           r.submits = q.submits
    PROVE  Recorded(r)
<1> DEFINE o == "observation_classified"
<1>1. o \in Outcomes /\ o \notin Mutating /\ o \notin ProviderBacked /\ o \notin Refusals
  BY Tooling DEF ProviderBacked, Stale
<1>2. q.trace \in Seq(Outcomes) /\ q.step # "done"
  BY DEF Turn, Observing
<1>3. /\ Append(q.trace, o) # << >>
      /\ Append(q.trace, o)[1] = (IF q.trace = << >> THEN o ELSE q.trace[1])
  BY <1>1, <1>2, TraceAppend
<1>4. \A outcomes : Has(r.trace, outcomes) <=> Has(q.trace, outcomes) \/ o \in outcomes
  BY <1>1, <1>2, HasAppend
<1>5. Flaws(r.first, r.trace) \subseteq Unforeseen
  <2>1. CASE q.first = None
    <3>1. q.trace = << >>
      BY <2>1 DEF Recorded
    <3> QED
      BY <1>2, <3>1, NoFlawsYet, ObserveFlaws
  <2>2. CASE q.first # None
    BY <1>2, <2>2, ObserveFlaws DEF Recorded
  <2> QED
    BY <2>1, <2>2
<1>6. Cardinality(Numbered(r.trace, ProviderBacked)) <= r.providers
  <2>1. /\ Cardinality(Numbered(q.trace, ProviderBacked)) \in Nat
        /\ Cardinality(Numbered(r.trace, ProviderBacked))
             = Cardinality(Numbered(q.trace, ProviderBacked))
    BY <1>1, <1>2, NumberedCount
  <2> QED
    BY <2>1 DEF Recorded
<1>7. r.first # None
  BY NullAssumption
<1>8. /\ (r.trace = << >>) <=> (r.first = None)
      /\ r.trace # << >> => r.trace[1] = "observation_classified"
  BY <1>3, <1>7 DEF Recorded
<1>9. \A c \in Refusals : ~Has(r.trace, {c})
  BY <1>1, <1>2, <1>4 DEF Recorded
<1>10. ~Has(r.trace, Mutating) \/ ~r.submits
  <2>1. ~Has(q.trace, Mutating) \/ ~q.submits
    BY DEF Recorded
  <2> QED
    BY <1>1, <1>4, <2>1, Zenon
<1> QED
  BY <1>3, <1>5, <1>6, <1>8, <1>9, <1>10, Zenon DEF Recorded

\* A tool that has not refused.
LEMMA RecordedTool ==
    ASSUME NEW q \in Turn, NEW r \in Turn, Recorded(q), q.step # "done", q.trace # << >>,
           NEW o \in Mutating \ Refusals,
           r.first = q.first, r.trace = Append(q.trace, o), ~r.submits,
           q.providers + (IF o \in ProviderBacked THEN 1 ELSE 0) <= r.providers,
           Flaws(q.first, Append(q.trace, o)) \subseteq Unforeseen
    PROVE  Recorded(r)
<1>1. o \in Outcomes /\ q.trace \in Seq(Outcomes)
  BY Tooling DEF Turn
<1>2. Append(q.trace, o) # << >> /\ Append(q.trace, o)[1] = q.trace[1]
  BY <1>1, TraceAppend
<1>3. /\ (r.trace = << >>) <=> (r.first = None)
      /\ r.trace # << >> => r.trace[1] = "observation_classified"
      /\ Flaws(r.first, r.trace) \subseteq Unforeseen
  BY <1>2 DEF Recorded
<1>4. ASSUME NEW c \in Refusals PROVE ~Has(r.trace, {c})
  <2>1. ~Has(q.trace, {c})
    BY DEF Recorded
  <2>2. Has(r.trace, {c}) <=> Has(q.trace, {c}) \/ o \in {c}
    BY <1>1, HasAppend
  <2> QED
    BY <2>1, <2>2
<1>5. Cardinality(Numbered(r.trace, ProviderBacked)) <= r.providers
  <2>1. q.providers \in Nat /\ r.providers \in Nat
    BY DEF Turn
  <2>2. /\ Cardinality(Numbered(q.trace, ProviderBacked)) \in Nat
        /\ Cardinality(Numbered(r.trace, ProviderBacked))
             = Cardinality(Numbered(q.trace, ProviderBacked))
                 + IF o \in ProviderBacked THEN 1 ELSE 0
    BY <1>1, NumberedCount
  <2>3. Cardinality(Numbered(q.trace, ProviderBacked)) <= q.providers
    BY DEF Recorded
  <2> QED
    BY <2>1, <2>2, <2>3
<1>6. r.trace # << >>
  BY <1>2
<1> QED
  BY <1>3, <1>4, <1>5, <1>6, Zenon DEF Recorded

\* A refusal ends the turn with the reason that belongs to it.
LEMMA RecordedRefusal ==
    ASSUME NEW q \in Turn, NEW r \in Turn, Recorded(q), q.step # "done", q.trace # << >>,
           q.submits, NEW o \in Refusals,
           r.first = q.first, r.trace = Append(q.trace, o), ~r.submits,
           r.providers = q.providers, r.step = "done", r.stop = StopAfter[o]
    PROVE  Recorded(r)
<1>1. o \in Outcomes /\ q.trace \in Seq(Outcomes) /\ o \in By("submit")
  BY Tooling DEF Turn
<1>2. Append(q.trace, o) # << >> /\ Append(q.trace, o)[1] = q.trace[1]
  BY <1>1, TraceAppend
<1>3. ~Has(q.trace, Mutating)
  BY DEF Recorded
<1>4. Flaws(r.first, r.trace) \subseteq Unforeseen
  BY <1>1, <1>3, SubmitFlaws DEF Recorded, Unforeseen, NoPracticeSeen
<1>5. /\ (r.trace = << >>) <=> (r.first = None)
      /\ r.trace # << >> => r.trace[1] = "observation_classified"
  BY <1>2 DEF Recorded
<1>6. \A c \in Refusals : Has(r.trace, {c}) => r.step = "done" /\ r.stop = StopAfter[c]
  <2> SUFFICES ASSUME NEW c \in Refusals, Has(r.trace, {c}) PROVE c = o
    OBVIOUS
  <2>1. ~Has(q.trace, {c})
    BY DEF Recorded
  <2>2. Has(r.trace, {c}) <=> Has(q.trace, {c}) \/ o \in {c}
    BY <1>1, HasAppend
  <2> QED
    BY <2>1, <2>2
<1>7. Cardinality(Numbered(r.trace, ProviderBacked)) <= r.providers
  <2>1. o \notin ProviderBacked
    BY Tooling DEF ProviderBacked
  <2>2. /\ Cardinality(Numbered(q.trace, ProviderBacked)) \in Nat
        /\ Cardinality(Numbered(r.trace, ProviderBacked))
             = Cardinality(Numbered(q.trace, ProviderBacked))
    BY <1>1, <2>1, NumberedCount
  <2> QED
    BY <2>2 DEF Recorded
<1>8. r.trace # << >>
  BY <1>2
<1> QED
  BY <1>4, <1>5, <1>6, <1>7, <1>8, Zenon DEF Recorded

-----------------------------------------------------------------------------
(***************************************************************************)
(* What a turn that was alone makes of the next step                       *)
(***************************************************************************)
LEMMA InformedAnyhow ==
    ASSUME NEW r, r.step \in {"latest", "done"}, ~r.submits, NEW given, NEW taken
    PROVE  Informed(r, given, taken)
BY DEF Informed, Generating

\* A turn that goes on is either without a flaw or found its practice claimed.
LEMMA FairGoingOn ==
    ASSUME NEW q, Fair(q), q.step # "done"
    PROVE  /\ ~Has(q.trace, {Stale})
           /\ \/ Flaws(q.first, q.trace) = {}
              \/ Flaws(q.first, q.trace) = {NoPracticeSeen} /\ q.first = "await_submission"
BY DEF Fair

LEMMA FairSame ==
    ASSUME NEW q, NEW r, Fair(q), q.step # "done", r.first = q.first, r.trace = q.trace
    PROVE  Fair(r)
BY DEF Fair

\* A tool step adds no flaw but that of an essay sent for a claimed practice.
LEMMA FairTool ==
    ASSUME NEW q \in Turn, NEW r, Fair(q), q.step # "done", NEW o \in Mutating \ {Stale},
           r.first = q.first, r.trace = Append(q.trace, o),
           \/ Flaws(q.first, Append(q.trace, o)) = Flaws(q.first, q.trace)
           \/ /\ q.first = "await_submission"
              /\ Flaws(q.first, Append(q.trace, o))
                   \subseteq Flaws(q.first, q.trace) \cup {NoPracticeSeen}
    PROVE  Fair(r)
<1>1. o \in Outcomes /\ q.trace \in Seq(Outcomes)
  BY Tooling DEF Turn
<1>2. ~Has(r.trace, {Stale})
  <2>1. Has(r.trace, {Stale}) <=> Has(q.trace, {Stale}) \/ o \in {Stale}
    BY <1>1, HasAppend
  <2> QED
    BY <2>1, FairGoingOn
<1>3. \/ Flaws(r.first, r.trace) = {}
      \/ Flaws(r.first, r.trace) = {NoPracticeSeen} /\ r.first = "await_submission"
  <2>1. Flaws(r.first, r.trace) = Flaws(q.first, Append(q.trace, o))
    OBVIOUS
  <2>2. \/ Flaws(q.first, q.trace) = {}
        \/ Flaws(q.first, q.trace) = {NoPracticeSeen} /\ q.first = "await_submission"
    BY FairGoingOn
  <2>3. CASE Flaws(q.first, Append(q.trace, o)) = Flaws(q.first, q.trace)
    BY <2>1, <2>2, <2>3
  <2>4. CASE /\ q.first = "await_submission"
             /\ Flaws(q.first, Append(q.trace, o))
                  \subseteq Flaws(q.first, q.trace) \cup {NoPracticeSeen}
    <3>1. Flaws(r.first, r.trace) \subseteq {NoPracticeSeen}
      BY <2>1, <2>2, <2>4
    <3> QED
      BY <2>4, <3>1
  <2> QED
    BY <2>3, <2>4
<1> QED
  BY <1>2, <1>3 DEF Fair

LEMMA StopAccounted ==
    ASSUME NEW q \in Turn, NEW r \in Turn, NEW given, NEW taken, NEW n, NEW now, NEW alone,
           Accounted(q, given, taken, n, now, alone), q.step # "done",
           r.step = "done", r.first = q.first, r.trace = q.trace, r.providers = q.providers,
           r.submits = FALSE, r.trace # << >> \/ r.stop \notin StopReasons,
           NEW given2, NEW taken2, NEW n2, NEW now2
    PROVE  Accounted(r, given2, taken2, n2, now2, alone)
<1>1. Recorded(q) /\ (alone => Fair(q))
  BY DEF Accounted, Undisturbed
<1>2. q.providers <= r.providers
  BY DEF Turn
<1>3. Recorded(r)
  BY <1>1, <1>2, RecordedSame
<1>4. alone => Fair(r)
  BY <1>1, FairSame
<1> QED
  BY <1>3, <1>4, InformedAnyhow DEF Accounted, Undisturbed

LEMMA RefusalAccounted ==
    ASSUME NEW q \in Turn, NEW r \in Turn, NEW given, NEW taken, NEW n, NEW now, NEW alone,
           Accounted(q, given, taken, n, now, alone), q.step # "done", q.trace # << >>,
           q.submits, NEW o \in Refusals,
           r.first = q.first, r.trace = Append(q.trace, o), ~r.submits,
           r.providers = q.providers, r.step = "done", r.stop = StopAfter[o],
           alone => \/ o = "submission_conflict"
                    \/ q.first \in PracticeContext \cup {"await_submission"},
           NEW given2, NEW taken2, NEW n2, NEW now2
    PROVE  Accounted(r, given2, taken2, n2, now2, alone)
<1>1. Recorded(q) /\ (alone => Fair(q))
  BY DEF Accounted, Undisturbed
<1>2. Recorded(r)
  BY <1>1, RecordedRefusal
<1>3. ASSUME alone PROVE Fair(r)
  <2>1. ~Has(q.trace, Mutating)
    BY <1>1 DEF Recorded
  <2>2. /\ q.trace \in Seq(Outcomes) /\ o \in Outcomes
        /\ o \in By("submit") /\ o \in Mutating \ {Stale}
    BY Tooling DEF Turn, Stale
  <2>3. /\ Flaws(r.first, r.trace) \subseteq Flaws(q.first, q.trace) \cup {NoPracticeSeen}
        /\ q.first \in PracticeContext => Flaws(r.first, r.trace) = Flaws(q.first, q.trace)
    BY <2>1, <2>2, SubmitFlaws
  <2>4. CASE o = "submission_conflict"
    <3>1. r.stop = "submission_conflict"
      BY <2>4 DEF StopAfter
    <3>2. ~Has(r.trace, {Stale})
      <4>1. Has(r.trace, {Stale}) <=> Has(q.trace, {Stale}) \/ o \in {Stale}
        BY <2>2, HasAppend
      <4> QED
        BY <1>1, <1>3, <2>2, <4>1, FairGoingOn
    <3>3. Flaws(q.first, q.trace) \subseteq {NoPracticeSeen}
      BY <1>1, <1>3, FairGoingOn
    <3> QED
      BY <2>3, <3>1, <3>2, <3>3 DEF Fair
  <2>5. CASE q.first \in PracticeContext \cup {"await_submission"}
    BY <1>1, <1>3, <2>2, <2>3, <2>5, FairTool
  <2> QED
    BY <1>3, <2>4, <2>5
<1> QED
  BY <1>2, <1>3, InformedAnyhow DEF Accounted, Undisturbed

LEMMA ObservedAccounted ==
    ASSUME NEW q \in Turn, NEW r \in Turn, NEW given, NEW taken, NEW n, NEW now, NEW alone,
           Accounted(q, given, taken, n, now, alone), q.step \in Observing,
           NEW kind \in Kinds, r.first = (IF q.first = None THEN kind ELSE q.first),
           r.trace = Append(q.trace, "observation_classified"), r.providers = q.providers,
           r.submits = q.submits, r.target = q.target, r.step = "select", r.kind = kind,
           kind \in Asked => r.update \in given, kind = "needs_completion" => r.update \in taken,
           alone => kind = now /\ r.update = n
    PROVE  Accounted(r, given, taken, n, now, alone)
<1> DEFINE o == "observation_classified"
<1>1. Recorded(q) /\ (alone => Undisturbed(q, n, now)) /\ q.step \notin {"done", "evaluating"}
  BY DEF Accounted, Observing
<1>2. Recorded(r)
  BY <1>1, RecordedObservation
<1>3. Informed(r, given, taken)
  <2>1. ~r.submits \/ r.target \in given
    BY DEF Accounted, Informed
  <2> QED
    BY <2>1, Zenon DEF Informed, Generating
<1>4. ASSUME alone PROVE Undisturbed(r, n, now)
  <2>1. q.trace \in Seq(Outcomes) /\ o \in Outcomes /\ o \notin Mutating
    BY Tooling DEF Turn, Stale
  <2>2. \A outcomes : Has(r.trace, outcomes) <=> Has(q.trace, outcomes) \/ o \in outcomes
    BY <2>1, HasAppend
  <2>3. o \notin Changing /\ o \notin By("complete") /\ o \notin By("generate")
        /\ o # "submission_submitted" /\ o # Stale
    BY Tooling DEF Changing, Stale
  <2>4. Fair(q) /\ Remembers(q, now)
    BY <1>1, <1>4 DEF Undisturbed
  <2>5. Flaws(r.first, r.trace) = Flaws(q.first, q.trace)
    <3>1. CASE q.first = None
      <4>1. q.trace = << >>
        BY <1>1, <3>1 DEF Recorded
      <4> QED
        BY <2>1, <4>1, NoFlawsYet, ObserveFlaws
    <3>2. CASE q.first # None
      BY <2>1, <3>2, ObserveFlaws
    <3> QED
      BY <3>1, <3>2
  <2>6. Fair(r)
    <3>1. /\ ~Has(q.trace, {Stale})
          /\ \/ Flaws(q.first, q.trace) = {}
             \/ Flaws(q.first, q.trace) = {NoPracticeSeen} /\ q.first = "await_submission"
      BY <1>1, <2>4, FairGoingOn
    <3>2. ~Has(r.trace, {Stale})
      BY <2>2, <2>3, <3>1
    <3>3. q.first = "await_submission" => r.first = "await_submission"
      BY NullAssumption DEF Kinds
    <3> QED
      BY <2>5, <3>1, <3>2, <3>3 DEF Fair
  <2>7. Remembers(r, now)
    <3>1. ~Has(r.trace, Changing) => r.first = now
      <4>1. ~Has(r.trace, Changing) => ~Has(q.trace, Changing)
        BY <2>2
      <4>2. q.first # None => q.trace # << >>
        BY <1>1 DEF Recorded
      <4> QED
        BY <1>1, <1>4, <2>4, <4>1, <4>2 DEF Remembers
    <3>2. /\ Has(r.trace, {"submission_submitted"}) <=> Has(q.trace, {"submission_submitted"})
          /\ Has(r.trace, By("complete")) <=> Has(q.trace, By("complete"))
          /\ Has(r.trace, By("generate")) <=> Has(q.trace, By("generate"))
      BY <2>2, <2>3
    <3> QED
      BY <2>4, <3>1, <3>2 DEF Remembers
  <2>8. Entitled(r, n, now)
    BY <1>4 DEF Entitled, Generating, Submitting
  <2> QED
    BY <2>6, <2>7, <2>8 DEF Undisturbed
<1> QED
  BY <1>2, <1>3, <1>4 DEF Accounted

\* A tool that may still run once has not run.
LEMMA NotYet ==
    ASSUME NEW s \in Seq(Outcomes), NEW tool, Count(s, tool) < 1
    PROVE  ~Has(s, By(tool))
<1>1. /\ IsFiniteSet(Numbered(s, By(tool)))
      /\ Cardinality(Numbered(s, By(tool))) \in Nat
  BY NumberedCount
<1>2. Cardinality(Numbered(s, By(tool))) = 0
  BY <1>1 DEF Count
<1> QED
  BY <1>1, <1>2, FS_EmptySet DEF Has

\* No refusal in the trace of a turn that goes on.
LEMMA NoRefusal ==
    ASSUME NEW q, Recorded(q), q.step # "done" PROVE ~Has(q.trace, Refusals)
BY DEF Recorded, Has, Numbered

LEMMA NoToolYet ==
    ASSUME NEW q, Recorded(q), q.submits
    PROVE  /\ ~Has(q.trace, Mutating) /\ ~Has(q.trace, Changing)
           /\ ~Has(q.trace, {"submission_submitted"}) /\ ~Has(q.trace, Stored)
           /\ ~Has(q.trace, By("generate")) /\ ~Has(q.trace, By("complete"))
<1>1. ~Has(q.trace, Mutating)
  BY DEF Recorded
<1>2. /\ Changing \subseteq Mutating /\ {"submission_submitted"} \subseteq Mutating
      /\ Stored \subseteq Mutating /\ By("generate") \subseteq Mutating
      /\ By("complete") \subseteq Mutating
  BY Tooling DEF Changing, Stored
<1> QED
  BY <1>1, <1>2, HasPart

LEMMA GeneratedAccounted ==
    ASSUME NEW q \in Turn, NEW r \in Turn, NEW given, NEW taken, NEW n, NEW now, NEW alone,
           Accounted(q, given, taken, n, now, alone), q.step \in Generating,
           NEW o \in By("generate"),
           r.first = q.first, r.trace = Append(q.trace, o), r.submits = FALSE,
           q.providers + (IF o \in ProviderBacked THEN 1 ELSE 0) <= r.providers,
           r.step \in {"latest", "done"},
           NEW given2, NEW taken2, NEW n2, NEW now2,
           alone => o # Stale /\ now2 = "needs_practice_submission"
    PROVE  Accounted(r, given2, taken2, n2, now2, alone)
<1>1. Recorded(q) /\ q.step # "done" /\ q.trace # << >> /\ q.trace \in Seq(Outcomes)
  BY DEF Accounted, Recorded, Generating, Observing, Turn
<1>2. ~Has(q.trace, Refusals)
  BY <1>1, NoRefusal
<1>3. /\ o \in Outcomes /\ o \in Mutating \ Refusals /\ o \notin By("complete")
      /\ o # "submission_submitted"
  BY Tooling DEF Stale
<1>4. Recorded(r)
  <2>1. Flaws(q.first, Append(q.trace, o)) \subseteq Unforeseen
    BY <1>1, <1>2, GenerateFlaws DEF Recorded, Unforeseen
  <2> QED
    BY <1>1, <1>3, <2>1, RecordedTool
<1>5. ASSUME alone PROVE Fair(r) /\ Remembers(r, now2)
  <2>1. Fair(q) /\ Remembers(q, now) /\ Entitled(q, n, now)
    BY <1>1, <1>5 DEF Accounted, Undisturbed
  <2>2. /\ q.first = "needs_generation" \/ Has(q.trace, By("complete"))
        /\ now = "needs_generation"
    BY <2>1 DEF Entitled
  <2>3. Flaws(q.first, Append(q.trace, o)) = Flaws(q.first, q.trace)
    BY <1>1, <1>2, <2>2, GenerateFlaws
  <2>4. Fair(r)
    BY <1>1, <1>3, <1>5, <2>1, <2>3, FairTool
  <2>5. \A outcomes : Has(r.trace, outcomes) <=> Has(q.trace, outcomes) \/ o \in outcomes
    BY <1>1, <1>3, HasAppend
  <2>6. Has(r.trace, {"submission_submitted"}) => Has(r.trace, By("complete"))
    BY <1>3, <2>1, <2>2, <2>5 DEF Remembers
  <2>7. Has(r.trace, Changing)
    BY <2>5 DEF Changing
  <2> QED
    BY <1>5, <2>4, <2>6, <2>7 DEF Remembers
<1> QED
  BY <1>4, <1>5, InformedAnyhow DEF Accounted, Undisturbed, Entitled, Generating, Submitting

LEMMA SubmittedAccounted ==
    ASSUME NEW q \in Turn, NEW r \in Turn, NEW given, NEW taken, NEW n, NEW now, NEW alone,
           Accounted(q, given, taken, n, now, alone), q.step = "evaluating", q.submits,
           r.first = q.first, r.trace = Append(q.trace, "submission_submitted"),
           r.submits = FALSE, r.providers = q.providers + 1, r.step \in {"latest", "done"},
           NEW given2, NEW taken2, NEW n2, NEW now2, alone => now2 = "needs_completion"
    PROVE  Accounted(r, given2, taken2, n2, now2, alone)
<1> DEFINE o == "submission_submitted"
<1>1. Recorded(q) /\ q.trace # << >> /\ q.trace \in Seq(Outcomes)
  BY DEF Accounted, Recorded, Observing, Turn
<1>2. /\ ~Has(q.trace, Mutating) /\ ~Has(q.trace, By("generate"))
  BY <1>1, NoToolYet
<1>3. /\ o \in Outcomes /\ o \in Mutating \ Refusals /\ o \in By("submit") /\ o # Stale
      /\ o \notin By("generate")
  BY Tooling DEF Stale
<1>4. Recorded(r)
  <2>1. Flaws(q.first, Append(q.trace, o)) \subseteq Unforeseen
    BY <1>1, <1>2, <1>3, SubmitFlaws DEF Recorded, Unforeseen, NoPracticeSeen
  <2>2. q.providers + (IF o \in ProviderBacked THEN 1 ELSE 0) <= r.providers
    BY DEF Turn
  <2> QED
    BY <1>1, <1>3, <2>1, <2>2, RecordedTool
<1>5. ASSUME alone PROVE Fair(r) /\ Remembers(r, now2)
  <2>1. Fair(q) /\ Entitled(q, n, now)
    BY <1>5 DEF Accounted, Undisturbed
  <2>2. q.first \in PracticeContext \cup {"await_submission"}
    BY <2>1 DEF Entitled, Submitting
  <2>3. /\ Flaws(q.first, Append(q.trace, o))
             \subseteq Flaws(q.first, q.trace) \cup {NoPracticeSeen}
        /\ q.first \in PracticeContext
             => Flaws(q.first, Append(q.trace, o)) = Flaws(q.first, q.trace)
    BY <1>1, <1>2, <1>3, SubmitFlaws
  <2>4. Fair(r)
    BY <1>1, <1>3, <1>5, <2>1, <2>2, <2>3, FairTool
  <2>5. \A outcomes : Has(r.trace, outcomes) <=> Has(q.trace, outcomes) \/ o \in outcomes
    BY <1>1, <1>3, HasAppend
  <2>6. Has(r.trace, Changing) /\ ~Has(r.trace, By("generate"))
    BY <1>2, <1>3, <2>5 DEF Changing
  <2> QED
    BY <1>5, <2>4, <2>6 DEF Remembers
<1> QED
  BY <1>4, <1>5, InformedAnyhow DEF Accounted, Undisturbed, Entitled, Generating, Submitting

\* An essay sent before: nothing changes but the trace.
LEMMA ReusedAccounted ==
    ASSUME NEW q \in Turn, NEW r \in Turn, NEW given, NEW taken, NEW n, NEW now, NEW alone,
           Accounted(q, given, taken, n, now, alone), q.step \in {"select", "claim"}, q.submits,
           r.first = q.first, r.trace = Append(q.trace, "submission_reused"),
           r.submits = FALSE, r.providers = q.providers, r.step \in {"latest", "complete", "done"},
           r.step = "complete" => r.update \in taken
    PROVE  Accounted(r, given, taken, n, now, alone)
<1> DEFINE o == "submission_reused"
<1>1. Recorded(q) /\ q.trace # << >> /\ q.trace \in Seq(Outcomes)
  BY DEF Accounted, Recorded, Observing, Turn
<1>2. /\ ~Has(q.trace, Mutating) /\ ~Has(q.trace, By("generate")) /\ ~Has(q.trace, Changing)
      /\ ~Has(q.trace, {"submission_submitted"})
  BY <1>1, NoToolYet
<1>3. /\ o \in Outcomes /\ o \in Mutating \ Refusals /\ o \in By("submit") /\ o # Stale
      /\ o \notin By("generate") /\ o \notin Changing /\ o \in Stored
  BY Tooling DEF Stale, Changing, Stored
<1>4. Flaws(q.first, Append(q.trace, o)) = Flaws(q.first, q.trace)
  BY <1>1, <1>2, <1>3, SubmitFlaws
<1>5. Recorded(r)
  <2>1. Flaws(q.first, Append(q.trace, o)) \subseteq Unforeseen
    BY <1>1, <1>4 DEF Recorded
  <2>2. q.providers + (IF o \in ProviderBacked THEN 1 ELSE 0) <= r.providers
    BY DEF Turn, ProviderBacked
  <2> QED
    BY <1>1, <1>3, <2>1, <2>2, RecordedTool
<1>6. \A outcomes : Has(r.trace, outcomes) <=> Has(q.trace, outcomes) \/ o \in outcomes
  BY <1>1, <1>3, HasAppend
<1>7. ASSUME alone PROVE Fair(r) /\ Remembers(r, now) /\ Entitled(r, n, now)
  <2>1. Fair(q) /\ Remembers(q, now)
    BY <1>7 DEF Accounted, Undisturbed
  <2>2. Fair(r)
    BY <1>1, <1>3, <1>4, <2>1, FairTool
  <2>3. q.first = now
    BY <1>1, <1>2, <2>1 DEF Remembers
  <2>4. ~Has(r.trace, By("generate")) /\ ~Has(r.trace, {"submission_submitted"})
    BY <1>2, <1>3, <1>6
  <2>5. Has(r.trace, Stored)
    BY <1>3, <1>6
  <2> QED
    BY <2>2, <2>3, <2>4, <2>5 DEF Remembers, Entitled, Generating, Submitting
<1>8. Informed(r, given, taken)
  BY DEF Informed, Generating
<1> QED
  BY <1>5, <1>7, <1>8 DEF Accounted, Undisturbed

LEMMA CompletedAccounted ==
    ASSUME NEW q \in Turn, NEW r \in Turn, NEW given, NEW taken, NEW n, NEW now, NEW alone,
           Accounted(q, given, taken, n, now, alone), q.step = "complete",
           NEW o \in By("complete"),
           r.first = q.first, r.trace = Append(q.trace, o), r.submits = FALSE,
           r.providers = q.providers, r.step \in {"latest", "done"},
           NEW given2, NEW taken2, NEW n2, NEW now2
    PROVE  Accounted(r, given2, taken2, n2, now2, alone)
<1>1. Recorded(q) /\ q.trace # << >> /\ q.trace \in Seq(Outcomes)
  BY DEF Accounted, Recorded, Observing, Turn
<1>2. ~Has(q.trace, Refusals)
  BY <1>1, NoRefusal
<1>3. /\ o \in Outcomes /\ o \in Mutating \ Refusals /\ o # Stale /\ o \notin By("generate")
      /\ o \notin ProviderBacked
  BY Tooling DEF Stale, ProviderBacked
<1>4. Recorded(r)
  <2>1. Flaws(q.first, Append(q.trace, o)) \subseteq Unforeseen
    BY <1>1, <1>2, CompleteFlaws DEF Recorded, Unforeseen
  <2>2. q.providers + (IF o \in ProviderBacked THEN 1 ELSE 0) <= r.providers
    BY <1>3 DEF Turn
  <2> QED
    BY <1>1, <1>3, <2>1, <2>2, RecordedTool
<1>5. ASSUME alone PROVE Fair(r) /\ Remembers(r, now2)
  <2>1. Fair(q) /\ Entitled(q, n, now)
    BY <1>5 DEF Accounted, Undisturbed
  <2>2. ~Has(q.trace, By("generate")) /\ (q.first = "needs_completion" \/ Has(q.trace, Stored))
    BY <2>1 DEF Entitled
  <2>3. Flaws(q.first, Append(q.trace, o)) = Flaws(q.first, q.trace)
    BY <1>1, <1>2, <2>2, CompleteFlaws
  <2>4. Fair(r)
    BY <1>1, <1>3, <1>5, <2>1, <2>3, FairTool
  <2>5. \A outcomes : Has(r.trace, outcomes) <=> Has(q.trace, outcomes) \/ o \in outcomes
    BY <1>1, <1>3, HasAppend
  <2>6. Has(r.trace, Changing) /\ Has(r.trace, By("complete")) /\ ~Has(r.trace, By("generate"))
    BY <1>3, <2>2, <2>5 DEF Changing
  <2> QED
    BY <2>4, <2>6 DEF Remembers
<1> QED
  BY <1>4, <1>5, InformedAnyhow DEF Accounted, Undisturbed, Entitled, Generating, Submitting

\* The turn goes to its next step and the rows stay as they are.
LEMMA WentAccounted ==
    ASSUME NEW q \in Turn, NEW r \in Turn, NEW given, NEW taken, NEW n, NEW now, NEW alone,
           Accounted(q, given, taken, n, now, alone), q.step \notin {"done", "evaluating"},
           r.first = q.first, r.trace = q.trace, r.providers = q.providers,
           r.submits = q.submits, r.step \in Observing \/ r.trace # << >>, r.step # "done",
           Informed(r, given, taken), alone => Entitled(r, n, now)
    PROVE  Accounted(r, given, taken, n, now, alone)
<1>1. Recorded(q) /\ q.providers <= r.providers
  BY DEF Accounted, Turn
<1>2. Recorded(r)
  BY <1>1, RecordedSame
<1>3. ASSUME alone PROVE Fair(r) /\ Remembers(r, now)
  <2>1. Fair(q) /\ Remembers(q, now)
    BY <1>3 DEF Accounted, Undisturbed
  <2> QED
    BY <2>1, FairSame DEF Remembers
<1> QED
  BY <1>2, <1>3 DEF Accounted, Undisturbed

-----------------------------------------------------------------------------
(***************************************************************************)
(* The rows as the acting turn finds them                                  *)
(***************************************************************************)
LEMMA Resting ==
    ASSUME Rooted, UNCHANGED <<updates, practice, applied>>
    PROVE  Rooted' /\ Given' = Given /\ Taken' = Taken /\ Latest' = Latest /\ Now' = Now
BY DEF Rooted, Given, Taken, Latest, Now

LEMMA Numbering ==
    ASSUME RowsOK
    PROVE  /\ Latest \in Nat /\ DOMAIN updates = 1..Latest
           /\ Given \subseteq Numbers /\ Given \subseteq 1..Latest
BY BoundAssumption DEF RowsOK, Latest, Given, Numbers

\* What an observation comes to says how far the latest update's practice has got.
LEMMA NowMeans ==
    ASSUME RowsOK
    PROVE  /\ Now \in Asked <=> Latest \in Given
           /\ Latest \in Given =>
                /\ Now = "needs_generation" <=> practice[Latest].state = "none"
                /\ Now = "needs_practice_submission" <=> practice[Latest].state = "generated"
                /\ Now = "await_submission" <=> practice[Latest].state = "submission_in_progress"
                /\ Now = "needs_completion" <=> practice[Latest].state = "submitted"
<1>1. CASE Latest \in Given
  <2>1. Latest \in Numbers /\ Latest # 0
    BY <1>1, Numbering DEF Numbers
  <2>2. practice[Latest].state \in {"none", "generated", "submission_in_progress", "submitted"}
    BY <2>1 DEF RowsOK, Row
  <2>3. Now = KindOf[practice[Latest].state]
    BY <1>1, <2>1 DEF Now
  <2> QED
    BY <1>1, <2>2, <2>3 DEF KindOf, Asked
<1>2. CASE Latest \notin Given
  BY <1>2 DEF Now, Asked
<1> QED
  BY <1>1, <1>2

\* The acting turn and what becomes of it.
Heir(t) == Accounted(turn'[t], Given', Taken', Latest', Now', t \notin disturbed)

LEMMA Becomes ==
    ASSUME TurnsOK, TurnsOK', NEW t \in Turns, NEW r, Become(t, r), r.step # "idle"
    PROVE  turn'[t] = r /\ r \in Turn
<1>1. turn'[t] = r
  BY DEF Become, TurnsOK
<1> QED
  BY <1>1 DEF TurnsOK, Idle

LEMMA StopHeir ==
    ASSUME TurnsOK, TurnsOK', NEW t \in Turns, turn[t].step \notin {"idle", "done"}, Account(t),
           NEW reason, Stop(t, reason), turn[t].trace # << >> \/ reason \notin StopReasons
    PROVE  Heir(t)
<1> DEFINE q == turn[t]
           r == Stopped(q, reason)
<1>1. q \in Turn
  BY BusyTurn
<1>2. /\ r.step = "done" /\ r.first = q.first /\ r.trace = q.trace
      /\ r.stop = reason /\ r.providers = q.providers
  BY <1>1, StoppedFields
<1>3. r.submits = FALSE
  BY <1>1, StoppedFields
<1>4. Become(t, r)
  BY DEF Stop
<1> HIDE DEF r
<1>5. turn'[t] = r /\ r \in Turn
  BY <1>2, <1>4, Becomes
<1>6. Accounted(q, Given, Taken, Latest, Now, t \notin disturbed)
  BY DEF Account
<1>7. Accounted(r, Given', Taken', Latest', Now', t \notin disturbed)
  BY <1>1, <1>2, <1>3, <1>5, <1>6, StopAccounted
<1> QED
  BY <1>5, <1>7 DEF Heir

LEMMA RefusalHeir ==
    ASSUME TurnsOK, TurnsOK', NEW t \in Turns, turn[t].step \notin Observing \cup {"idle", "done"},
           Account(t), turn[t].submits, NEW o \in Refusals, Become(t, Refused(turn[t], o)),
           t \notin disturbed => \/ o = "submission_conflict"
                                 \/ turn[t].first \in PracticeContext \cup {"await_submission"}
    PROVE  Heir(t)
<1> DEFINE q == turn[t]
           r == Refused(q, o)
<1>1. q \in Turn
  BY BusyTurn
<1>2. /\ r.step = "done" /\ r.first = q.first /\ r.trace = Append(q.trace, o)
      /\ r.stop = StopAfter[o] /\ r.providers = q.providers
  BY <1>1, RefusedFields
<1>3. r.submits = FALSE
  BY <1>1, RefusedFields
<1>4. Become(t, r)
  OBVIOUS
<1> HIDE DEF r
<1>5. turn'[t] = r /\ r \in Turn
  BY <1>2, <1>4, Becomes
<1>6. Accounted(q, Given, Taken, Latest, Now, t \notin disturbed)
  BY DEF Account
<1>7. q.trace # << >>
  BY <1>6 DEF Accounted, Recorded
<1>8. Accounted(r, Given', Taken', Latest', Now', t \notin disturbed)
  BY <1>1, <1>2, <1>3, <1>5, <1>6, <1>7, RefusalAccounted
<1> QED
  BY <1>5, <1>8 DEF Heir

\* The turn observes what x, which knows the update it reads, is classified as.
LEMMA ObservedHeir ==
    ASSUME TurnsOK, TurnsOK', NEW t \in Turns, turn[t].step \in Observing, Account(t),
           Rooted, UNCHANGED <<updates, practice, applied>>,
           NEW x \in Turn, NEW kind \in Kinds, NEW essay, Become(t, Classified(x, kind, essay)),
           x.first = turn[t].first, x.trace = turn[t].trace, x.providers = turn[t].providers,
           x.target = turn[t].target, x.submits = turn[t].submits,
           kind \in Asked => x.update \in Given,
           kind = "needs_completion" => x.update \in Taken,
           t \notin disturbed => kind = Now /\ x.update = Latest
    PROVE  Heir(t)
<1> DEFINE q == turn[t]
           r == Classified(x, kind, essay)
<1>1. q \in Turn
  BY BusyTurn DEF Observing
<1>2. /\ r.step = "select" /\ r.kind = kind /\ r.update = x.update /\ r.target = x.target
      /\ r.first = (IF x.first = None THEN kind ELSE x.first)
      /\ r.trace = Append(x.trace, "observation_classified")
      /\ r.providers = x.providers
  BY ClassifiedFields
<1>3. r.submits = x.submits
  BY ClassifiedFields
<1>4. Become(t, r)
  OBVIOUS
<1> HIDE DEF r
<1>5. turn'[t] = r /\ r \in Turn
  BY <1>2, <1>4, Becomes
<1>6. Accounted(q, Given, Taken, Latest, Now, t \notin disturbed)
  BY DEF Account
<1>7. r.submits = q.submits
  BY <1>3
<1>8. Accounted(r, Given, Taken, Latest, Now, t \notin disturbed)
  BY <1>1, <1>2, <1>5, <1>6, <1>7, ObservedAccounted
<1> QED
  BY <1>5, <1>8, Resting DEF Heir

LEMMA WentHeir ==
    ASSUME TurnsOK, TurnsOK', NEW t \in Turns, turn[t].step \notin {"idle", "done", "evaluating"},
           Account(t), Rooted, UNCHANGED <<updates, practice, applied>>,
           NEW r, Become(t, r), r.step \notin {"idle", "done"},
           r.step \in Observing \/ turn[t].step \notin Observing,
           r.first = turn[t].first, r.trace = turn[t].trace, r.providers = turn[t].providers,
           r.submits = turn[t].submits, Informed(r, Given, Taken),
           t \notin disturbed => Entitled(r, Latest, Now)
    PROVE  Heir(t)
<1> DEFINE q == turn[t]
<1>1. q \in Turn /\ turn'[t] = r /\ r \in Turn
  BY BusyTurn, Becomes
<1>2. Accounted(q, Given, Taken, Latest, Now, t \notin disturbed)
  BY DEF Account
<1>3. r.step \in Observing \/ r.trace # << >>
  BY <1>2 DEF Accounted, Recorded
<1>4. Accounted(r, Given, Taken, Latest, Now, t \notin disturbed)
  BY <1>1, <1>2, <1>3, WentAccounted
<1> QED
  BY <1>1, <1>4, Resting DEF Heir

-----------------------------------------------------------------------------
(***************************************************************************)
(* Actions of a turn, one lemma each, once more                            *)
(***************************************************************************)
LEMMA BeginHeir ==
    ASSUME RowsOK, TurnsOK, TurnsOK', Rooted, NEW t \in Turns, NEW submits \in BOOLEAN,
           NEW n \in Numbers \cup {0}, NEW e \in Essays \cup {None}, Begin(t, submits, n, e)
    PROVE  Rooted' /\ Accounted(turn'[t], Given', Taken', Latest', Now', TRUE)
<1> DEFINE r == [step |-> "latest", submits |-> submits, target |-> n, essay |-> e,
                 first |-> None, update |-> 0, kind |-> None, essayFound |-> None, trace |-> << >>,
                 providers |-> 0, prepared |-> FALSE, stop |-> None]
<1>1. Become(t, r) /\ UNCHANGED <<updates, practice, applied>>
  BY DEF Begin
<1>2. /\ r.step = "latest" /\ r.first = None /\ r.trace = << >> /\ r.providers = 0
      /\ r.target = n
  OBVIOUS
<1>3. r.submits => n \in Given
  BY Numbering DEF Begin, Rooted, Numbers
<1> HIDE DEF r
<1>4. turn'[t] = r
  BY <1>1, <1>2, Becomes
<1>5. \A outcomes : ~Has(r.trace, outcomes) /\ Numbered(r.trace, outcomes) = {}
  BY <1>2 DEF Has, Numbered
<1>6. Flaws(r.first, r.trace) = {}
  BY <1>2, NoFlawsYet
<1>7. Cardinality(Numbered(r.trace, ProviderBacked)) <= r.providers
  <2>1. Numbered(r.trace, ProviderBacked) = {}
    BY <1>5
  <2>2. Cardinality({}) = 0
    BY FS_EmptySet
  <2>3. Cardinality(Numbered(r.trace, ProviderBacked)) = 0
    BY <2>1, <2>2
  <2> QED
    BY <1>2, <2>3
<1>8. Recorded(r)
  <2>1. ~r.submits \/ ~Has(r.trace, Mutating)
    BY <1>5
  <2>2. /\ (r.trace = << >>) <=> (r.first = None)
        /\ r.trace # << >> => r.trace[1] = "observation_classified"
        /\ r.step \in Observing \/ r.trace # << >>
        /\ Flaws(r.first, r.trace) \subseteq Unforeseen
    BY <1>2, <1>6 DEF Observing
  <2>3. \A o \in Refusals : ~Has(r.trace, {o})
    BY <1>5
  <2> QED
    BY <1>7, <2>1, <2>2, <2>3, Zenon DEF Recorded
<1>9. Informed(r, Given, Taken)
  <2>1. ~r.submits \/ r.target \in Given
    BY <1>2, <1>3, Zenon
  <2>2. r.step = "latest"
    BY <1>2
  <2>3. r.step \notin {"practice", "completion", "select", "complete"} \cup Generating
    BY <2>2 DEF Generating
  <2> QED
    BY <2>1, <2>3, Zenon DEF Informed
<1>10. Undisturbed(r, Latest, Now)
  <2>1. Fair(r)
    BY <1>5, <1>6 DEF Fair
  <2>2. Remembers(r, Now)
    BY <1>2, <1>5 DEF Remembers
  <2>3. Entitled(r, Latest, Now)
    BY <1>2 DEF Entitled, Generating, Submitting
  <2> QED
    BY <2>1, <2>2, <2>3 DEF Undisturbed
<1> QED
  BY <1>1, <1>4, <1>8, <1>9, <1>10, Resting DEF Accounted

\* What a turn's account says.
LEMMA Says ==
    ASSUME NEW t, Account(t)
    PROVE  /\ Informed(turn[t], Given, Taken) /\ Recorded(turn[t])
           /\ t \notin disturbed =>
                /\ Fair(turn[t])
                /\ turn[t].step # "done" => Remembers(turn[t], Now)
                /\ turn[t].step # "done" => Entitled(turn[t], Latest, Now)
BY DEF Account, Accounted, Undisturbed

\* A turn that was alone looks at the latest update.
LEMMA LooksAtLatest ==
    ASSUME NEW t, Account(t), t \notin disturbed,
           turn[t].step \in {"practice", "completion", "select"} \cup Generating \cup Submitting
    PROVE  turn[t].update = Latest
<1>1. turn[t].step # "done"
  BY DEF Generating, Submitting
<1>2. Entitled(turn[t], Latest, Now)
  BY <1>1, Says
<1> QED
  BY <1>2 DEF Entitled

LEMMA ReadLatestHeir ==
    ASSUME RowsOK, TurnsOK, TurnsOK', Rooted, NEW t \in Turns, Account(t), ReadLatest(t)
    PROVE  Rooted' /\ Heir(t)
<1> DEFINE q == turn[t]
           x == [q EXCEPT !.update = Latest]
<1>1. q.step = "latest" /\ UNCHANGED <<updates, practice, applied>>
  BY DEF ReadLatest, At
<1>2. q \in Turn /\ Steady(q) /\ Latest \in 0..MaxUpdates
  BY <1>1, BusyTurn, BoundAssumption DEF RowsOK, Latest
<1>3. /\ x \in Turn /\ x.update = Latest /\ x.first = q.first /\ x.trace = q.trace
      /\ x.providers = q.providers /\ x.target = q.target /\ x.step = "latest"
  BY <1>1, <1>2 DEF Turn
<1>4. x.submits = q.submits
  BY <1>2 DEF Turn
<1>5. q.submits => q.target \in Given
  BY DEF Account, Accounted, Informed
<1> HIDE DEF x
<1>6. CASE Latest = 0
  <2>1. Become(t, Classified(x, "needs_initial_writing", None))
    BY <1>6 DEF ReadLatest, x
  <2>2. Now = "needs_initial_writing"
    BY <1>6 DEF Now
  <2> QED
    BY <1>1, <1>3, <1>4, <2>1, <2>2, ObservedHeir, Resting DEF Observing, Kinds, Asked
<1>7. CASE Latest # 0 /\ updates[Latest] = "practice"
  <2> DEFINE r == [x EXCEPT !.step = "practice"]
  <2>1. Become(t, r)
    BY <1>7 DEF ReadLatest, x
  <2>2. /\ r.step = "practice" /\ r.first = x.first /\ r.trace = x.trace
        /\ r.update = x.update /\ r.target = x.target /\ r.providers = x.providers
    BY <1>3, GoFields
  <2>3. r.submits = q.submits
    BY <1>3, <1>4, GoFields
  <2> HIDE DEF r
  <2>4. Latest \in Given
    BY <1>7, Numbering DEF Given
  <2>5. Informed(r, Given, Taken)
    <3>1. ~r.submits \/ r.target \in Given
      BY <1>3, <1>5, <2>2, <2>3
    <3>2. r.step = "practice" /\ r.update \in Given
      BY <1>3, <2>2, <2>4
    <3> QED
      BY <3>1, <3>2, Zenon DEF Informed
  <2>6. Entitled(r, Latest, Now)
    BY <1>3, <2>2 DEF Entitled, Generating, Submitting
  <2> QED
    BY <1>1, <1>3, <2>1, <2>2, <2>3, <2>5, <2>6, WentHeir, Resting DEF Observing
<1>8. CASE Latest # 0 /\ updates[Latest] # "practice"
  <2>1. Become(t, Classified(x, "no_practice", None))
    BY <1>8 DEF ReadLatest, x
  <2>2. Now = "no_practice"
    BY <1>8 DEF Now, Given
  <2> QED
    BY <1>1, <1>3, <1>4, <2>1, <2>2, ObservedHeir, Resting DEF Observing, Kinds, Asked
<1> QED
  BY <1>6, <1>7, <1>8

LEMMA ReadPracticeHeir ==
    ASSUME RowsOK, TurnsOK, TurnsOK', Rooted, NEW t \in Turns, Account(t), ReadPractice(t)
    PROVE  Rooted' /\ Heir(t)
<1> DEFINE q == turn[t]
           row == practice[q.update]
<1>1. q.step = "practice" /\ UNCHANGED <<updates, practice, applied>>
  BY DEF ReadPractice, At
<1>2. q \in Turn
  BY <1>1, BusyTurn
<1>3. /\ q.update \in Given /\ (q.submits => q.target \in Given)
      /\ t \notin disturbed => q.update = Latest
  <2>1. q.update \in Given
    BY <1>1, Says DEF Informed
  <2>2. q.submits => q.target \in Given
    BY Says DEF Informed
  <2>3. t \notin disturbed => q.update = Latest
    BY <1>1, LooksAtLatest
  <2> QED
    BY <2>1, <2>2, <2>3
<1>4. q.update \in Numbers
  BY <1>3, Numbering
<1>5. row.state \in {"none", "generated", "submission_in_progress", "submitted"}
  BY <1>4 DEF RowsOK, Row
<1>6. ASSUME NEW kind \in Asked, kind # "needs_completion", NEW essay,
             Become(t, Classified(q, kind, essay)), q.update = Latest => Now = kind
      PROVE  Heir(t)
  <2>1. kind \in Kinds
    BY DEF Asked, Kinds
  <2> QED
    BY <1>1, <1>2, <1>3, <1>6, <2>1, ObservedHeir DEF Observing
<1>7. CASE row.state = "none"
  <2>1. Become(t, Classified(q, "needs_generation", None))
    BY <1>7 DEF ReadPractice
  <2> QED
    BY <1>1, <1>3, <1>6, <1>7, <2>1, NowMeans, Resting DEF Asked
<1>8. CASE row.state = "generated"
  <2>1. Become(t, Classified(q, "needs_practice_submission", None))
    BY <1>8 DEF ReadPractice
  <2> QED
    BY <1>1, <1>3, <1>6, <1>8, <2>1, NowMeans, Resting DEF Asked
<1>9. CASE row.state = "submission_in_progress"
  <2>1. Become(t, Classified(q, "await_submission", row.essay))
    BY <1>9 DEF ReadPractice
  <2> QED
    BY <1>1, <1>3, <1>6, <1>9, <2>1, NowMeans, Resting DEF Asked
<1>10. CASE row.state = "submitted"
  <2> DEFINE r == [q EXCEPT !.step = "completion", !.essayFound = row.essay]
  <2>1. Become(t, r)
    BY <1>10 DEF ReadPractice
  <2>2. /\ r.step = "completion" /\ r.first = q.first /\ r.trace = q.trace
        /\ r.update = q.update /\ r.target = q.target /\ r.providers = q.providers
    BY <1>2 DEF Turn
  <2>3. r.submits = q.submits
    BY <1>2 DEF Turn
  <2> HIDE DEF r
  <2>4. q.update \in Taken
    BY <1>4, <1>10 DEF Taken
  <2>5. Informed(r, Given, Taken)
    <3>1. ~r.submits \/ r.target \in Given
      BY <1>3, <2>2, <2>3
    <3>2. r.step = "completion" /\ r.update \in Given /\ r.update \in Taken
      BY <1>3, <2>2, <2>4
    <3> QED
      BY <3>1, <3>2, Zenon DEF Informed
  <2>6. t \notin disturbed => Entitled(r, Latest, Now)
    BY <1>3, <2>2 DEF Entitled, Generating, Submitting
  <2> QED
    BY <1>1, <2>1, <2>2, <2>3, <2>5, <2>6, WentHeir, Resting DEF Observing
<1> QED
  BY <1>5, <1>7, <1>8, <1>9, <1>10

LEMMA ReadCompletionHeir ==
    ASSUME RowsOK, TurnsOK, TurnsOK', Rooted, NEW t \in Turns, Account(t), ReadCompletion(t)
    PROVE  Rooted' /\ Heir(t)
<1> DEFINE q == turn[t]
<1>1. q.step = "completion" /\ UNCHANGED <<updates, practice, applied>>
  BY DEF ReadCompletion, At
<1>2. q \in Turn
  BY <1>1, BusyTurn
<1>3. /\ q.update \in Given /\ q.update \in Taken
      /\ t \notin disturbed => q.update = Latest
  <2>1. q.update \in Given /\ q.update \in Taken
    BY <1>1, Says DEF Informed
  <2>2. t \notin disturbed => q.update = Latest
    BY <1>1, LooksAtLatest
  <2> QED
    BY <2>1, <2>2
<1>4. CASE applied[q.update] # None
  <2>1. Stop(t, "error")
    BY <1>4 DEF ReadCompletion, Stop
  <2> QED
    BY <1>1, <2>1, StopHeir, Resting DEF StopReasons
<1>5. CASE applied[q.update] = None
  <2>1. Become(t, Classified(q, "needs_completion", q.essayFound))
    BY <1>5 DEF ReadCompletion
  <2>2. t \notin disturbed => Now = "needs_completion"
    BY <1>3, NowMeans DEF Taken
  <2> QED
    BY <1>1, <1>2, <1>3, <2>1, <2>2, ObservedHeir, Resting DEF Observing, Kinds
<1> QED
  BY <1>4, <1>5

\* A turn that was alone and has run no tool that changes anything first observed what it
\* would observe now.
LEMMA SelectsAsFirst ==
    ASSUME NEW t, Account(t), t \notin disturbed, turn[t].step = "select"
    PROVE  /\ turn[t].kind = Now
           /\ ~Has(turn[t].trace, Changing) => turn[t].first = Now
<1>1. turn[t].trace # << >>
  BY Says DEF Recorded, Observing
<1>2. Remembers(turn[t], Now) /\ Entitled(turn[t], Latest, Now)
  BY Says
<1> QED
  BY <1>1, <1>2 DEF Remembers, Entitled

LEMMA OutOfActionsHeir ==
    ASSUME TurnsOK, TurnsOK', NEW t \in Turns, Account(t), OutOfActions(t)
    PROVE  Heir(t)
<1>1. turn[t].step = "select" /\ Stop(t, "max_actions")
  BY DEF OutOfActions, At
<1>2. turn[t].trace # << >>
  BY <1>1, Says DEF Recorded, Observing
<1> QED
  BY <1>1, <1>2, StopHeir

LEMMA SelectReplayHeir ==
    ASSUME RowsOK, TurnsOK, TurnsOK', Rooted, NEW t \in Turns, Account(t), SelectReplay(t),
           UNCHANGED <<updates, practice, applied>>
    PROVE  Heir(t)
<1> DEFINE q == turn[t]
           row == practice[q.target]
           o == "submission_reused"
           x == Longer(q, o)
           reused == [x EXCEPT !.submits = FALSE]
<1>1. q.step = "select" /\ q.submits
  BY DEF SelectReplay, Selecting, At
<1>2. q \in Turn /\ q.trace # << >>
  BY <1>1, BusyTurn, Says DEF Recorded, Observing
<1>3. q.target \in Numbers
  <2>1. q.target \in Given
    BY <1>1, Says DEF Informed
  <2> QED
    BY <2>1, Numbering
<1>4. CASE row.state # "submitted"
  <2>1. Stop(t, "stale")
    BY <1>4 DEF SelectReplay, Stop
  <2> QED
    BY <1>1, <1>2, <2>1, StopHeir
<1>5. CASE row.state = "submitted" /\ row.essay # q.essay
  <2>1. Become(t, Refused(q, "submission_conflict"))
    BY <1>5 DEF SelectReplay
  <2>2. "submission_conflict" \in Refusals
    BY DEF Refusals, StopAfter
  <2> QED
    BY <1>1, <2>1, <2>2, RefusalHeir DEF Observing
<1>6. o \in Outcomes
  BY Tooling
<1>7. /\ x \in Turn /\ x.first = q.first /\ x.trace = Append(q.trace, o)
      /\ x.providers = q.providers /\ x.target = q.target
  BY <1>2, <1>6, LongerFields
<1>8. reused = [q EXCEPT !.trace = Append(@, "submission_reused"), !.submits = FALSE]
  BY DEF Longer
<1> HIDE DEF x
<1>9. /\ reused \in Turn /\ reused.submits = FALSE
      /\ reused.first = q.first /\ reused.trace = Append(q.trace, o)
      /\ reused.providers = q.providers
  BY <1>7, SentFields
<1> HIDE DEF reused
<1>10. ASSUME NEW r, Become(t, r), r.step \in {"latest", "complete", "done"},
              r.first = q.first, r.trace = Append(q.trace, o), r.providers = q.providers,
              r.submits = FALSE, r.step = "complete" => r.update \in Taken
       PROVE  Heir(t)
  <2>1. turn'[t] = r /\ r \in Turn
    BY <1>10, Becomes
  <2>2. Accounted(q, Given, Taken, Latest, Now, t \notin disturbed)
    BY DEF Account
  <2>3. Accounted(r, Given, Taken, Latest, Now, t \notin disturbed)
    BY <1>1, <1>2, <1>10, <2>1, <2>2, ReusedAccounted
  <2> QED
    BY <2>1, <2>3, Resting DEF Heir
<1>11. CASE row.state = "submitted" /\ row.essay = q.essay /\ applied[q.target] = None
  <2> DEFINE r == [reused EXCEPT !.step = "complete", !.update = q.target]
  <2>1. Become(t, r)
    BY <1>8, <1>11 DEF SelectReplay
  <2>2. /\ r.step = "complete" /\ r.first = reused.first /\ r.trace = reused.trace
        /\ r.providers = reused.providers /\ r.update = q.target
    BY <1>9 DEF Turn
  <2>3. r.submits = FALSE
    BY <1>9 DEF Turn
  <2>4. q.target \in Taken
    BY <1>3, <1>11 DEF Taken
  <2> HIDE DEF r
  <2> QED
    BY <1>9, <1>10, <2>1, <2>2, <2>3, <2>4
<1>12. CASE row.state = "submitted" /\ row.essay = q.essay /\ applied[q.target] # None
  <2> DEFINE r == Reobserve(reused)
  <2>1. Become(t, r)
    BY <1>8, <1>12 DEF SelectReplay
  <2>2. /\ r.first = reused.first /\ r.trace = reused.trace /\ r.providers = reused.providers
        /\ r.step \in {"latest", "done"}
    BY <1>9, ReobserveFields
  <2>3. r.submits = FALSE
    BY <1>9, ReobserveFields
  <2> HIDE DEF r
  <2> QED
    BY <1>9, <1>10, <2>1, <2>2, <2>3
<1> QED
  BY <1>4, <1>5, <1>11, <1>12

LEMMA SelectSubmissionHeir ==
    ASSUME RowsOK, TurnsOK, TurnsOK', Rooted, NEW t \in Turns, Account(t), SelectSubmission(t),
           UNCHANGED <<updates, practice, applied>>
    PROVE  Heir(t)
<1> DEFINE q == turn[t]
<1>1. q.step = "select" /\ q.submits /\ HasPractice(q.kind) /\ q.update = q.target
  BY DEF SelectSubmission, Selecting, At, IsCurrent
<1>2. q \in Turn
  BY <1>1, BusyTurn
<1>3. CASE q.essayFound \notin {None, q.essay}
  <2>1. Become(t, Refused(q, "submission_conflict"))
    BY <1>3 DEF SelectSubmission
  <2>2. "submission_conflict" \in Refusals
    BY DEF Refusals, StopAfter
  <2> QED
    BY <1>1, <2>1, <2>2, RefusalHeir DEF Observing
<1>4. CASE q.essayFound \in {None, q.essay}
  <2> DEFINE r == [q EXCEPT !.step = "claim"]
  <2>1. Become(t, r)
    BY <1>4 DEF SelectSubmission, GoTo
  <2>2. /\ r.step = "claim" /\ r.first = q.first /\ r.trace = q.trace
        /\ r.update = q.update /\ r.target = q.target /\ r.providers = q.providers
    BY <1>2, GoFields
  <2>3. r.submits = q.submits
    BY <1>2, GoFields
  <2> HIDE DEF r
  <2>4. Informed(r, Given, Taken)
    <3>1. r.target \in Given
      BY <1>1, <2>2, Says DEF Informed
    <3>2. r.step \notin {"practice", "completion", "select", "complete"} \cup Generating
      BY <2>2 DEF Generating
    <3> QED
      BY <3>1, <3>2, Zenon DEF Informed
  <2>5. ASSUME t \notin disturbed PROVE Entitled(r, Latest, Now)
    <3>1. q.update = Latest
      BY <1>1, <2>5, LooksAtLatest
    <3>2. ~Has(q.trace, Changing)
      BY <1>1, Says, NoToolYet
    <3>3. q.first = q.kind
      BY <1>1, <2>5, <3>2, SelectsAsFirst
    <3>4. q.first \in PracticeContext \cup {"await_submission"}
      BY <1>1, <3>3 DEF HasPractice, PracticeContext
    <3> QED
      BY <1>1, <2>2, <3>1, <3>4 DEF Entitled, Generating, Submitting
  <2> QED
    BY <1>1, <2>1, <2>2, <2>3, <2>4, <2>5, WentHeir DEF Observing
<1> QED
  BY <1>3, <1>4

LEMMA SelectContinueHeir ==
    ASSUME RowsOK, TurnsOK, TurnsOK', Rooted, NEW t \in Turns, Account(t), SelectContinue(t),
           UNCHANGED <<updates, practice, applied>>
    PROVE  Heir(t)
<1> DEFINE q == turn[t]
<1>1. q.step = "select" /\ ~q.submits
  BY DEF SelectContinue, Selecting, At
<1>2. q \in Turn /\ q.trace \in Seq(Outcomes) /\ q.trace # << >>
  BY <1>1, BusyTurn, Says DEF Recorded, Observing, Turn
<1>3. ASSUME NEW reason, Stop(t, reason) PROVE Heir(t)
  BY <1>1, <1>2, <1>3, StopHeir
\* Only the steps of a finished cycle separate the first observation from this one.
<1>4. ASSUME t \notin disturbed
      PROVE  /\ q.update = Latest /\ q.kind = Now
             /\ \/ q.first = q.kind
                \/ Has(q.trace, By("generate")) /\ Now = "needs_practice_submission"
                \/ Has(q.trace, By("complete"))
                \/ Has(q.trace, Stored) /\ Now = "needs_completion"
             /\ Has(q.trace, By("generate")) => Now = "needs_practice_submission"
  <2>1. Remembers(q, Now)
    BY <1>1, <1>4, Says
  <2>2. q.update = Latest /\ q.kind = Now /\ (~Has(q.trace, Changing) => q.first = Now)
    BY <1>1, <1>4, LooksAtLatest, SelectsAsFirst
  <2>3. Has(q.trace, Changing) => \/ Has(q.trace, By("generate")) \/ Has(q.trace, By("complete"))
                                  \/ Has(q.trace, {"submission_submitted"})
    BY DEF Has, Numbered, Changing
  <2>4. Has(q.trace, {"submission_submitted"}) => Has(q.trace, Stored)
    BY DEF Has, Numbered, Stored
  <2> QED
    BY <2>1, <2>2, <2>3, <2>4 DEF Remembers
<1>5. ASSUME NEW s \in {"fence", "complete"}, GoTo(t, s),
             s = "fence" => q.update \in Given, s = "complete" => q.update \in Taken,
             t \notin disturbed => Entitled([q EXCEPT !.step = s], Latest, Now)
      PROVE  Heir(t)
  <2> DEFINE r == [q EXCEPT !.step = s]
  <2>1. Become(t, r)
    BY <1>5 DEF GoTo
  <2>2. /\ r.step = s /\ r.first = q.first /\ r.trace = q.trace
        /\ r.update = q.update /\ r.target = q.target /\ r.providers = q.providers
    BY <1>2, GoFields
  <2>3. r.submits = q.submits
    BY <1>2, GoFields
  <2>4. t \notin disturbed => Entitled(r, Latest, Now)
    BY <1>5
  <2> HIDE DEF r
  <2>5. Informed(r, Given, Taken)
    <3>1. ~r.submits
      BY <1>1, <2>3
    <3>2. /\ r.step # "select" /\ r.step \notin {"practice", "completion"}
          /\ r.step \in Generating => r.update \in Given
          /\ r.step = "complete" => r.update \in Taken
      BY <1>5, <2>2 DEF Generating
    <3> QED
      BY <3>1, <3>2, Zenon DEF Informed
  <2> QED
    BY <1>1, <1>5, <2>1, <2>2, <2>3, <2>4, <2>5, WentHeir DEF Observing
<1>6. CASE q.kind = "needs_generation"
  <2>1. IF MayGenerate(q) THEN GoTo(t, "fence") ELSE Stop(t, "max_actions")
    BY <1>6 DEF SelectContinue
  <2>2. q.update \in Given
    BY <1>1, <1>6, Says DEF Informed, Asked
  <2>3. ASSUME MayGenerate(q), t \notin disturbed
        PROVE  Entitled([q EXCEPT !.step = "fence"], Latest, Now)
    <3> DEFINE r == [q EXCEPT !.step = "fence"]
    <3>1. r.step = "fence" /\ r.update = q.update /\ r.first = q.first /\ r.trace = q.trace
      BY <1>2, GoFields
    <3>2. ~Has(q.trace, By("generate"))
      BY <1>2, <2>3, NotYet DEF MayGenerate, MaxGenerations
    <3> HIDE DEF r
    <3>3. Entitled(r, Latest, Now)
      BY <1>4, <1>6, <2>3, <3>1, <3>2 DEF Entitled, Generating, Submitting
    <3> QED
      BY <3>3 DEF r
  <2> QED
    BY <1>3, <1>5, <2>1, <2>2, <2>3
<1>7. CASE q.kind = "needs_completion"
  <2>1. IF MayComplete(q) THEN GoTo(t, "complete") ELSE Stop(t, "max_actions")
    BY <1>7 DEF SelectContinue
  <2>2. q.update \in Taken
    BY <1>1, <1>7, Says DEF Informed
  <2>3. ASSUME MayComplete(q), t \notin disturbed
        PROVE  Entitled([q EXCEPT !.step = "complete"], Latest, Now)
    <3> DEFINE r == [q EXCEPT !.step = "complete"]
    <3>1. r.step = "complete" /\ r.update = q.update /\ r.first = q.first /\ r.trace = q.trace
      BY <1>2, GoFields
    <3>2. ~Has(q.trace, By("complete"))
      BY <1>2, <2>3, NotYet DEF MayComplete, MaxCompletions
    <3> HIDE DEF r
    <3>3. Entitled(r, Latest, Now)
      BY <1>4, <1>7, <2>3, <3>1, <3>2 DEF Entitled, Generating, Submitting
    <3> QED
      BY <3>3 DEF r
  <2> QED
    BY <1>3, <1>5, <2>1, <2>2, <2>3
<1>8. CASE q.kind \notin {"needs_generation", "needs_completion"}
  <2>1. CASE q.kind = "needs_practice_submission" /\ q.prepared
    <3>1. Stop(t, "practice_ready")
      BY <2>1 DEF SelectContinue
    <3> QED
      BY <1>3, <3>1
  <2>2. CASE ~(q.kind = "needs_practice_submission" /\ q.prepared)
    <3>1. Stop(t, q.kind)
      BY <1>8, <2>2 DEF SelectContinue
    <3> QED
      BY <1>3, <3>1
  <2> QED
    BY <2>1, <2>2
<1> QED
  BY <1>6, <1>7, <1>8

LEMMA SelectHeir ==
    ASSUME RowsOK, TurnsOK, TurnsOK', Rooted, NEW t \in Turns, Account(t), Select(t)
    PROVE  Rooted' /\ Heir(t)
<1>1. UNCHANGED <<updates, practice, applied>>
  BY DEF Select
<1> QED
  BY <1>1, OutOfActionsHeir, SelectReplayHeir, SelectSubmissionHeir, SelectContinueHeir, Resting
  DEF Select

\* Generation ends in one of its outcomes, which an undisturbed turn owes to its own insert.
LEMMA GenerationHeir ==
    ASSUME TurnsOK, TurnsOK', NEW t \in Turns, turn[t].step \in Generating, Account(t),
           NEW x \in Turn, NEW o \in By("generate"), Become(t, GenerationRan(x, o)),
           x.first = turn[t].first, x.trace = turn[t].trace,
           turn[t].providers + (IF o \in ProviderBacked THEN 1 ELSE 0) <= x.providers,
           x.submits = turn[t].submits,
           t \notin disturbed => o # Stale /\ Now' = "needs_practice_submission"
    PROVE  Heir(t)
<1> DEFINE q == turn[t]
           y == [x EXCEPT !.prepared = o \in Prepared]
           r == Ran(y, o)
<1>1. q \in Turn /\ ~q.submits
  BY GeneratingTurn
<1>2. /\ y \in Turn /\ y.first = x.first /\ y.trace = x.trace /\ y.providers = x.providers
      /\ y.submits = x.submits
  <2>1. (o \in Prepared) \in BOOLEAN
    OBVIOUS
  <2> QED
    BY <2>1, PreparedFields
<1>3. o \in Outcomes
  BY Tooling
<1>4. Become(t, r)
  BY DEF GenerationRan
<1> HIDE DEF y
<1>5. /\ r.first = y.first /\ r.trace = Append(y.trace, o) /\ r.providers = y.providers
      /\ r.step \in {"latest", "done"}
  BY <1>2, <1>3, RanFields
<1>6. r.submits = FALSE
  <2>1. r.submits = y.submits \/ r.submits = FALSE
    BY <1>2, <1>3, RanFields
  <2>2. y.submits = FALSE
    BY <1>1, <1>2 DEF Turn
  <2> QED
    BY <2>1, <2>2
<1> HIDE DEF r
<1>7. turn'[t] = r /\ r \in Turn
  BY <1>4, <1>5, Becomes
<1>8. Accounted(q, Given, Taken, Latest, Now, t \notin disturbed)
  BY DEF Account
<1>9. q.providers + (IF o \in ProviderBacked THEN 1 ELSE 0) <= r.providers
  BY <1>2, <1>5
<1>10. /\ r.first = q.first /\ r.trace = Append(q.trace, o)
  BY <1>2, <1>5
<1>11. Accounted(r, Given', Taken', Latest', Now', t \notin disturbed)
  BY <1>1, <1>5, <1>6, <1>7, <1>8, <1>9, <1>10, GeneratedAccounted
<1> QED
  BY <1>7, <1>11 DEF Heir

\* An undisturbed turn that is generating would find the latest update without a practice.
LEMMA GeneratesForLatest ==
    ASSUME RowsOK, NEW t, Account(t), t \notin disturbed, turn[t].step \in Generating
    PROVE  /\ turn[t].update = Latest /\ Latest \in Given /\ practice[Latest].state = "none"
<1>1. turn[t].update = Latest
  BY LooksAtLatest
<1>2. turn[t].step # "done"
  BY DEF Generating
<1>3. Now = "needs_generation"
  BY <1>2, Says DEF Entitled
<1>4. Latest \in Given /\ practice[Latest].state = "none"
  BY <1>3, NowMeans DEF Asked
<1> QED
  BY <1>1, <1>4

LEMMA GoesOnGenerating ==
    ASSUME TurnsOK, TurnsOK', NEW t \in Turns, turn[t].step \in Generating, Account(t), Rooted,
           UNCHANGED <<updates, practice, applied>>, NEW s \in Generating, GoTo(t, s)
    PROVE  Heir(t)
<1> DEFINE q == turn[t]
           r == [q EXCEPT !.step = s]
<1>1. q \in Turn /\ ~q.submits
  BY GeneratingTurn
<1>2. /\ r.step = s /\ r.first = q.first /\ r.trace = q.trace
      /\ r.update = q.update /\ r.target = q.target /\ r.providers = q.providers
  BY <1>1, GoFields
<1>3. r.submits = q.submits
  BY <1>1, GoFields
<1>4. Become(t, r)
  BY DEF GoTo
<1> HIDE DEF r
<1>5. Informed(r, Given, Taken)
  <2>1. ~r.submits
    BY <1>1, <1>3
  <2>2. r.update \in Given
    BY <1>2, Says DEF Informed
  <2>3. r.step \notin {"completion", "complete", "select"}
    BY <1>2 DEF Generating
  <2> QED
    BY <2>1, <2>2, <2>3, Zenon DEF Informed
<1>6. ASSUME t \notin disturbed PROVE Entitled(r, Latest, Now)
  <2>1. turn[t].step # "done"
    BY DEF Generating
  <2>2. Entitled(q, Latest, Now)
    BY <1>6, <2>1, Says
  <2> QED
    BY <1>2, <2>2 DEF Entitled, Generating, Submitting
<1>7. /\ q.step \notin {"idle", "done", "evaluating"} /\ q.step \notin Observing
      /\ r.step \notin {"idle", "done"}
  BY <1>2 DEF Generating, Observing
<1> QED
  BY <1>2, <1>3, <1>4, <1>5, <1>6, <1>7, WentHeir

LEMMA CheckFenceHeir ==
    ASSUME RowsOK, TurnsOK, TurnsOK', Rooted, NEW t \in Turns, Account(t), CheckFence(t)
    PROVE  Rooted' /\ Heir(t)
<1>1. turn[t].step \in Generating /\ UNCHANGED <<updates, practice, applied>>
  BY DEF CheckFence, At, Generating
<1>2. CASE IsLatest(t)
  <2>1. GoTo(t, "existing")
    BY <1>2 DEF CheckFence
  <2> QED
    BY <1>1, <2>1, GoesOnGenerating, Resting DEF Generating
<1>3. CASE ~IsLatest(t)
  <2> DEFINE o == "generation_stale_discarded"
  <2>1. Become(t, GenerationRan(turn[t], o))
    BY <1>3 DEF CheckFence
  <2>2. t \in disturbed
    BY <1>1, <1>3, GeneratesForLatest DEF IsLatest
  <2>3. o \in By("generate") /\ o \notin ProviderBacked
    BY Tooling DEF Stale, ProviderBacked
  <2>4. turn[t] \in Turn /\ turn[t].providers \in Nat
    BY <1>1, GeneratingTurn DEF Turn
  <2>5. turn[t].providers + (IF o \in ProviderBacked THEN 1 ELSE 0) <= turn[t].providers
    BY <2>3, <2>4
  <2> HIDE DEF o
  <2> QED
    BY <1>1, <2>1, <2>2, <2>3, <2>4, <2>5, GenerationHeir, Resting
<1> QED
  BY <1>2, <1>3

LEMMA ResolveExistingHeir ==
    ASSUME RowsOK, TurnsOK, TurnsOK', Rooted, NEW t \in Turns, Account(t), ResolveExisting(t)
    PROVE  Rooted' /\ Heir(t)
<1>1. turn[t].step \in Generating /\ UNCHANGED <<updates, practice, applied>>
  BY DEF ResolveExisting, At, Generating
<1>2. CASE practice[turn[t].update].state = "none"
  <2>1. GoTo(t, "generating")
    BY <1>2 DEF ResolveExisting
  <2> QED
    BY <1>1, <2>1, GoesOnGenerating, Resting DEF Generating
<1>3. CASE practice[turn[t].update].state # "none"
  <2> DEFINE o == "practice_resolved"
  <2>1. Become(t, GenerationRan(turn[t], o))
    BY <1>3 DEF ResolveExisting
  <2>2. t \in disturbed
    BY <1>1, <1>3, GeneratesForLatest
  <2>3. o \in By("generate") /\ o \notin ProviderBacked
    BY Tooling DEF ProviderBacked
  <2>4. turn[t] \in Turn /\ turn[t].providers \in Nat
    BY <1>1, GeneratingTurn DEF Turn
  <2>5. turn[t].providers + (IF o \in ProviderBacked THEN 1 ELSE 0) <= turn[t].providers
    BY <2>3, <2>4
  <2> HIDE DEF o
  <2> QED
    BY <1>1, <2>1, <2>2, <2>3, <2>4, <2>5, GenerationHeir, Resting
<1> QED
  BY <1>2, <1>3

\* Rows stay rooted when one practice becomes another row of its own update.
LEMMA RootedRow ==
    ASSUME RowsOK, Rooted, NEW n \in Given, NEW row \in Row,
           practice' = [practice EXCEPT ![n] = row], UNCHANGED <<updates, applied>>,
           practice[n].state # "submitted" \/ row.state = "submitted"
    PROVE  /\ Rooted' /\ Given' = Given /\ Latest' = Latest
           /\ practice'[n] = row
<1>1. Given' = Given /\ Latest' = Latest
  BY DEF Given, Latest
<1>2. n \in Numbers
  BY Numbering
<1>3. practice'[n] = row /\ \A m \in Numbers : m # n => practice'[m] = practice[m]
  BY <1>2 DEF RowsOK
<1>4. ASSUME NEW m \in Taken PROVE m \in Taken'
  BY <1>3 DEF Taken
<1>5. ASSUME NEW m \in Numbers PROVE practice'[m].state # "none" => m \in Given'
  BY <1>1, <1>3 DEF Rooted
<1>6. ASSUME NEW m \in Numbers PROVE applied'[m] # None => m \in Taken'
  BY <1>4 DEF Rooted
<1> QED
  BY <1>1, <1>3, <1>5, <1>6 DEF Rooted

LEMMA NowAfter ==
    ASSUME RowsOK, Given' = Given, Latest' = Latest, Latest \in Given
    PROVE  Now' = KindOf[practice'[Latest].state]
<1>1. Latest # 0
  BY Numbering
<1> QED
  BY <1>1 DEF Now

LEMMA PersistHeir ==
    ASSUME RowsOK, TurnsOK, TurnsOK', Rooted, NEW t \in Turns, Account(t), PersistGenerated(t)
    PROVE  Rooted' /\ Heir(t)
<1> DEFINE q == turn[t]
           x == [q EXCEPT !.providers = @ + 1]
           o == CASE ~IsLatest(t) -> "generation_stale_discarded"
                  [] practice' = practice -> "practice_resolved"
                  [] OTHER -> "practice_generated"
<1>1. q.step \in Generating /\ UNCHANGED <<updates, applied>>
  BY DEF PersistGenerated, PersistIf, At, Generating
<1>2. q \in Turn /\ q.providers \in Nat
  BY <1>1, GeneratingTurn DEF Turn
<1>3. /\ x \in Turn /\ x.providers = q.providers + 1
      /\ x.first = q.first /\ x.trace = q.trace /\ x.update = q.update
  BY <1>2, CalledFields
<1>4. x.submits = q.submits
  BY <1>2, CalledFields
<1>5. /\ Become(t, GenerationRan(x, o))
      /\ practice' = IF IsLatest(t) /\ practice[x.update].state = "none"
                     THEN [practice EXCEPT ![x.update] = Generated] ELSE practice
  BY DEF PersistGenerated, PersistIf
<1>6. q.update \in Given /\ q.update \in Numbers
  BY <1>1, Says, Numbering DEF Informed
<1> HIDE DEF x
<1>7. Generated.state = "generated"
  BY DEF Generated, NoPractice
<1>8. CASE practice' = practice
  <2>1. t \in disturbed
    <3> SUFFICES ASSUME t \notin disturbed PROVE FALSE
      OBVIOUS
    <3>1. q.update = Latest /\ practice[q.update].state = "none"
      BY <1>1, GeneratesForLatest
    <3>2. practice' = [practice EXCEPT ![q.update] = Generated]
      BY <1>3, <1>5, <3>1 DEF IsLatest
    <3>3. practice'[q.update] = Generated
      BY <1>6, <3>2 DEF RowsOK
    <3> QED
      BY <1>7, <1>8, <3>1, <3>3
  <2>2. o \in {"generation_stale_discarded", "practice_resolved"}
    BY <1>8
  <2> HIDE DEF o
  <2>3. o \in By("generate") /\ o \notin ProviderBacked
    BY <2>2, Tooling DEF Stale, ProviderBacked
  <2>4. q.providers + (IF o \in ProviderBacked THEN 1 ELSE 0) <= x.providers
    BY <1>2, <1>3, <2>3
  <2> QED
    BY <1>1, <1>3, <1>4, <1>5, <1>8, <2>1, <2>3, <2>4, GenerationHeir, Resting
<1>9. CASE practice' # practice
  <2>1. /\ IsLatest(t) /\ practice[q.update].state = "none"
        /\ practice' = [practice EXCEPT ![q.update] = Generated]
    BY <1>3, <1>5, <1>9
  <2>2. o = "practice_generated"
    BY <1>9, <2>1
  <2> HIDE DEF o
  <2>3. o \in By("generate") /\ o # Stale
    BY <2>2, Tooling DEF Stale
  <2>4. q.providers + (IF o \in ProviderBacked THEN 1 ELSE 0) <= x.providers
    BY <1>2, <1>3
  <2>5. /\ Rooted' /\ Given' = Given /\ Latest' = Latest
        /\ practice'[q.update] = Generated
    BY <1>1, <1>6, <2>1, RootedRow, GeneratedType
  <2>6. t \notin disturbed => Now' = "needs_practice_submission"
    BY <1>1, <1>7, <2>5, GeneratesForLatest, NowAfter DEF KindOf
  <2> QED
    BY <1>1, <1>3, <1>4, <1>5, <2>3, <2>4, <2>5, <2>6, GenerationHeir
<1> QED
  BY <1>8, <1>9

\* A turn that is submitting sends its essay for a practice that exists.
LEMMA SubmitsForTarget ==
    ASSUME RowsOK, TurnsOK, NEW t \in Turns, turn[t].step \in Submitting, Account(t)
    PROVE  /\ turn[t] \in Turn /\ turn[t].submits /\ turn[t].trace # << >>
           /\ turn[t].target \in Given /\ turn[t].target \in Numbers
           /\ t \notin disturbed =>
                /\ turn[t].target = Latest
                /\ turn[t].first \in PracticeContext \cup {"await_submission"}
<1> DEFINE q == turn[t]
<1>1. q \in Turn /\ q.submits /\ q.step # "done"
  BY SubmittingTurn DEF Submitting
<1>2. q.target \in Given /\ q.target \in Numbers
  <2>1. q.target \in Given
    BY <1>1, Says DEF Informed
  <2> QED
    BY <2>1, Numbering
<1>3. q.trace # << >>
  BY <1>1, Says DEF Recorded, Observing, Submitting
<1>4. ASSUME t \notin disturbed
      PROVE  q.target = Latest /\ q.first \in PracticeContext \cup {"await_submission"}
  <2>1. Entitled(q, Latest, Now)
    BY <1>1, <1>4, Says
  <2> QED
    BY <2>1 DEF Entitled
<1> QED
  BY <1>1, <1>2, <1>3, <1>4

LEMMA ClaimHeir ==
    ASSUME RowsOK, TurnsOK, TurnsOK', Rooted, NEW t \in Turns, Account(t), Claim(t)
    PROVE  Rooted' /\ Heir(t)
<1> DEFINE q == turn[t]
           row == practice[q.target]
<1>1. q.step = "claim" /\ q.step \in Submitting /\ UNCHANGED <<updates, applied>>
  BY DEF Claim, At, Submitting
<1>2. /\ q \in Turn /\ q.submits /\ q.trace # << >> /\ q.target \in Given /\ q.target \in Numbers
      /\ t \notin disturbed => /\ q.target = Latest
                               /\ q.first \in PracticeContext \cup {"await_submission"}
  BY <1>1, SubmitsForTarget
<1>3. CASE Stop(t, "stale") /\ UNCHANGED practice
  BY <1>1, <1>2, <1>3, StopHeir, Resting
<1>4. ASSUME NEW o \in {"submission_conflict", "submission_in_progress"},
             Become(t, Refused(q, o)), UNCHANGED practice
      PROVE  Rooted' /\ Heir(t)
  <2>1. o \in Refusals
    BY DEF Refusals, StopAfter
  <2> QED
    BY <1>1, <1>2, <1>4, <2>1, RefusalHeir, Resting DEF Observing
<1>5. CASE /\ Become(t, Ran([q EXCEPT !.submits = FALSE], "submission_reused"))
           /\ UNCHANGED practice
  <2> DEFINE o == "submission_reused"
             x == [q EXCEPT !.submits = FALSE]
             r == Ran(x, o)
  <2>1. o \in Outcomes
    BY Tooling
  <2>2. /\ x \in Turn /\ x.first = q.first /\ x.trace = q.trace /\ x.providers = q.providers
        /\ x.submits = FALSE
    BY <1>2, SentFields
  <2>3. Become(t, r)
    BY <1>5
  <2> HIDE DEF x
  <2>4. /\ r.first = x.first /\ r.trace = Append(x.trace, o) /\ r.providers = x.providers
        /\ r.step \in {"latest", "done"}
    BY <2>1, <2>2, RanFields
  <2>5. r.submits = FALSE
    <3>1. r.submits = x.submits \/ r.submits = FALSE
      BY <2>1, <2>2, RanFields
    <3> QED
      BY <2>2, <3>1
  <2> HIDE DEF r
  <2>6. turn'[t] = r /\ r \in Turn
    BY <2>3, <2>4, Becomes
  <2>7. Accounted(q, Given, Taken, Latest, Now, t \notin disturbed)
    BY DEF Account
  <2>8. Accounted(r, Given, Taken, Latest, Now, t \notin disturbed)
    BY <1>1, <1>2, <2>2, <2>4, <2>5, <2>6, <2>7, ReusedAccounted
  <2> QED
    BY <1>1, <1>5, <2>6, <2>8, Resting DEF Heir
<1>6. CASE /\ row.state = "generated" \/ row = Claimed(q.essay, row.holder)
           /\ practice' = [practice EXCEPT ![q.target] = Claimed(q.essay, t)]
           /\ GoTo(t, "evaluating")
  <2> DEFINE r == [q EXCEPT !.step = "evaluating"]
  <2>1. /\ r.step = "evaluating" /\ r.first = q.first /\ r.trace = q.trace
        /\ r.update = q.update /\ r.target = q.target /\ r.providers = q.providers
    BY <1>2, GoFields
  <2>2. r.submits = q.submits
    BY <1>2, GoFields
  <2>3. Become(t, r)
    BY <1>6 DEF GoTo
  <2> HIDE DEF r
  <2>4. turn'[t] = r /\ r \in Turn
    BY <2>1, <2>3, Becomes
  <2>5. Claimed(q.essay, t) \in Row
    BY <1>2, ClaimedType DEF Turn
  <2>6. row.state # "submitted"
    <3>1. \A h : Claimed(q.essay, h).state = "submission_in_progress"
      BY DEF Claimed
    <3> QED
      BY <1>6, <3>1
  <2>7. Rooted' /\ Given' = Given /\ Latest' = Latest
    BY <1>1, <1>2, <1>6, <2>5, <2>6, RootedRow
  <2>8. Recorded(q) /\ (t \notin disturbed => Fair(q) /\ Entitled(q, Latest, Now))
    BY <1>1, Says
  <2>9. Recorded(r)
    <3>1. q.providers <= r.providers
      BY <1>2, <2>1 DEF Turn
    <3> QED
      BY <1>1, <1>2, <2>1, <2>2, <2>4, <2>8, <3>1, RecordedSame
  <2>10. Informed(r, Given', Taken')
    <3>1. r.target \in Given'
      BY <1>2, <2>1, <2>7
    <3>2. r.step \notin {"practice", "completion", "select", "complete"} \cup Generating
      BY <2>1 DEF Generating
    <3> QED
      BY <3>1, <3>2, Zenon DEF Informed
  <2>11. ASSUME t \notin disturbed PROVE Undisturbed(r, Latest', Now')
    <3>1. Fair(r)
      BY <1>1, <2>1, <2>8, <2>11, FairSame
    <3>2. Remembers(r, Now')
      BY <1>2, <2>1, <2>8, NoToolYet DEF Remembers
    <3>3. Entitled(r, Latest', Now')
      <4>1. r.update = Latest /\ r.target = Latest
        BY <1>1, <1>2, <2>1, <2>8, <2>11 DEF Entitled
      <4> QED
        BY <1>2, <2>1, <2>7, <2>11, <4>1 DEF Entitled, Generating, Submitting
    <3> QED
      BY <3>1, <3>2, <3>3 DEF Undisturbed
  <2> QED
    BY <2>4, <2>7, <2>9, <2>10, <2>11 DEF Heir, Accounted
<1> QED
  BY <1>3, <1>4, <1>5, <1>6 DEF Claim

LEMMA FinishEvaluationHeir ==
    ASSUME RowsOK, TurnsOK, TurnsOK', Rooted, NEW t \in Turns, Account(t), FinishEvaluation(t)
    PROVE  Rooted' /\ Heir(t)
<1> DEFINE q == turn[t]
           n == q.target
<1>1. q.step = "evaluating" /\ q.step \in Submitting /\ UNCHANGED <<updates, applied>>
  BY DEF FinishEvaluation, At, Submitting
<1>2. /\ q \in Turn /\ q.submits /\ q.trace # << >> /\ n \in Given /\ n \in Numbers
      /\ t \notin disturbed => n = Latest
  BY <1>1, SubmitsForTarget
<1>3. CASE Holds(t, n)
  <2> DEFINE o == "submission_submitted"
             x == [q EXCEPT !.providers = @ + 1]
             y == [x EXCEPT !.submits = FALSE]
             r == Ran(y, o)
             row == [practice[n] EXCEPT !.state = "submitted", !.holder = None]
  <2>1. o \in Outcomes
    BY Tooling
  <2>2. y = [q EXCEPT !.submits = FALSE, !.providers = @ + 1]
    BY <1>2 DEF Turn
  <2>3. Become(t, r) /\ Submitted(n)
    BY <1>3, <2>2 DEF FinishEvaluation
  <2>4. /\ x \in Turn /\ x.first = q.first /\ x.trace = q.trace
        /\ x.providers = q.providers + 1
    BY <1>2, CalledFields
  <2> HIDE DEF x
  <2>5. /\ y \in Turn /\ y.first = x.first /\ y.trace = x.trace /\ y.providers = x.providers
        /\ y.submits = FALSE
    BY <2>4, SentFields
  <2> HIDE DEF y
  <2>6. /\ r.first = y.first /\ r.trace = Append(y.trace, o) /\ r.providers = y.providers
        /\ r.step \in {"latest", "done"}
    BY <2>1, <2>5, RanFields
  <2>7. r.submits = FALSE
    <3>1. r.submits = y.submits \/ r.submits = FALSE
      BY <2>1, <2>5, RanFields
    <3> QED
      BY <2>5, <3>1
  <2> HIDE DEF r
  <2>8. turn'[t] = r /\ r \in Turn
    BY <2>3, <2>6, Becomes
  <2>9. row \in Row /\ row.state = "submitted"
    <3>1. practice[n] \in Row
      BY <1>2 DEF RowsOK
    <3> QED
      BY <3>1 DEF Row
  <2>10. practice' = [practice EXCEPT ![n] = row]
    BY <1>2, <2>3 DEF Submitted, RowsOK
  <2> HIDE DEF row
  <2>11. Rooted' /\ Given' = Given /\ Latest' = Latest /\ practice'[n] = row
    BY <1>1, <1>2, <2>9, <2>10, RootedRow
  <2>12. t \notin disturbed => Now' = "needs_completion"
    BY <1>2, <2>9, <2>11, NowAfter DEF KindOf
  <2>13. Accounted(q, Given, Taken, Latest, Now, t \notin disturbed)
    BY DEF Account
  <2>14. r.first = q.first /\ r.trace = Append(q.trace, o) /\ r.providers = q.providers + 1
    BY <2>4, <2>5, <2>6
  <2>15. Accounted(r, Given', Taken', Latest', Now', t \notin disturbed)
    BY <1>1, <1>2, <2>6, <2>7, <2>8, <2>12, <2>13, <2>14, SubmittedAccounted
  <2> QED
    BY <2>8, <2>11, <2>15 DEF Heir
<1>4. CASE ~Holds(t, n)
  <2>1. Stop(t, "error") /\ UNCHANGED practice
    BY <1>4 DEF FinishEvaluation
  <2> QED
    BY <1>1, <1>2, <2>1, StopHeir, Resting
<1> QED
  BY <1>3, <1>4

\* A new update asks for what it asks for, and leaves the earlier ones alone.
LEMMA GivenGrows ==
    ASSUME RowsOK, NEW d \in Decisions, Apply(d)
    PROVE  Given \subseteq Given'
<1>1. /\ updates \in Seq(Decisions) /\ updates' = Append(updates, d)
  BY DEF RowsOK, Apply
<1>2. ASSUME NEW n \in Given PROVE n \in Given'
  <2>1. n \in DOMAIN updates /\ updates[n] = "practice"
    BY DEF Given
  <2>2. n \in DOMAIN updates' /\ updates'[n] = updates[n]
    BY <1>1, <2>1
  <2> QED
    BY <2>1, <2>2 DEF Given
<1> QED
  BY <1>2

\* Rows stay rooted when updates are added and submitted practices applied.
LEMMA RootedApply ==
    ASSUME RowsOK, Rooted, Given \subseteq Given', UNCHANGED practice,
           \A n \in Numbers : applied'[n] # applied[n] => n \in Taken
    PROVE  Rooted'
<1>1. Taken' = Taken
  BY DEF Taken
<1>2. ASSUME NEW n \in Numbers PROVE practice'[n].state # "none" => n \in Given'
  BY DEF Rooted
<1>3. ASSUME NEW n \in Numbers PROVE applied'[n] # None => n \in Taken'
  BY <1>1 DEF Rooted
<1> QED
  BY <1>2, <1>3 DEF Rooted

LEMMA CompleteHeir ==
    ASSUME RowsOK, TurnsOK, TurnsOK', Rooted, NEW t \in Turns, Account(t), Complete(t)
    PROVE  Rooted' /\ Heir(t)
<1> DEFINE q == turn[t]
<1>1. q.step = "complete" /\ UNCHANGED practice
  BY DEF Complete, At
<1>2. q \in Turn /\ ~q.submits /\ q.trace # << >>
  BY <1>1, BusyTurn, Says DEF Steady, Recorded, Observing
<1>3. q.update \in Taken
  BY <1>1, Says DEF Informed
<1>4. ASSUME NEW o \in {"completion_applied", "completion_reused"}, Become(t, Ran(q, o))
      PROVE  Heir(t)
  <2> DEFINE r == Ran(q, o)
  <2>1. o \in Outcomes /\ o \in By("complete")
    BY Tooling
  <2>2. /\ r.first = q.first /\ r.trace = Append(q.trace, o) /\ r.providers = q.providers
        /\ r.step \in {"latest", "done"}
    BY <1>2, <2>1, RanFields
  <2>3. r.submits = FALSE
    <3>1. r.submits = q.submits \/ r.submits = FALSE
      BY <1>2, <2>1, RanFields
    <3>2. q.submits = FALSE
      BY <1>2 DEF Turn
    <3> QED
      BY <3>1, <3>2
  <2>4. Become(t, r)
    BY <1>4
  <2> HIDE DEF r
  <2>5. turn'[t] = r /\ r \in Turn
    BY <2>2, <2>4, Becomes
  <2>6. Accounted(q, Given, Taken, Latest, Now, t \notin disturbed)
    BY DEF Account
  <2>7. Accounted(r, Given', Taken', Latest', Now', t \notin disturbed)
    BY <1>1, <1>2, <2>1, <2>2, <2>3, <2>5, <2>6, CompletedAccounted
  <2> QED
    BY <2>5, <2>7 DEF Heir
<1>5. CASE /\ \E d \in Decisions : ApplyPractice(q.update, d)
           /\ Become(t, Ran(q, "completion_applied"))
  <2>1. PICK d \in Decisions : Apply(d) /\ applied' = [applied EXCEPT ![q.update] = "own"]
    BY <1>5 DEF ApplyPractice
  <2>2. Given \subseteq Given'
    BY <2>1, GivenGrows
  <2>3. \A n \in Numbers : applied'[n] # applied[n] => n \in Taken
    BY <1>3, <2>1 DEF RowsOK
  <2> QED
    BY <1>1, <1>4, <1>5, <2>2, <2>3, RootedApply
<1>6. CASE UNCHANGED <<updates, applied>> /\ Become(t, Ran(q, "completion_reused"))
  BY <1>1, <1>4, <1>6, Resting
<1>7. CASE UNCHANGED <<updates, applied>> /\ Stop(t, "error")
  BY <1>1, <1>2, <1>7, StopHeir, Resting
<1> QED
  BY <1>5, <1>6, <1>7 DEF Complete

LEMMA FailHeir ==
    ASSUME RowsOK, TurnsOK, TurnsOK', Rooted, NEW t \in Turns, Account(t), Fail(t)
    PROVE  Rooted' /\ Heir(t)
<1> DEFINE q == turn[t]
<1>1. /\ q.step \notin {"idle", "done"} /\ Stop(t, "error") /\ UNCHANGED <<updates, applied>>
      /\ \/ UNCHANGED practice
         \/ /\ q.step = "evaluating" /\ Holds(t, q.target)
            /\ practice' = [practice EXCEPT ![q.target] = Generated]
  BY DEF Fail, Active, At
<1>2. Heir(t)
  BY <1>1, StopHeir DEF StopReasons
<1>3. CASE UNCHANGED practice
  BY <1>1, <1>2, <1>3, Resting
<1>4. CASE /\ q.step = "evaluating" /\ Holds(t, q.target)
           /\ practice' = [practice EXCEPT ![q.target] = Generated]
  <2>1. q.target \in Given
    BY <1>4, SubmitsForTarget DEF Submitting
  <2>2. practice[q.target].state # "submitted"
    BY <1>4 DEF Holds
  <2> QED
    BY <1>1, <1>2, <1>4, <2>1, <2>2, RootedRow, GeneratedType
<1> QED
  BY <1>1, <1>3, <1>4

LEMMA RunHeir ==
    ASSUME RowsOK, TurnsOK, TurnsOK', Rooted, NEW t \in Turns, Account(t), Run(t)
    PROVE  Rooted' /\ Heir(t)
BY ReadLatestHeir, ReadPracticeHeir, ReadCompletionHeir, SelectHeir, CheckFenceHeir,
   ResolveExistingHeir, PersistHeir, ClaimHeir, FinishEvaluationHeir, CompleteHeir
DEF Run, Observe, Generate, SubmitPractice

-----------------------------------------------------------------------------
(***************************************************************************)
(* The other turns, and the granular endpoints                             *)
(***************************************************************************)
\* What a turn knows of the rows stays so as long as they go forward.
LEMMA StillInformed ==
    ASSUME NEW q, NEW given, NEW taken, Informed(q, given, taken),
           NEW given2, NEW taken2, given \subseteq given2, taken \subseteq taken2
    PROVE  Informed(q, given2, taken2)
BY DEF Informed

\* Rows go forward whatever is done.
Forward == Rooted' /\ Given \subseteq Given' /\ Taken \subseteq Taken'

LEMMA ForwardRow ==
    ASSUME RowsOK, Rooted, NEW n \in Given, NEW row \in Row,
           practice' = [practice EXCEPT ![n] = row], UNCHANGED <<updates, applied>>,
           practice[n].state # "submitted" \/ row.state = "submitted"
    PROVE  Forward
<1>1. Rooted' /\ Given' = Given
  BY RootedRow
<1>2. \A m \in Numbers : m # n => practice'[m] = practice[m]
  BY DEF RowsOK
<1>3. Taken \subseteq Taken'
  <2>1. n \in Numbers => practice'[n] = row
    BY DEF RowsOK
  <2> QED
    BY <1>2, <2>1 DEF Taken
<1> QED
  BY <1>1, <1>3 DEF Forward

LEMMA ForwardSame ==
    ASSUME Rooted, UNCHANGED <<updates, practice, applied>> PROVE Forward
BY Resting DEF Forward

LEMMA DirectForward ==
    ASSUME RowsOK, Rooted, NEW n \in Numbers, NEW e,
           \/ DirectApply \/ DirectGenerate(n) \/ DirectFinish(n) \/ DirectComplete(n)
           \/ e \in Essays /\ DirectClaim(n, e)
    PROVE  Forward
<1>1. ASSUME NEW d \in Decisions, Apply(d), UNCHANGED practice,
             \A m \in Numbers : applied'[m] # applied[m] => m \in Taken
      PROVE  Forward
  BY <1>1, GivenGrows, RootedApply DEF Forward, Taken
<1>2. practice[n].state # "none" => n \in Given
  BY DEF Rooted
<1>3. CASE DirectApply
  <2>1. PICK d \in Decisions : Apply(d)
    BY <1>3 DEF DirectApply
  <2> QED
    BY <1>1, <1>3, <2>1 DEF DirectApply
<1>4. CASE DirectGenerate(n)
  <2>1. /\ n \in Given /\ practice[n].state = "none"
        /\ practice' = [practice EXCEPT ![n] = Generated] /\ UNCHANGED <<updates, applied>>
    BY <1>4, Numbering DEF DirectGenerate, Given, Numbers
  <2> QED
    BY <2>1, ForwardRow, GeneratedType
<1>5. CASE e \in Essays /\ DirectClaim(n, e)
  <2>1. /\ practice[n].state = "generated" \/ practice[n] = Claimed(e, practice[n].holder)
        /\ practice' = [practice EXCEPT ![n] = Claimed(e, Client)]
        /\ UNCHANGED <<updates, applied>>
    BY <1>5 DEF DirectClaim
  <2>2. practice[n].state \in {"generated", "submission_in_progress"}
    <3>1. \A h : Claimed(e, h).state = "submission_in_progress"
      BY DEF Claimed
    <3> QED
      BY <2>1, <3>1
  <2>3. Claimed(e, Client) \in Row
    BY <1>5, ClaimedType
  <2> QED
    BY <1>2, <2>1, <2>2, <2>3, ForwardRow
<1>6. CASE DirectFinish(n)
  <2>1. practice[n].state = "submission_in_progress" /\ UNCHANGED <<updates, applied>>
    BY <1>6 DEF DirectFinish, Holds
  <2>2. CASE practice' = [practice EXCEPT ![n] = Generated]
    BY <1>2, <2>1, <2>2, ForwardRow, GeneratedType
  <2>3. CASE Submitted(n)
    <3> DEFINE row == [practice[n] EXCEPT !.state = "submitted", !.holder = None]
    <3>1. row \in Row
      <4>1. practice[n] \in Row
        BY DEF RowsOK
      <4> QED
        BY <4>1 DEF Row
    <3>2. practice' = [practice EXCEPT ![n] = row]
      BY <2>3 DEF Submitted, RowsOK
    <3> HIDE DEF row
    <3> QED
      BY <1>2, <2>1, <3>1, <3>2, ForwardRow
  <2> QED
    BY <1>6, <2>2, <2>3 DEF DirectFinish
<1>7. CASE DirectComplete(n)
  <2>1. n \in Taken /\ UNCHANGED practice
    BY <1>7 DEF DirectComplete, Taken
  <2>2. CASE \E d \in Decisions : ApplyPractice(n, d)
    <3>1. PICK d \in Decisions : Apply(d) /\ applied' = [applied EXCEPT ![n] = "own"]
      BY <2>2 DEF ApplyPractice
    <3>2. \A m \in Numbers : applied'[m] # applied[m] => m \in Taken
      BY <2>1, <3>1 DEF RowsOK
    <3> QED
      BY <1>1, <2>1, <3>1, <3>2
  <2>3. CASE applied' = [applied EXCEPT ![n] = "other"] /\ UNCHANGED updates
    <3>1. \A m \in Numbers : applied'[m] # applied[m] => m \in Taken
      BY <2>1, <2>3 DEF RowsOK
    <3>2. Given' = Given /\ Taken' = Taken
      BY <2>1, <2>3 DEF Given, Taken
    <3> QED
      BY <2>1, <3>1, <3>2, RootedApply DEF Forward
  <2> QED
    BY <1>7, <2>2, <2>3 DEF DirectComplete
<1> QED
  BY <1>3, <1>4, <1>5, <1>6, <1>7

\* A turn that has not moved: what others do is seen, and disturbs it while it runs.
LEMMA BystanderAccount ==
    ASSUME NEW t \in Turns, Account(t), turn'[t] = turn[t], turn[t].step # "idle", Watch,
           Given \subseteq Given', Taken \subseteq Taken'
    PROVE  Account(t)'
<1>1. Informed(turn[t], Given', Taken') /\ Recorded(turn[t])
  BY Says, StillInformed
<1>2. ASSUME t \notin disturbed' PROVE Undisturbed(turn[t], Latest', Now')
  <2>1. t \notin disturbed
    BY <1>2 DEF Watch
  <2>2. CASE turn[t].step = "done"
    BY <2>1, <2>2, Says DEF Undisturbed
  <2>3. CASE turn[t].step # "done"
    <3>1. UNCHANGED <<updates, practice, applied>>
      BY <1>2, <2>3 DEF Watch, Active
    <3>2. Latest' = Latest /\ Now' = Now
      BY <3>1 DEF Latest, Now, Given
    <3>3. Fair(turn[t]) /\ Remembers(turn[t], Now) /\ Entitled(turn[t], Latest, Now)
      BY <2>1, <2>3, Says
    <3> QED
      BY <3>2, <3>3 DEF Undisturbed
  <2> QED
    BY <2>2, <2>3
<1>3. Accounted(turn[t], Given', Taken', Latest', Now', t \notin disturbed')
  BY <1>1, <1>2 DEF Accounted
<1> QED
  BY <1>3 DEF Account

\* The turn that has moved answers for itself.
LEMMA ActorAccount ==
    ASSUME NEW t \in Turns, Active(t), Heir(t), Watch
    PROVE  Account(t)'
<1>1. t \notin disturbed' => t \notin disturbed
  BY DEF Watch
<1>2. Accounted(turn'[t], Given', Taken', Latest', Now', t \notin disturbed')
  BY <1>1 DEF Heir, Accounted
<1> QED
  BY <1>2 DEF Account

LEMMA TakenStays ==
    ASSUME RowsOK, NEW n, NEW row, practice' = [practice EXCEPT ![n] = row],
           practice[n].state # "submitted" \/ row.state = "submitted"
    PROVE  Taken \subseteq Taken'
<1>1. ASSUME NEW m \in Taken PROVE m \in Taken'
  <2>1. m \in Numbers /\ practice[m].state = "submitted"
    BY DEF Taken
  <2>2. practice'[m] = IF m = n THEN row ELSE practice[m]
    BY <2>1 DEF RowsOK
  <2> QED
    BY <2>1, <2>2 DEF Taken
<1> QED
  BY <1>1

LEMMA RowsAdvance ==
    ASSUME RowsOK, NEW t, Run(t) \/ Fail(t)
    PROVE  Given \subseteq Given' /\ Taken \subseteq Taken'
<1>1. UNCHANGED updates => Given' = Given
  BY DEF Given
<1>2. UNCHANGED practice => Taken' = Taken
  BY DEF Taken
<1>3. CASE Observe(t) \/ Select(t) \/ CheckFence(t) \/ ResolveExisting(t)
  <2>1. UNCHANGED <<updates, practice>>
    BY <1>3 DEF Observe, ReadLatest, ReadPractice, ReadCompletion, Select, CheckFence,
       ResolveExisting
  <2> QED
    BY <1>1, <1>2, <2>1
<1>4. CASE PersistGenerated(t)
  <2> DEFINE n == turn[t].update
             x == [turn[t] EXCEPT !.providers = @ + 1]
  <2>1. UNCHANGED updates
    BY <1>4 DEF PersistGenerated, PersistIf
  <2>2. \/ UNCHANGED practice
        \/ /\ practice[x.update].state = "none"
           /\ practice' = [practice EXCEPT ![x.update] = Generated]
    BY <1>4 DEF PersistGenerated, PersistIf
  <2> HIDE DEF x
  <2>3. Taken \subseteq Taken'
    BY <1>2, <2>2, TakenStays
  <2> QED
    BY <1>1, <2>1, <2>3
<1>5. CASE Claim(t)
  <2>1. /\ UNCHANGED updates
        /\ \/ UNCHANGED practice
           \/ /\ \/ practice[turn[t].target].state = "generated"
                 \/ practice[turn[t].target]
                      = Claimed(turn[t].essay, practice[turn[t].target].holder)
              /\ practice' = [practice EXCEPT ![turn[t].target] = Claimed(turn[t].essay, t)]
    BY <1>5 DEF Claim
  <2>2. \A e, h : Claimed(e, h).state = "submission_in_progress"
    BY DEF Claimed
  <2>3. \/ UNCHANGED practice
        \/ /\ practice[turn[t].target].state # "submitted"
           /\ practice' = [practice EXCEPT ![turn[t].target] = Claimed(turn[t].essay, t)]
    BY <2>1, <2>2
  <2>4. Taken \subseteq Taken'
    BY <1>2, <2>3, TakenStays
  <2> QED
    BY <1>1, <2>1, <2>4
<1>6. CASE FinishEvaluation(t)
  <2>1. UNCHANGED updates /\ (UNCHANGED practice \/ Submitted(turn[t].target))
    BY <1>6 DEF FinishEvaluation
  <2>2. CASE Submitted(turn[t].target)
    <3>1. Taken \subseteq Taken'
      BY <2>2, SubmittedType DEF RowsOK, Taken
    <3> QED
      BY <1>1, <2>1, <3>1
  <2> QED
    BY <1>1, <1>2, <2>1, <2>2
<1>7. CASE Complete(t)
  <2>1. UNCHANGED practice /\ (UNCHANGED updates \/ \E d \in Decisions : Apply(d))
    BY <1>7 DEF Complete, ApplyPractice
  <2> QED
    BY <1>1, <1>2, <2>1, GivenGrows
<1>8. CASE Fail(t)
  <2>1. /\ UNCHANGED updates
        /\ \/ UNCHANGED practice
           \/ /\ practice[turn[t].target].state # "submitted"
              /\ practice' = [practice EXCEPT ![turn[t].target] = Generated]
    BY <1>8 DEF Fail, Holds
  <2>2. Taken \subseteq Taken'
    BY <1>2, <2>1, TakenStays
  <2> QED
    BY <1>1, <2>1, <2>2
<1> QED
  BY <1>3, <1>4, <1>5, <1>6, <1>7, <1>8 DEF Run, Generate, SubmitPractice

LEMMA ActsAlone ==
    ASSUME NEW t \in Turns,
           Run(t) \/ Fail(t) \/ \E f, n, e : Begin(t, f, n, e)
    PROVE  \E r : Become(t, r)
BY DEF Run, Fail, Begin, Observe, ReadLatest, ReadPractice, ReadCompletion, Select, OutOfActions,
   SelectReplay, SelectSubmission, SelectContinue, Generate, CheckFence, ResolveExisting,
   PersistGenerated, PersistIf, SubmitPractice, Claim, FinishEvaluation, Complete, GoTo, Stop

LEMMA OthersStay ==
    ASSUME TurnsOK, NEW t \in Turns, NEW r, Become(t, r), NEW u \in Turns, u # t
    PROVE  turn'[u] = turn[u]
BY DEF Become, TurnsOK

LEMMA RunsActive ==
    ASSUME NEW t, Run(t) PROVE Active(t)
BY DEF Active, At, Run, Observe, ReadLatest, ReadPractice, ReadCompletion, Select, OutOfActions,
   SelectReplay, SelectSubmission, SelectContinue, Selecting, Generate, CheckFence,
   ResolveExisting, PersistGenerated, PersistIf, SubmitPractice, Claim, FinishEvaluation, Complete

-----------------------------------------------------------------------------
(***************************************************************************)
(* The ledger is kept                                                      *)
(***************************************************************************)
LEMMA LedgerInitially == Init => Ledger
<1> SUFFICES ASSUME Init PROVE Ledger
  OBVIOUS
<1>1. Rooted
  BY DEF Init, Rooted, NoPractice
<1>2. \A t \in Turns : turn[t].step = "idle"
  BY DEF Init, Idle
<1> QED
  BY <1>1, <1>2 DEF Ledger

LEMMA LedgerStep == IInv /\ IInv' /\ Ledger /\ [Next]_vars => Ledger'
<1> SUFFICES ASSUME IInv, IInv', Ledger, [Next]_vars PROVE Ledger'
  OBVIOUS
<1>1. RowsOK /\ TurnsOK /\ TurnsOK' /\ Rooted
  BY DEF IInv, Ledger
<1>2. ASSUME NEW u \in Turns, turn[u].step # "idle" PROVE Account(u)
  BY <1>2 DEF Ledger
\* One turn acts and answers for itself; the others look on.
<1>3. ASSUME NEW t \in Turns, Run(t) \/ Fail(t) \/ (\E f, n, e : Begin(t, f, n, e)), Watch,
             Rooted', Account(t)', Given \subseteq Given', Taken \subseteq Taken'
      PROVE  Ledger'
  <2>1. PICK r : Become(t, r)
    BY <1>3, ActsAlone
  <2>2. ASSUME NEW u \in Turns, u # t, turn'[u].step # "idle" PROVE Account(u)'
    <3>1. turn'[u] = turn[u]
      BY <1>1, <2>1, <2>2, OthersStay
    <3> QED
      BY <1>2, <1>3, <2>2, <3>1, BystanderAccount
  <2> QED
    BY <1>3, <2>2 DEF Ledger
<1>4. ASSUME NEW t \in Turns, Run(t) \/ Fail(t), Watch PROVE Ledger'
  <2>1. Active(t) /\ turn[t].step # "idle"
    BY <1>4, RunsActive DEF Fail, Active
  <2>2. Rooted' /\ Heir(t)
    BY <1>1, <1>2, <1>4, <2>1, RunHeir, FailHeir
  <2>3. Given \subseteq Given' /\ Taken \subseteq Taken'
    BY <1>1, <1>4, RowsAdvance
  <2> QED
    BY <1>3, <1>4, <2>1, <2>2, <2>3, ActorAccount
<1>5. ASSUME NEW t \in Turns, NEW f \in BOOLEAN, NEW n \in Numbers \cup {0},
             NEW e \in Essays \cup {None}, Begin(t, f, n, e), Watch
      PROVE  Ledger'
  <2>1. Rooted' /\ Accounted(turn'[t], Given', Taken', Latest', Now', TRUE)
    BY <1>1, <1>5, BeginHeir
  <2>2. Accounted(turn'[t], Given', Taken', Latest', Now', t \notin disturbed')
    BY <2>1 DEF Accounted
  <2>3. Account(t)'
    BY <2>2 DEF Account
  <2>4. Given' = Given /\ Taken' = Taken
    BY <1>5 DEF Begin, Given, Taken
  <2> QED
    BY <1>3, <1>5, <2>1, <2>3, <2>4
<1>6. ASSUME NEW n \in Numbers, NEW e, Watch,
             \/ DirectApply \/ DirectGenerate(n) \/ DirectFinish(n) \/ DirectComplete(n)
             \/ e \in Essays /\ DirectClaim(n, e)
      PROVE  Ledger'
  <2>1. Forward
    BY <1>1, <1>6, DirectForward
  <2>2. turn' = turn
    BY <1>6 DEF DirectApply, DirectGenerate, DirectClaim, DirectFinish, DirectComplete
  <2>3. ASSUME NEW u \in Turns, turn'[u].step # "idle" PROVE Account(u)'
    BY <1>2, <1>6, <2>1, <2>2, <2>3, BystanderAccount DEF Forward
  <2> QED
    BY <2>1, <2>3 DEF Forward, Ledger
<1>7. CASE Next
  <2>1. Watch
    BY <1>7 DEF Next
  <2>2. ASSUME NEW t \in Turns, NEW n \in Numbers, NEW e \in Essays, Begin(t, TRUE, n, e)
        PROVE  Ledger'
    BY <1>5, <2>1, <2>2
  <2>3. ASSUME NEW t \in Turns, BeginContinue(t) PROVE Ledger'
    BY <1>5, <2>1, <2>3 DEF BeginContinue
  <2>4. ASSUME DirectApply PROVE Ledger'
    <3>1. 1 \in Numbers
      <4>1. PICK d \in Decisions : Apply(d)
        BY <2>4 DEF DirectApply
      <4>2. Latest \in Nat /\ MaxUpdates \in Nat /\ Latest < MaxUpdates
        BY <1>1, <4>1, Numbering, BoundAssumption DEF Apply
      <4> QED
        BY <4>2 DEF Numbers
    <3> QED
      BY <1>6, <2>1, <2>4, <3>1
  <2>5. ASSUME NEW n \in Numbers, DirectGenerate(n) \/ DirectFinish(n) \/ DirectComplete(n)
        PROVE  Ledger'
    BY <1>6, <2>1, <2>5
  <2>6. ASSUME NEW n \in Numbers, NEW e \in Essays, DirectClaim(n, e) PROVE Ledger'
    BY <1>6, <2>1, <2>6
  <2> QED
    BY <1>4, <1>7, <2>1, <2>2, <2>3, <2>4, <2>5, <2>6 DEF Next, Step
<1>8. CASE UNCHANGED vars
  <2>1. UNCHANGED <<updates, practice, applied, turn, disturbed>>
    BY <1>8 DEF vars, state
  <2> QED
    BY <2>1 DEF Ledger, Rooted, Account, Given, Taken, Latest, Now
<1> QED
  BY <1>7, <1>8

-----------------------------------------------------------------------------
(***************************************************************************)
(* What the evaluation gate finds                                          *)
(***************************************************************************)
\* Whatever is not an observation is a tool that may change something.
LEMMA MutatingCount ==
    ASSUME NEW s \in Seq(Outcomes)
    PROVE  Cardinality(Numbered(s, Mutating)) = Len(s) - Count(s, "observe")
<1> DEFINE all == 1..Len(s)
           observed == Numbered(s, By("observe"))
<1>1. observed \subseteq all /\ Numbered(s, Mutating) = all \ observed
  BY DEF Numbered, Mutating
<1>2. IsFiniteSet(all) /\ Cardinality(all) = Len(s)
  <2>1. Len(s) \in Nat
    OBVIOUS
  <2>2. IsFiniteSet(all) /\ Cardinality(all) = IF 1 > Len(s) THEN 0 ELSE Len(s) - 1 + 1
    BY <2>1, FS_Interval
  <2> QED
    BY <2>1, <2>2
<1>3. all \cap observed = observed
  BY <1>1
<1>4. Cardinality(all \ observed) = Cardinality(all) - Cardinality(all \cap observed)
  BY <1>2, FS_Difference
<1> QED
  BY <1>1, <1>2, <1>3, <1>4 DEF Count

LEMMA NoBoundViolation ==
    ASSUME IInv, NEW t \in Turns, turn[t].step = "done", Recorded(turn[t]),
           turn[t].stop \in StopReasons
    PROVE  BoundViolations(turn[t].trace) = {}
<1> DEFINE q == turn[t]
           s == q.trace
<1>1. q \in Turn /\ Within(q)
  BY BusyTurn DEF IInv, Steady
<1>2. s \in Seq(Outcomes) /\ q.providers \in Nat
  BY <1>1 DEF Turn
<1>3. s # << >> /\ s[1] = "observation_classified"
  BY DEF Recorded, Observing
<1>4. ToolOf[Head(s)] = "observe"
  BY <1>2, <1>3 DEF ToolOf
<1>5. Cardinality(Numbered(s, Mutating)) <= MaxMutations
  BY <1>1, <1>2, MutatingCount DEF Within, Tools, Observations
<1>6. Cardinality(Numbered(s, ProviderBacked)) <= MaxProviderCalls
  <2>1. Cardinality(Numbered(s, ProviderBacked)) \in Nat
    BY <1>2, NumberedCount
  <2>2. /\ Cardinality(Numbered(s, ProviderBacked)) <= q.providers
        /\ q.providers <= MaxProviderCalls
    BY <1>1 DEF Recorded, Within
  <2> QED
    BY <1>2, <2>1, <2>2 DEF MaxProviderCalls
<1>7. /\ Count(s, "observe") <= MaxObservations /\ Count(s, "generate") <= MaxGenerations
      /\ Count(s, "complete") <= MaxCompletions
  BY <1>1 DEF Within, Observations, Generations, Completions
<1>8. /\ Count(s, "observe") \in Nat /\ Count(s, "generate") \in Nat
      /\ Count(s, "complete") \in Nat /\ Cardinality(Numbered(s, ProviderBacked)) \in Nat
      /\ Cardinality(Numbered(s, Mutating)) \in Nat
  BY <1>2, CountType, NumberedCount
<1>9. /\ ~(s = << >> \/ ToolOf[Head(s)] # "observe")
      /\ ~(Count(s, "observe") > MaxObservations)
      /\ ~(Cardinality(Numbered(s, Mutating)) > MaxMutations)
      /\ ~(Count(s, "generate") > MaxGenerations)
      /\ ~(Count(s, "complete") > MaxCompletions)
      /\ ~(Cardinality(Numbered(s, ProviderBacked)) > MaxProviderCalls)
  BY <1>3, <1>4, <1>5, <1>6, <1>7, <1>8 DEF MaxObservations, MaxMutations, MaxGenerations,
     MaxCompletions, MaxProviderCalls
<1> HIDE DEF s
<1>10. BoundViolations(s) = {}
  BY <1>9 DEF BoundViolations
<1> QED
  BY <1>10 DEF s

LEMMA OnlyStaleStops ==
    ASSUME NEW q, Recorded(q)
    PROVE  /\ StopViolations(q.trace, q.stop) \subseteq {Stale}
           /\ ~Has(q.trace, {Stale}) => StopViolations(q.trace, q.stop) = {}
<1>1. \A o \in Refusals : Has(q.trace, {o}) => q.stop = StopAfter[o]
  BY DEF Recorded
<1> QED
  BY <1>1 DEF StopViolations, Refusals, Has, Stale

LEMMA AccountAccepted == IInv /\ Ledger => EvaluatorAccepts
<1> SUFFICES ASSUME IInv, Ledger, NEW t \in Turns, Answered(t)
             PROVE  LET q == turn[t] found == Violations(q.first, q.trace, q.stop) IN
                    /\ found \subseteq Unforeseen
                    /\ \/ t \in disturbed \/ found = {}
                       \/ found = {"submission_without_practice"} /\ Unknown(q)
  BY DEF EvaluatorAccepts
<1> DEFINE q == turn[t]
           found == Violations(q.first, q.trace, q.stop)
           flaws == Flaws(q.first, q.trace)
<1>1. q.step = "done" /\ q.stop \in StopReasons
  BY DEF Answered, At
<1>2. Account(t)
  BY <1>1 DEF Ledger
<1>3. Recorded(q) /\ (t \notin disturbed => Fair(q))
  BY <1>2, Says
<1>4. found = StopViolations(q.trace, q.stop) \cup flaws
  BY <1>1, <1>3, NoBoundViolation DEF Violations, Flaws
<1>5. found \subseteq Unforeseen
  BY <1>3, <1>4, OnlyStaleStops DEF Recorded, Unforeseen, Stale
<1>6. ASSUME t \notin disturbed
      PROVE  found = {} \/ (found = {"submission_without_practice"} /\ Unknown(q))
  <2>1. StopViolations(q.trace, q.stop) = {}
    BY <1>3, <1>6, OnlyStaleStops DEF Fair
  <2>2. found = flaws
    BY <1>4, <2>1
  <2>3. flaws = {} \/ (flaws = {NoPracticeSeen} /\ Unknown(q))
    BY <1>3, <1>6 DEF Fair, Unknown
  <2> QED
    BY <2>2, <2>3 DEF NoPracticeSeen
<1> QED
  BY <1>5, <1>6

\* The ledger of rows and turns is kept, whoever acts.
THEOREM LedgerKept == Spec => []Ledger
BY LedgerInitially, LedgerStep, AgentInvariant, PTL DEF Spec

\* The evaluation gate finds no fault with a turn that runs alone, but for an essay sent
\* for a practice it does not know to be submitted or claimed, and with any turn only the
\* faults that what others did accounts for.
THEOREM TrajectoriesAccepted == Spec => []EvaluatorAccepts
BY LedgerKept, AccountAccepted, AgentInvariant, PTL

=============================================================================

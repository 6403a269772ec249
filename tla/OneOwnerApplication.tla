------------------------- MODULE OneOwnerApplication -------------------------
(***************************************************************************)
(* What applying evaluations promises, without locks, transactions or      *)
(* faults: an evaluation is applied at most once, to one learner, for      *)
(* good, and clients are told the truth about whose it is.                 *)
(***************************************************************************)
CONSTANTS Learners, Evaluations

VARIABLES
    applied,   \* <<learner, evaluation>> of the applications so far
    told       \* <<learner, evaluation, answer>> of the answers clients hold

vars == <<applied, told>>

Owners(e) == {l \in Learners : <<l, e>> \in applied}

\* "mine": applied to the learner the client named; "theirs": to another one.
Truth(l, e, answer) ==
    \/ answer = "mine" /\ <<l, e>> \in applied
    \/ answer = "theirs" /\ \E o \in Learners \ {l} : <<o, e>> \in applied

Init == applied = {} /\ told = {}

Apply(l, e) == Owners(e) = {} /\ applied' = applied \cup {<<l, e>>}

Next == /\ (\E l \in Learners, e \in Evaluations : Apply(l, e)) \/ UNCHANGED applied
        /\ \A t \in told' : Truth(t[1], t[2], t[3])'

Spec == Init /\ [][Next]_vars
=============================================================================

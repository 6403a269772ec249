-------------------------- MODULE OnePracticeEach --------------------------
(***************************************************************************)
(* What practice generation promises, without providers, transactions or   *)
(* locks: a recommendation gets at most one practice, for good, and every  *)
(* caller that is given a practice is given that one.                      *)
(***************************************************************************)
EXTENDS Sequences

CONSTANTS Recommendations, Contents

VARIABLES
    practices,   \* the practices of a recommendation: none or one
    given        \* <<recommendation, content>> of the practices clients hold

vars == <<practices, given>>

Init == practices = [r \in Recommendations |-> << >>] /\ given = {}

Create(r, content) ==
    /\ practices[r] = << >>
    /\ practices' = [practices EXCEPT ![r] = <<content>>]

\* A client may forget what it was given.
Truths(made) == {<<r, made[r][1]>> : r \in {q \in Recommendations : made[q] # << >>}}
Give == given' \subseteq Truths(practices')

Next == /\ \/ \E r \in Recommendations, content \in Contents : Create(r, content)
           \/ UNCHANGED practices
        /\ Give

Spec == Init /\ [][Next]_vars
=============================================================================

-------------------------- MODULE OneShotSubmission --------------------------
(***************************************************************************)
(* What practice submission promises, without claims, leases or faults: a  *)
(* practice takes at most one essay, for good, and a learner is only ever  *)
(* told of success for a practice of its own and the essay that was taken. *)
(***************************************************************************)
EXTENDS Sequences

CONSTANTS Practices, Essays, Owner

VARIABLES
    accepted,    \* the essays a practice has taken: none or one
    confirmed    \* <<learner, practice, essay>> of the successes clients know of

vars == <<accepted, confirmed>>

Truths(taken) == {<<Owner[p], p, taken[p][1]>> : p \in {q \in Practices : taken[q] # << >>}}

Init == accepted = [p \in Practices |-> << >>] /\ confirmed = {}

Accept(p, e) ==
    /\ accepted[p] = << >>
    /\ accepted' = [accepted EXCEPT ![p] = <<e>>]

\* A client may forget what it was told; what it is told is true.
Tell == confirmed' \subseteq Truths(accepted')

Next == /\ (\E p \in Practices, e \in Essays : Accept(p, e)) \/ UNCHANGED accepted
        /\ Tell

Spec == Init /\ [][Next]_vars
=============================================================================

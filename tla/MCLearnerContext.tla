-------------------------- MODULE MCLearnerContext --------------------------
EXTENDS LearnerContext, TLC

CONSTANTS c1, c2, e1, e2

\* The second client sends the same essay as the first one, or another.
SameOrOther == c1 :> {e1} @@ c2 :> {e1, e2}
=============================================================================

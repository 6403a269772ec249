------------------------ MODULE MCPracticeSubmission ------------------------
EXTENDS PracticeSubmission, TLC

CONSTANTS ann, bob, p1, p2

\* One practice of ann's, served by her first update.
SoleOwner == p1 :> ann
SoleAnchor == p1 :> 1
\* A practice each.
PairOwner == p1 :> ann @@ p2 :> bob
PairAnchor == p1 :> 1 @@ p2 :> 1

Interchangeable == Permutations(Requests) \cup Permutations(Tokens)
                   \cup Permutations(Essays)
=============================================================================

------------------------ MODULE MCPracticeGeneration ------------------------
EXTENDS PracticeGeneration, TLC

CONSTANTS ann, bob, r1, r2

\* ann's first update recommends a practice and her second one none.
BothAnns == r1 :> ann @@ r2 :> ann
InTurn == r1 :> 1 @@ r2 :> 2
\* One recommendation alone.
SoleOwner == r1 :> ann
SoleUpdate == r1 :> 1

Interchangeable == Permutations(Calls) \cup Permutations(Contents)
=============================================================================

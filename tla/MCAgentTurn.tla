----------------------------- MODULE MCAgentTurn -----------------------------
EXTENDS AgentTurn, TLC

Interchangeable == Permutations(Turns) \cup Permutations(Essays)
=============================================================================

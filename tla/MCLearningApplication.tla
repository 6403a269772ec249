----------------------- MODULE MCLearningApplication -----------------------
EXTENDS LearningApplication, TLC

Interchangeable == Permutations(Requests) \cup Permutations(Learners)
                   \cup Permutations(Usable)
=============================================================================

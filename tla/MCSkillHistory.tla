--------------------------- MODULE MCSkillHistory ---------------------------
EXTENDS SkillHistory, TLC

CONSTANTS task_response, coherence, lexical

ThreePriority == task_response :> 1 @@ coherence :> 2 @@ lexical :> 3
TwoPriority == task_response :> 1 @@ coherence :> 2
=============================================================================

SPECIFICATION Spec
CONSTANTS
    Client = Client
    None = None
    Turns = {t1}
    Essays = {a}
    MaxUpdates = 3
    MaxDirect = 3
    MaxFaults = 0
CHECK_DEADLOCK FALSE
INVARIANTS
    SubmittedEssayApplied

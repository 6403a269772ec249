SPECIFICATION FairSpec
CONSTANTS
    Client = Client
    None = None
    Turns = {t1}
    Essays = {a, b}
    MaxUpdates = 3
    MaxDirect = 3
    MaxFaults = 1
CHECK_DEADLOCK FALSE
PROPERTIES
    AgentActsOnCurrent
    SubmittedIsSettled

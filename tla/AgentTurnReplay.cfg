SPECIFICATION FairSpec
CONSTANTS
    Client = Client
    None = None
    Turns = {t1, t2}
    Essays = {a}
    MaxUpdates = 2
    MaxDirect = 2
    MaxFaults = 0
CHECK_DEADLOCK FALSE
PROPERTIES
    MatchingReplayAccepted

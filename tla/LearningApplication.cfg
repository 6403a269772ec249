SPECIFICATION Spec
CONSTANTS
    e1 = e1
    e2 = e2
    e3 = e3
    Learners = {ann, bob}
    Evaluations = {e1, e2, e3}
    Usable = {e1, e2}
    Requests = {r1, r2, r3}
    None = None
    MaxCalls = 5
    MaxFaults = 2
SYMMETRY Interchangeable
CHECK_DEADLOCK FALSE
INVARIANTS
    TypeOK
    StateReplaysEvidence
    SnapshotsFollowIds
    WaitsEnd
PROPERTIES
    ImplementsOneOwner

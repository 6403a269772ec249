SPECIFICATION Spec
CONSTANTS
    Client = Client
    None = None
    Turns = {t1, t2}
    Essays = {a, b}
    MaxUpdates = 3
    MaxDirect = 1
    MaxFaults = 0
CHECK_DEADLOCK FALSE
SYMMETRY Interchangeable
INVARIANTS
    TypeOK
    WithinBounds
    EvaluatorAccepts

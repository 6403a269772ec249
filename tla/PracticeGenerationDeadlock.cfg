SPECIFICATION Spec
CONSTANTS
    ann = ann
    bob = bob
    r1 = r1
    r2 = r2
    Learners = {ann}
    Recommendations = {r1}
    Owner <- SoleOwner
    UpdateOf <- SoleUpdate
    Practising = {r1}
    Contents = {x, y}
    Calls = {c1, c2}
    None = None
    MaxUpdates = 1
    MaxFaults = 0
CHECK_DEADLOCK FALSE
SYMMETRY Interchangeable
INVARIANTS
    LoserGetsWinner

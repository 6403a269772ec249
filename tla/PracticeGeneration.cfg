SPECIFICATION FairSpec
CONSTANTS
    ann = ann
    bob = bob
    r1 = r1
    r2 = r2
    Learners = {ann, bob}
    Recommendations = {r1, r2}
    Owner <- BothAnns
    UpdateOf <- InTurn
    Practising = {r1}
    Contents = {x, y}
    Calls = {c1, c2}
    None = None
    MaxUpdates = 2
    MaxFaults = 1
INVARIANTS
    TypeOK
PROPERTIES
    FencedIsCurrent
    ImplementsOnePractice
    EveryCallAnswered

SPECIFICATION Spec
CONSTANTS
    ann = ann
    bob = bob
    p1 = p1
    p2 = p2
    Learners = {ann, bob}
    Practices = {p1}
    Owner <- SoleOwner
    Anchor <- SoleAnchor
    Essays = {e1, e2}
    Requests = {r1, r2}
    Tokens = {t1, t2, t3}
    None = None
    Lease = 2
    AttemptLimit = 1
    MaxUpdates = 2
    MaxFaults = 3
SYMMETRY Interchangeable
INVARIANTS
    TypeOK
    RowMatchesAttempts
    LiveClaimKept
PROPERTIES
    ClaimHandover
    ImplementsOneShot

\* No symmetry (unsound for liveness).  The three attempts an evaluation may take end before the lease does.
SPECIFICATION FairSpec
CONSTANTS
    ann = ann
    bob = bob
    p1 = p1
    p2 = p2
    Learners = {ann}
    Practices = {p1}
    Owner <- SoleOwner
    Anchor <- SoleAnchor
    Essays = {e1, e2}
    Requests = {r1, r2}
    Tokens = {t1, t2, t3}
    None = None
    Lease = 4
    AttemptLimit = 1
    MaxUpdates = 1
    MaxFaults = 2
INVARIANTS
    OneEvaluation
PROPERTIES
    EventuallySubmitted

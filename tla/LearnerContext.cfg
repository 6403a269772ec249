SPECIFICATION FairSpec
CONSTANTS
    c1 = c1  c2 = c2  e1 = e1  e2 = e2
    Clients = {c1, c2}
    Essays = {e1, e2}
    None = None
    Drafts <- SameOrOther
    MaxUpdates = 3
    MaxStrays = 2
INVARIANTS
    TypeOK
    UnreachableOnlyIfOvertaken
    GuidedNeverRefused
PROPERTIES
    GuidanceAdvances

SPECIFICATION Spec
CONSTANTS
    MaxBroken = 2
    MaxFaults = 1
INVARIANTS
    TypeOK
    VerdictIsRight
    CasesIndependent
    EarliestBlamed
    ReportAgrees
PROPERTIES
    OnlyAcceptedWiped

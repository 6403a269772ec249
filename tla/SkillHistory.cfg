SPECIFICATION Spec
CONSTANTS
    task_response = task_response
    coherence = coherence
    lexical = lexical
    None = None
    Skills = {task_response, coherence}
    Priority <- TwoPriority
    Bands = {550, 600, 650}
    Targets = {600, 650}
    MaxAttempts = 3
CHECK_DEADLOCK FALSE
INVARIANTS
    TypeOK
    StateIgnoresArrival
    RecordsReconstruct
    RowsStorable
    MemoryOnlyBreaksTies
PROPERTIES
    AchievedStaysAchieved

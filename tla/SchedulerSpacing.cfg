SPECIFICATION FairSpec
CONSTANTS
    j1 = j1
    j2 = j2
    j3 = j3
    j4 = j4
    None = None
    Job = {j1, j2, j3}
    Slots = 2
    MaxQueued = 1
    Patience = 3
    Gap = 2
    Window = 5
    MaxStarts = 2
    MaxTime = 6
    ClockSteps = FALSE
INVARIANTS
    BudgetKept
    NoNeedlessWait
PROPERTIES
    WaitingEnds
CHECK_DEADLOCK FALSE

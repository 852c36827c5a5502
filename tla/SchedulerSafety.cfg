SPECIFICATION Spec
CONSTANTS
    j1 = j1
    j2 = j2
    j3 = j3
    j4 = j4
    None = None
    Job = {j1, j2, j3}
    Slots = 2
    MaxQueued = 2
    Patience = 2
    Gap = 1
    Window = 2
    MaxStarts = 1
    MaxTime = 3
    ClockSteps = TRUE
SYMMETRY Symmetry
INVARIANTS
    NoLostWakeup
PROPERTIES
    DepartsInOrder
CHECK_DEADLOCK FALSE

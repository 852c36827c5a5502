SPECIFICATION FairSpec
CONSTANTS
    b1 = b1
    b2 = b2
    r1 = r1
    r2 = r2
    r3 = r3
    q1 = q1
    q2 = q2
    c1 = c1
    None = None
    Dataset = {"typologies", "assortments"}
    Bundle = {b1}
    Run = {r1}
    Refresher = {q1, q2}
    Attempt = {1, 2}
    Client = {}
    AcksLost = TRUE
    ClockSteps = TRUE
PROPERTIES
    RefreshEnds
CHECK_DEADLOCK FALSE

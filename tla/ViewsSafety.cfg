SPECIFICATION Spec
CONSTANTS
    s1 = s1
    s2 = s2
    x = x
    y = y
    None = None
    Site = {s1, s2}
    Arg = {x, y}
    Visited = {"summary", "typologies"}
    MaxRuns = 4
    MaxServed = 2
    MaxGeneration = 1
INVARIANTS
    ShownBelongs
    OpenedUnderRows
    NotOlderThanFreshness
    PageExists
    NobodyForgotten
PROPERTIES
    LoadingEnds
CHECK_DEADLOCK FALSE

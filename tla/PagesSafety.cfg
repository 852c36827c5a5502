SPECIFICATION Spec
CONSTANTS
    MaxRow = 5
    Gone = Gone
    Entries <- MCEntries
    Limit = 2
    MaxImports = 1
    MaxReads = 4
INVARIANTS
    ShownIsAsked
    CursorsAscend
    NothingSkipped
    NothingRefused
PROPERTIES
    LoadingEnds
CHECK_DEADLOCK FALSE

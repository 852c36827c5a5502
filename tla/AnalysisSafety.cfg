SPECIFICATION Spec
CONSTANTS
    f1 = f1
    f2 = f2
    t1 = t1
    x1 = x1
    None = None
    Empty = Empty
    Filter = {f1, f2}
    Text = {t1}
    Store = {x1}
    Tab = {"summary", "ranking"}
    Pages = 2
    MaxPublication = 2
    MaxActs = 5
    MaxAsked = 2
    Searched <- NarrowedBy
SYMMETRY Symmetry
INVARIANTS
    OnePublication
    CursorsMatch
    ReturnStaysHere
    NothingHangs
PROPERTIES
    ConflictIsCurrent
CHECK_DEADLOCK FALSE

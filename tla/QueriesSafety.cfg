SPECIFICATION Spec
CONSTANTS
    c1 = c1
    c2 = c2
    c3 = c3
    k1 = k1
    k2 = k2
    collection = collection
    None = None
    Call = {c1, c2, c3}
    Key = {k1, k2, collection}
    Remembered = {k1, k2}
    Pinned = {k1, k2}
    Collected = {collection}
    MaxPending = 2
    MaxConsumers = 2
    MaxCached = 1
    MaxGeneration = 1
    MaxServed = 1
SYMMETRY Symmetry
INVARIANTS
    CacheNotOlder
    OneFetchForSomebody
PROPERTIES
    ValuesStayInSession
    CancelledForCause
CHECK_DEADLOCK FALSE

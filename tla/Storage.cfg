\* Writes before and after the items are loaded, one failure anywhere, and a
\* process that ends at any moment and is followed by another.
CONSTANTS
    Keys = {k1, k2}
    Values = {v1}
    None = None
    Early = TRUE
    MaxWrites = 3
    MaxFailures = 1
    MaxOpens = 1
SPECIFICATION Spec
INVARIANTS
    CacheIsComing
    SettledIsStored
    ClosedIsComplete
PROPERTIES
    FlushedIsStored
    WhenFlushedReturns
    ImplementsStore
    CloseEndsUnlessFailed
CHECK_DEADLOCK FALSE

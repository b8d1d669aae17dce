\* A flush that fails while close waits for it.
CONSTANTS
    Keys = {k1}
    Values = {v1}
    None = None
    Early = FALSE
    MaxWrites = 2
    MaxFailures = 1
    MaxOpens = 0
SPECIFICATION Spec
PROPERTIES
    CloseEnds
CHECK_DEADLOCK FALSE

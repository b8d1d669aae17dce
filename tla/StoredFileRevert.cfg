SPECIFICATION Spec
CONSTANTS
    None = None
    MaxEvents = 3
PROPERTY RevertReadsTheFile
CHECK_DEADLOCK FALSE

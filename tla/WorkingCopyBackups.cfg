SPECIFICATION Spec
CONSTANTS
    None = None
    MaxEvents = 7
INVARIANTS NoStaleBackup HotExitKeepsText VersionTellsContent
PROPERTY EditsAreBackedUp
CHECK_DEADLOCK FALSE

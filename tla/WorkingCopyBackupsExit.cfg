SPECIFICATION Spec
CONSTANTS
    None = None
    MaxEvents = 3
INVARIANT CleanExitLeavesNoBackup
CHECK_DEADLOCK FALSE

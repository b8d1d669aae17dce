SPECIFICATION Spec
CONSTANTS
    None = None
    MaxEvents = 6
INVARIANTS CleanIsSaved SeenBeforeOverwritten ConflictIsReal
PROPERTIES  EverySaveEnds
CHECK_DEADLOCK FALSE

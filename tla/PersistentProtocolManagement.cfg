\* The management connection: a message each way through two faults, and connections
\* enough for what two faults can cost.
CONSTANTS
    MaxMsgs = 1
    IdSpace = 4
    MaxConns = 4
    MaxFaults = 2
    MaxWire = 1
    ExtHost = FALSE
    MaxLosses = 0
    Mixed = FALSE
SPECIFICATION Spec
INVARIANTS
    SocketIsWatched
PROPERTIES
    ReconnectingIsTemporary
    EverythingArrives
    QueueDrains
CHECK_DEADLOCK FALSE

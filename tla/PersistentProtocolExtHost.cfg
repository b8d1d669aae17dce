\* The extension host connection, whose socket is handed to another process
\* while the client's writer is paused; one fault, or else two single
\* messages that the transport drops.
CONSTANTS
    MaxMsgs = 2
    IdSpace = 4
    MaxConns = 3
    MaxFaults = 1
    MaxWire = 0
    ExtHost = TRUE
    MaxLosses = 2
    Mixed = FALSE
SPECIFICATION Spec
INVARIANTS
    UnackedUntilDelivered
    NoGap
PROPERTIES
    ImplementsChannel
    ArrivesUnlessLost
    MissedIsReplayed
CHECK_DEADLOCK FALSE

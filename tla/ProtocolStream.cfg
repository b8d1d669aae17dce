\* Three messages are the handshake's request, one that may be in flight while
\* the socket changes hands, and one after that.
CONSTANTS
    HeaderLength = 3
    MaxBody = 2
    MaxMessages = 3
SPECIFICATION Spec
INVARIANTS
    FramesIntact
    NothingStranded
    BytesConserved
CHECK_DEADLOCK FALSE

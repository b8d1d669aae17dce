SPECIFICATION Spec
CONSTANTS
    MaxEvents = 5
    MaxMicrotasks = 3
INVARIANTS InOrder NothingLost
PROPERTY EventuallyDelivered

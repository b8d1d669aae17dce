\* One call around listeners that come and go twice while the event fires
\* twice, and two calls in every order of answers, timeouts and cancellations.
CONSTANTS
    MaxCalls = 2
    Events = {e1}
    None = None
    MaxListens = 2
    MaxFires = 2
    MaxUses = 2
SPECIFICATION Spec
INVARIANTS
    OwnAnswer
    CancelReaches
    NothingLeaks
    DisposeSettlesAll
    SubscriptionsMatch
    HeardOnce
PROPERTIES
    EveryCallSettles
CHECK_DEADLOCK FALSE

\* Two processes, so that one may start before the other has closed, and two
\* faults, so that what the second one meets is explored too.
SPECIFICATION Spec
CONSTANTS
    Processes = {p1, p2}
    MaxStarts = 4
    MaxWrites = 3
    MaxFaults = 2
INVARIANT SurvivesOneFault
PROPERTY CallsEnd
CHECK_DEADLOCK FALSE

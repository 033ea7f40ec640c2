\* Four dataIDs, a queue that never fills.
CONSTANTS
    NData = 4
    Size = 3
    MaxWait = 2
    MaxTime = 5
SPECIFICATION Spec
CHECK_DEADLOCK FALSE
INVARIANT HoldBounded

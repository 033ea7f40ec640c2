\* terminateTransport fired while the discovery flood is still under way,
\* over the line c-a-p-d, with one copy of each flood and no losses.
CONSTANTS
    c = c
    a = a
    b = b
    p = p
    d = d
    Node <- LineNode
    Nbr <- LineNbr
    Consumer = c
    Producer = p
    SendTimes = 1
    QLevels = {1}
    MaxLoss = 0
    NeedToTerminate = TRUE
    TerminateAfterFlood = FALSE
    PrefixIndexUB = FALSE
SPECIFICATION Spec
INVARIANTS
    TerminationClears
\* The flood and the end wave die out: the system really stops.
CHECK_DEADLOCK FALSE

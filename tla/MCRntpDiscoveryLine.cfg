\* Discovery and termination over the line c-a-p-d with the configured
\* interestSendTimes = 3 and two lost receptions.
CONSTANTS
    c = c
    a = a
    b = b
    p = p
    d = d
    Node <- LineNode
    Nbr <- LineNbr
    Consumer = c
    Producer = p
    SendTimes = 3
    QLevels = {1}
    MaxLoss = 2
    NeedToTerminate = TRUE
    TerminateAfterFlood = TRUE
    PrefixIndexUB = FALSE
SPECIFICATION Spec
INVARIANTS
    TypeOK
    NoDuplicateRoutes
    TerminationClears
PROPERTIES
    ProducerNotified
\* The flood and the end wave die out: the system really stops.
CHECK_DEADLOCK FALSE

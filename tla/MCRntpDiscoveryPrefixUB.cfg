\* Discovery over the diamond when findPrefix returns its uninitialized
\* index: the value may be negative at the producer.
CONSTANTS
    c = c
    a = a
    b = b
    p = p
    d = d
    Node <- DiamondNode
    Nbr <- DiamondNbr
    Consumer = c
    Producer = p
    SendTimes = 1
    QLevels = {1}
    MaxLoss = 0
    NeedToTerminate = TRUE
    TerminateAfterFlood = TRUE
    PrefixIndexUB = TRUE
SPECIFICATION Spec
PROPERTIES
    ProducerNotified
\* The flood and the end wave die out: the system really stops.
CHECK_DEADLOCK FALSE

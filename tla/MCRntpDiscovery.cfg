\* Discovery and termination over the diamond of the transport runs: one
\* copy of each flood, one lost reception, the end wave after the flood.
CONSTANTS
    c = c
    a = a
    b = b
    p = p
    d = d
    Node <- DiamondNode
    Nbr <- DiamondNbr
    Consumer = c
    Producer = p
    SendTimes = 1
    QLevels = {1}
    MaxLoss = 1
    NeedToTerminate = TRUE
    TerminateAfterFlood = TRUE
    PrefixIndexUB = FALSE
SPECIFICATION Spec
INVARIANTS
    TypeOK
    RouteWellFormed
    TerminationClears
    BroadcastsDecodable
PROPERTIES
    ProducerNotified
\* The flood and the end wave die out: the system really stops.
CHECK_DEADLOCK FALSE

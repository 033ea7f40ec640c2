CONSTANTS
    c = c
    a = a
    b = b
    p = p
    Node = {c, a, p}
    Consumer = c
    Producer = p
    Nbr <- TriNbr
    Routes <- TriRoutes
    NData = 2
    MaxInAir = 2
    MaxLoss = 1
    MaxBreaks = 0
    MaxRetry = 1
    InitWin = 1
    InitThres = 2
    QLevels = {1}
    RankPeriod = 2
    NoNode = NoNode
    Absent = Absent
    NoTimer = NoTimer
    TSConsumerID = NoNode
SPECIFICATION Spec
CONSTRAINT NetBound
INVARIANTS
    TypeOK
    NoCapsuleLost
    AtMostOnceDelivery
    InFlightConsistent
PROPERTIES

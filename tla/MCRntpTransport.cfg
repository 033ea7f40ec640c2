CONSTANTS
    c = c
    a = a
    b = b
    p = p
    Node = {c, a, b, p}
    Consumer = c
    Producer = p
    Nbr <- MCNbr
    Routes <- MCRoutes
    NData = 1
    MaxInAir = 2
    MaxLoss = 1
    MaxBreaks = 1
    MaxRetry = 1
    InitWin = 1
    InitThres = 2
    QLevels = {1}
    RankPeriod = 2
    NoNode = NoNode
    Absent = Absent
    NoTimer = NoTimer
    TSConsumerID = NoNode
SPECIFICATION Spec
CONSTRAINT NetBound
INVARIANTS
    TypeOK
    NoCapsuleLost
    AtMostOnceDelivery
    InFlightConsistent

\* The skip policy in play: five dataIDs, a queue of two.  The clock bound
\* ends every behaviour, so a final state without successors is expected.
CONSTANTS
    NData = 5
    Size = 2
    MaxWait = 2
    MaxTime = 5
SPECIFICATION Spec
CHECK_DEADLOCK FALSE
INVARIANTS
    TypeOK
    QTimeCoversQSeq
    TimersAhead
    ParkedAheadUnlessBehind

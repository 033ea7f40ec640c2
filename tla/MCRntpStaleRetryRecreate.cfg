\* The end wave erases the pair's TransportStates while a retry is pending,
\* and a discovery copy it overtook creates a new one.
CONSTANTS
    MaxGen = 2
    MaxRetry = 2
    Absent = Absent
    RecreateWhenIdle = FALSE
    Consumer = c
    Nbrs = {a, x}
    RouteNbrs = {a}
    TSConsumerID = g
SPECIFICATION Spec
INVARIANT NoNullRestore
\* Once the entry is erased and every retry has fired, or the relay has
\* crashed, nothing is left to do.
CHECK_DEADLOCK FALSE

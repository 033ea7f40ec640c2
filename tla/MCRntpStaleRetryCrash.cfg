\* The end wave erases the pair's TransportStates while a retry is pending,
\* and a discovery copy it overtook may create a new one.  The relay hears
\* the consumer-side hop a and a node x off its routes; consumerID holds
\* garbage that is not the consumer.
CONSTANTS
    MaxGen = 2
    MaxRetry = 2
    Absent = Absent
    RecreateWhenIdle = FALSE
    Consumer = c
    Nbrs = {a, x}
    RouteNbrs = {a}
    TSConsumerID = g
SPECIFICATION Spec
INVARIANTS
    TypeOK
    CrashNeedsRecreate
PROPERTIES
    WindowReopens
\* Once the entry is erased and every retry has fired, or the relay has
\* crashed, nothing is left to do.
CHECK_DEADLOCK FALSE

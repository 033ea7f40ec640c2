\* The configured THROUGHPUT_QUEUE_SIZE_IN_SECS = 2 over seven seconds,
\* up to two packets a second: the ring wraps and drops buckets repeatedly.
CONSTANTS
    Capacity = 2
    MaxSecs = 6
    MaxCount = 2
    Unset = Unset
SPECIFICATION Spec
INVARIANTS
    TypeOK
    MeanRateMatches
PROPERTIES
    RefinesWindow
\* The bounded clock ends every behaviour.
CHECK_DEADLOCK FALSE

\* Every message kind with lists of up to two IDs; 4 has the top bit of a
\* 3-bit node ID set.
\* One message goes through its handlers, then nothing is left to do.
CONSTANTS
    IDs = {1, 4}
    MaxList = 2
SPECIFICATION Spec
INVARIANT TypeOK
INVARIANT RoundTrip
CHECK_DEADLOCK FALSE

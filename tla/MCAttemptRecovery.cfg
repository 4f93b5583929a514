CONSTANTS
    Workers = {w1, w2}
    MaxFaults = 3
    MaxUnread = 3

SPECIFICATION Spec
\* A finished attempt whose entries are read and rows delivered stops.
CHECK_DEADLOCK FALSE

INVARIANTS
    TypeOK
    OneCurrentClaim
PROPERTIES
    EventuallyFinished

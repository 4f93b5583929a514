CONSTANTS
    Targets = {t1}
    Attempts = {a1, a2}
    Versions = {v1, v2}
    Workers = {w1, w2}
    NoAttempt = NoAttempt
    NoTarget = NoTarget
    NoVersion = NoVersion
    LeaseSeconds = 1
    DispatchTimeout = 1
    FailureCooldown = 1
    Skew = 0
    MaxTime = 1
    MaxUnread = 2

SPECIFICATION SystemSpec
SYMMETRY Symmetry
\* The clock stops at MaxTime, so the bounded system may stop.
CHECK_DEADLOCK FALSE

INVARIANTS
    SystemTypeOK
    OneLeaseHolder
    NothingDropped

PROPERTIES
    LateWorkersChangeNothing

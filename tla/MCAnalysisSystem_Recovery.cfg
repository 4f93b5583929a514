CONSTANTS
    Targets = {t1}
    Attempts = {a1}
    Versions = {v1}
    Workers = {w1, w2}
    NoAttempt = NoAttempt
    NoTarget = NoTarget
    NoVersion = NoVersion
    LeaseSeconds = 2
    DispatchTimeout = 1
    FailureCooldown = 1
    Skew = 0
    MaxTime = 4
    MaxUnread = 2

SPECIFICATION SystemSpec
SYMMETRY Symmetry
\* The clock stops at MaxTime, so the bounded system may stop.
CHECK_DEADLOCK FALSE

PROPERTIES
    LateWorkersChangeNothing

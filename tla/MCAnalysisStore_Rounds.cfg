CONSTANTS
    Targets = {t1, t2}
    Attempts = {a1, a2}
    Versions = {v1, v2}
    NoAttempt = NoAttempt
    NoTarget = NoTarget
    NoVersion = NoVersion
    LeaseSeconds = 1
    DispatchTimeout = 1
    FailureCooldown = 2
    Skew = 0
    MaxTime = 2

SPECIFICATION Spec
SYMMETRY Symmetry
\* The clock stops at MaxTime and attempt ids run out: the bounded store stops.
CHECK_DEADLOCK FALSE

PROPERTIES
    ImplementsRounds

CONSTANTS
    Targets = {t1}
    Attempts = {a1, a2}
    Versions = {v1, v2}
    NoAttempt = NoAttempt
    NoTarget = NoTarget
    NoVersion = NoVersion
    LeaseSeconds = 2
    DispatchTimeout = 2
    FailureCooldown = 2
    Skew = 1
    MaxTime = 3

SPECIFICATION Spec
SYMMETRY Symmetry
\* The clock stops at MaxTime and attempt ids run out: the bounded store stops.
CHECK_DEADLOCK FALSE

INVARIANTS
    ActiveOwnsTarget
    DeliveryKeysUnique
    QueuedHasItsRow
    ResultIsNewestCompleted

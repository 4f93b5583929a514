CONSTANTS
    Targets = {t1, t2}
    Versions = {v1}
    Tokens = {k1}
    Requests = {r1, r2}
    Windows <- HourAndDay
    Limit <- OneAndTwo
    NoVersion = NoVersion

SPECIFICATION Spec

INVARIANTS
    CreationsWithinLimit

CONSTANTS
    Targets = {t1}
    Versions = {v1, v2}
    Tokens = {k1}
    Requests = {r1, r2}
    Windows <- HourOnly
    Limit <- One
    NoVersion = NoVersion

SPECIFICATION FairSpec

INVARIANTS
    CreationsAreShared
PROPERTIES
    RequestsAnswered

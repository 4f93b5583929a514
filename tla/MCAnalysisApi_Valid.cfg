CONSTANTS
    Targets = {t1}
    Versions = {v1}
    Tokens = {k1}
    Requests = {r1, r2}
    Windows <- HourAndDay
    Limit <- OneAndTwo
    NoVersion = NoVersion

SPECIFICATION Spec
PROPERTIES
    CompletedNotQueued

CONSTANTS
    MaxRetries = 2
    Answers <- SomeAnswers

SPECIFICATION Spec

\* The run ends, and with it everything it started.
CHECK_DEADLOCK FALSE

INVARIANTS
    TypeOK
    AcceptedWithinLimit
    CommandsAreOver
    PublishedAfterCleanup
    TimeoutStopsWork
    ResultFollowsEvidence
    FailureTellsWhy

PROPERTY RunEnds

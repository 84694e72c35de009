SPECIFICATION FairSpec
CONSTANTS
    MaxBatch = 4
    MaxWorkers = 2
    MaxSteps = 3
INVARIANTS
    FailureIsContained
    ResultsAreTheRows
    EventsFollowRows
PROPERTIES
    AuditLog
    BatchEnds
CHECK_DEADLOCK FALSE

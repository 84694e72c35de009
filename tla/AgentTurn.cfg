SPECIFICATION FairSpec
CONSTANTS
    DataTool = {"list_metrics"}
    Responses <- SomeResponses
    HistoryLen = 2
    MaxSteps = 3
    MaxRetries = 2
    MaxFaults = 1
INVARIANTS
    RowsAreTheTurn
    NothingLost
    ErrorFrameIffRaised
    CallsAnswered
    TurnEndsOnce
    TailRetellsTurn
PROPERTIES
    ProducerEnds
CHECK_DEADLOCK FALSE

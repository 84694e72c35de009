SPECIFICATION FairSpec
CONSTANTS
    DataTool = {"list_metrics"}
    Responses <- SomeResponses
    HistoryLen = 2
    MaxSteps = 1
    MaxRetries = 0
    MaxFaults = 0
PROPERTIES
    ConsumerEnds
CHECK_DEADLOCK FALSE

SPECIFICATION FairSpec
CONSTANTS
    Instance = {i1}
    Conn = {c1, c2}
    Thread = {th1}
    FromSeq = {0}
    None = None
    Window = 20
    MaxTurns = 2
    MaxRows = 1
    MaxCrashes = 1
    MaxFaults = 1
PROPERTIES
    EveryTurnSettles
    EveryTailEnds
CHECK_DEADLOCK FALSE

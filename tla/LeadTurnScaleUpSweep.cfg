SPECIFICATION Spec
CONSTANTS
    Instance = {i1, i2}
    Conn = {c1}
    Thread = {th1}
    FromSeq = {0}
    None = None
    Window = 20
    MaxTurns = 1
    MaxRows = 1
    MaxCrashes = 0
    MaxFaults = 0
PROPERTIES
    SweepOnlyOrphans
CHECK_DEADLOCK FALSE

SPECIFICATION Spec
CONSTANTS
    Instance = {i1, i2}
    Conn = {c1, c2}
    Thread = {th1}
    FromSeq = {0}
    None = None
    Window = 20
    MaxTurns = 2
    MaxRows = 2
    MaxCrashes = 0
    MaxFaults = 0
SYMMETRY InterchangeableProcesses
INVARIANTS
    OneRunningPerProcess
    TailExact
    TailComplete
PROPERTIES
    StatusLatched
CHECK_DEADLOCK FALSE

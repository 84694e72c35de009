SPECIFICATION Spec
CONSTANTS
    Instance = {i1}
    Conn = {c1, c2}
    Thread = {th1}
    FromSeq = {0, 1}
    None = None
    Window = 2
    MaxTurns = 2
    MaxRows = 2
    MaxCrashes = 1
    MaxFaults = 2
SYMMETRY InterchangeableConns
INVARIANTS
    PipelineInv
    AtMostOneRunning
    HistorySeesEarlierTurns
    CompleteIsSealed
PROPERTIES
    ImplementsTurnLog
CHECK_DEADLOCK FALSE

SPECIFICATION Spec
CONSTANTS
    Thread = {t1}
    Known = {}
    Content = {q1}
    Conn = {c1, c2}
    NoThread = NoThread
    NoConn = NoConn
    What = {"clarify", "answer"}
    MaxRows = 1
    MaxAsks = 2
    MaxFaults = 1
    MaxReloads = 1
    MaxWork = 4
INVARIANTS
    LockHasStream
    CaughtUp
SYMMETRY Symmetric
CHECK_DEADLOCK FALSE

SPECIFICATION Spec
CONSTANTS
    Thread = {t1}
    Known = {}
    Content = {q1}
    Conn = {c1, c2}
    NoThread = NoThread
    NoConn = NoConn
    What = {"step", "clarify", "prose", "answer"}
    MaxRows = 1
    MaxAsks = 1
    MaxFaults = 0
    MaxReloads = 1
    MaxWork = 4
INVARIANT AnswerPopulates
SYMMETRY Symmetric
CHECK_DEADLOCK FALSE

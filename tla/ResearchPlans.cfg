SPECIFICATION FairSpec
CONSTANTS
    Lead = {l1, l2}
    Thread = {th1}
    ThreadOf <- SameThread
    Request = {r1}
    Key = {k1, k2}
    MaxVersions = 3
    MaxNotes = 2
    MaxFaults = 1
INVARIANTS
    ActiveIsLatest
    NotesDense
    NoWaitCycle
PROPERTIES
    AbortIsFinal
    EveryCallReturns
CHECK_DEADLOCK FALSE

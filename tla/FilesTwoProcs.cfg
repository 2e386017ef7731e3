SPECIFICATION Spec
CONSTANTS
    t1 = t1
    t2 = t2
    p1 = p1
    p2 = p2
    k1 = k1
    k2 = k2
    k3 = k3
    NoKey = NoKey
    Threads <- TwoThreads
    Procs <- TwoProcs
    ProcOf <- OwnProc
    Keys = {k1}
    FileSize = 2
    Capacity = 1
    MaxGets = 1
INVARIANTS
    EntriesKept
CHECK_DEADLOCK FALSE

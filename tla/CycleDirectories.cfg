SPECIFICATION Spec
CONSTANTS
    t1 = t1
    t2 = t2
    p1 = p1
    Threads <- TwoThreads
    Procs <- OneProc
    ProcOf <- SameProc
    Format = 2
    CycleLength = 3600000
    Slots = 2
    FirstCycle = 23
    LastCycle = 25
    Strays <- OtherNames
    Overflowed <- BelowZero
SYMMETRY Symmetric
INVARIANTS
    DirsTypeOK
    OwnDirectory
    FirstCycleFound
    LastCycleFound
CHECK_DEADLOCK FALSE

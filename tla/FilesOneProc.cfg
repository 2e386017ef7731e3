SPECIFICATION FairSpec
CONSTANTS
    t1 = t1
    t2 = t2
    p1 = p1
    p2 = p2
    k1 = k1
    k2 = k2
    k3 = k3
    NoKey = NoKey
    Threads <- TwoThreads
    Procs <- OneProc
    ProcOf <- SameProc
    Keys = {k1, k2, k3}
    FileSize = 2
    Capacity = 2
    MaxGets = 2
INVARIANTS
    RegionFilesTypeOK
    EntriesKept
    MappedFilesWhole
    KeepsMostRecent
PROPERTIES
    LockReleased
CHECK_DEADLOCK FALSE

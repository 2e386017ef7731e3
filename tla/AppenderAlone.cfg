SPECIFICATION AppenderSpec
CONSTANTS
    a1 = a1
    a2 = a2
    p1 = p1
    NoEntry = NoEntry
    Writers <- OneAppender
    Procs <- OneProc
    ProcOf <- Alone
    MaxCycle = 1
    MaxExcerpts = 3
    Threads = {1, 3}
    ThreadsOf <- MovingAlone
    ThreadRange = 4
    DataBlockSize = 16
    OffsetRange = 64
    MaxDataFiles = 3
    Capacities = {1, 5}
    RegionIds = {1, 2, 3}
INVARIANTS
    DataTypeOK
    PublishedIntact
    BufferFits
CHECK_DEADLOCK FALSE

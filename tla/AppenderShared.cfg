SPECIFICATION AppenderSpec
CONSTANTS
    a1 = a1
    a2 = a2
    p1 = p1
    NoEntry = NoEntry
    Writers <- TwoAppenders
    Procs <- OneProc
    ProcOf <- SameProc
    MaxCycle = 0
    MaxExcerpts = 2
    Threads = {1, 2}
    ThreadsOf <- SharedThread
    ThreadRange = 4
    DataBlockSize = 8
    OffsetRange = 32
    MaxDataFiles = 4
    Capacities = {3}
    RegionIds = {1, 2, 3, 4}
INVARIANTS
    PublishedIntact
CHECK_DEADLOCK FALSE

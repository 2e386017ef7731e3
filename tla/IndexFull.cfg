SPECIFICATION FairSpec
CONSTANTS
    a1 = a1
    a2 = a2
    p1 = p1
    p2 = p2
    NoEntry = NoEntry
    Appenders <- TwoAppenders
    Procs <- TwoProcs
    ProcOf <- EachItsProc
    MaxCycle = 0
    MaxIndexFiles = 1
    SlotsPerFile = 3
    EntriesPerCycle = 3
    RegionIds = {1, 2, 3, 4}
    MaxExcerpts = 2
INVARIANTS
    NoGaps
    ThrowsOnlyWhenFull
PROPERTIES
    FinishReturns
CHECK_DEADLOCK FALSE

SPECIFICATION Spec
CONSTANTS
    a1 = a1
    a2 = a2
    p1 = p1
    p2 = p2
    NoEntry = NoEntry
    Appenders <- TwoAppenders
    Procs <- OneProc
    ProcOf <- SameProc
    MaxCycle = 1
    MaxIndexFiles = 2
    SlotsPerFile = 2
    EntriesPerCycle = 4
    RegionIds = {1, 2, 3, 4, 5, 6}
    MaxExcerpts = 2
INVARIANTS
    TypeOK
    NoGaps
    HintsSound
    PublishedOnce
    WriterOrder
    LwiIsReadable
    LwiCoversFinished
PROPERTIES
    ImplementsLog
    LwiMonotonic
CHECK_DEADLOCK FALSE

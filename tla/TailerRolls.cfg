SPECIFICATION TailerSpec
CONSTANTS
    w1 = w1
    w2 = w2
    Writers <- OneWriter
    MaxCycle = 1
    MaxExcerpts = 3
    FirstCycle = 1
    MaxIndexFiles = 1
    SlotsPerFile = 4
    EntriesPerCycle = 4
    ExcerptsPerFile = 2
    Calls = {"next_index", "to_start", "to_end", "index"}
INVARIANTS
    TailerTypeOK
    LastIndexIsLast
CHECK_DEADLOCK FALSE

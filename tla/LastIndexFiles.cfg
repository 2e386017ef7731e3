SPECIFICATION TailerSpec
CONSTANTS
    w1 = w1
    w2 = w2
    Writers <- OneWriter
    MaxCycle = 0
    MaxExcerpts = 3
    FirstCycle = 1
    MaxIndexFiles = 2
    SlotsPerFile = 2
    EntriesPerCycle = 4
    ExcerptsPerFile = 1
    Calls = {"next_index", "to_end"}
INVARIANTS
    LastIndexIsLast
CHECK_DEADLOCK FALSE

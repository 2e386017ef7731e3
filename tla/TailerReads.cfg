SPECIFICATION PollingSpec
CONSTANTS
    w1 = w1
    w2 = w2
    Writers <- TwoWriters
    MaxCycle = 1
    MaxExcerpts = 2
    FirstCycle = 1
    MaxIndexFiles = 2
    SlotsPerFile = 2
    EntriesPerCycle = 4
    ExcerptsPerFile = 1
    Calls = {"next_index", "to_start"}
INVARIANTS
    ReadsPublished
    DeliversInOrder
PROPERTIES
    CatchesUp
CHECK_DEADLOCK FALSE

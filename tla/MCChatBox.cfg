CONSTANTS
    t1 = t1
    t2 = t2
    Blank = Blank
    NoCall = NoCall
    Text <- MCText
    Batches <- MCBatches
    Interval = 1
    ClearDelay = 1
    RecentLimit = 1
    MaxPending = 1
    Throttle = 1
    FormatterLimit = 1
    MaxClears = 1
SPECIFICATION Spec
INVARIANTS
    NothingVanishes
    DisplayMatchesReport
    NoUseAfterDelete
PROPERTIES
    EveryTextShown
    ShutdownEnds

CONSTANTS
    t1 = t1
    t2 = t2
    t3 = t3
    Blank = Blank
    NoCall = NoCall
    Text <- MCText
    Batches <- MCBatches
    Interval = 2
    ClearDelay = 3
    RecentLimit = 2
    MaxPending = 3
SPECIFICATION FairQueueSpec
INVARIANTS
    NoDuplicates
    SendsTheFront
PROPERTIES
    RefinesContract
    Blanked

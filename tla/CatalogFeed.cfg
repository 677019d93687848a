SPECIFICATION FeedFairSpec
CONSTANTS
    f1 = f1
    f2 = f2
    d1 = d1
    t1 = t1
    t2 = t2
    Events = {1,2,3,4,5}
    Lines <- Invoices
    InvoiceDate <- Dates
    Foreign = {5}
    Undecodable = {4}
    Tracks = {t1, t2}
    Feeds = {f1,f2}
    Backlog = {2,3,5}
    Dispatchers = {d1}
    Settle = 2
    CommitDelay = 1
    BatchSize = 2
    MaxInt = 5
    MaxTries = 1
    MaxTime = 3
    MaxFaults = 1
    Free = Free
INVARIANTS
    SalesAreExact
    CursorSkipsNothing
PROPERTIES
    EveryEventCounted
CHECK_DEADLOCK FALSE

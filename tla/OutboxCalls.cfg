SPECIFICATION Spec
CONSTANTS
    e1 = e1
    e2 = e2
    e3 = e3
    e4 = e4
    i1 = i1
    i2 = i2
    missing = missing
    catalog = catalog
    admin = admin
    Events = {e1, e2, e3, e4}
    Invoices = {i1, i2}
    InvoiceOf <- RacingCalls
    Handlers = {catalog, admin}
    Subscriptions <- BothHandlers
    Unregistered = {admin}
    Undecodable = {e1}
    Panicking = {e3}
    Dispatchers = {d1}
    RetryDelays <- OneDelay
    BatchSize = 2
    MaxFaults = 1
    NoEvent = NoEvent
INVARIANTS
    PublishedOnce
    AnswersAreTrue
    UndeliverableNeverSettles
CHECK_DEADLOCK FALSE

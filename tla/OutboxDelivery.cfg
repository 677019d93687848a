SPECIFICATION Spec
CONSTANTS
    e1 = e1
    e2 = e2
    e3 = e3
    e4 = e4
    i1 = i1
    i2 = i2
    missing = missing
    catalog = catalog
    admin = admin
    Events = {e1, e2}
    Invoices = {i1, i2}
    InvoiceOf <- TwoInvoices
    Handlers = {catalog, admin}
    Subscriptions <- BothHandlers
    Unregistered = {}
    Undecodable = {}
    Panicking = {}
    Dispatchers = {d1, d2}
    RetryDelays <- OneDelay
    BatchSize = 2
    MaxFaults = 1
    NoEvent = NoEvent
SYMMETRY DispatcherSymmetry
INVARIANTS
    AppliedOnce
    ProcessedMeansHandled
    BatchesAreIsolated
PROPERTIES
    ImplementsDelivery
CHECK_DEADLOCK FALSE

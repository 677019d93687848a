SPECIFICATION FairSpec
CONSTANTS
    e1 = e1
    e2 = e2
    e3 = e3
    e4 = e4
    i1 = i1
    i2 = i2
    missing = missing
    catalog = catalog
    admin = admin
    Events = {e1}
    Invoices = {i1}
    InvoiceOf <- OneInvoice
    Handlers = {catalog}
    Subscriptions <- OneHandler
    Unregistered = {}
    Undecodable = {}
    Panicking = {e1}
    Dispatchers = {d1}
    RetryDelays <- OneDelay
    BatchSize = 2
    MaxFaults = 0
    NoEvent = NoEvent
PROPERTIES
    EveryRowSettles
CHECK_DEADLOCK FALSE

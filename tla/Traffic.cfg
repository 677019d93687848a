SPECIFICATION TrafficSpec
CONSTANTS
    here = here
    there = there
    h1 = h1
    h2 = h2
    h3 = h3
    h4 = h4
    h5 = h5
    t1 = t1
    Requests = {h1, h2, h3, h4, h5, t1}
    Partitions = {here, there}
    PartitionOf <- TwoAddresses
    Impatient = {h1, h2, h3, h4, h5}
    PermitLimit = 1
    QueueLimit = 2
    Window = 2
    MaxTime = 4
    Hosts <- MCHosts
    Incoming <- MCRequests
    InMemoryUsers <- MCUsers
    Trimmed <- MCTrimmed
    Lowercase <- MCLowercase
    NoTrace = "no trace"
    Minted = "minted"
    Fresh = "fresh"
    None = None
    Anonymous = Anonymous
CHECK_DEADLOCK FALSE
SYMMETRY HereSymmetry
INVARIANTS
    
    PlacesCounted
    AnswersAreDeclared
    EveryAnswerIsWrapped
    OnlyTheEntitledRun
PROPERTY WaitersFirst

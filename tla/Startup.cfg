SPECIFICATION StartupFairSpec
CONSTANTS
    h1 = h1
    h2 = h2
    h3 = h3
    Hosts = {h1, h2, h3}
    Settings <- StartedAs
    PortOf <- OnePort
    MigrationOrder <- Order
    Versions <- TwoOfCatalog
    ReadBy <- ReportingReadsTheRest
    MaxStops = 1
    MaxFaults = 1
    Nobody = Nobody
    Anonymous = Anonymous
    Environments = {"Development", "Production"}
    Orderings <- MCOrderings
    Mistakes <- MCMistakes
    Lowered <- MCLowered
    HostEnvironments = {"Development", "Production"}
    Files <- MCFiles
    Variables <- MCVariables
    Lower <- MCLower
    Index <- MCIndex
CHECK_DEADLOCK FALSE
INVARIANTS
    SeededOnce
    OneDevKey
    WiringIsComplete
    LayersResolve
PROPERTY EveryHostStarts

SPECIFICATION IntegrityFairSpec
CONSTANTS
    h1 = h1
    h2 = h2
    Hosts = {h1, h2}
    ORPHAN_CHECKS <- Checks
    Reference <- References
    Targets <- There
    Null = Null
    MaxChanges = 3
    MaxFaults = 1
INVARIANTS
    RunsAreExact
PROPERTIES
    FindingsConverge
CHECK_DEADLOCK FALSE

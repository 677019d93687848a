SPECIFICATION BothSpec
CONSTANTS
    alice = alice
    bob = bob
    la = la
    lb = lb
    fa1 = fa1
    fa2 = fa2
    oa = oa
    Logins = {la, lb}
    Refreshes = {fa1, fa2}
    Logouts = {oa}
    Users = {alice, bob}
    UserOf <- Naming
    Lifetime = 2
    PurgeInterval = 1
    MaxTime = 3
    MaxRestarts = 1
    k1 = k1
    k2 = k2
    c1 = c1
    c2 = c2
    Keys = {k1, k2}
    Callers = {c1, c2}
    RefreshInterval = 3
    MissInterval = 2
    FetchTimeout = 1
    NotYet = NotYet
    Nobody = Nobody
CHECK_DEADLOCK FALSE
SYMMETRY RefreshSymmetry
INVARIANTS
    OneTokenPerSession
    LogoutEndsSession
    GoodTokensKept
    WithdrawnKeysExpire
    CurrentKeyIsLearned

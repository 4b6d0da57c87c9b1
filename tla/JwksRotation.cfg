CONSTANTS
    vault = vault
    admin = admin
    r1 = r1
    r2 = r2
    r3 = r3
    jv = jv
    ja = ja
    dv = dv
    k1 = k1
    k2 = k2
    k3 = k3
    Contexts = {vault, admin}
    Requests = {}
    JwksTasks = {jv, ja}
    DiscoveryTasks = {dv}
    CtxOf <- MCCtxOf
    Keys = {k1, k2, k3}
    KeyChoices <- MCKeyChoices
    Uris <- MCUris
    Interval = 1
    FetchTimeout = 1
    Stall = 0
    StartTime = 1
    MaxTime = 1
    MaxRotations = 2
SPECIFICATION FairSpec
INVARIANTS
    TypeOK
    DisjointUnlessRaced
PROPERTIES
    ContextsConverge
CHECK_DEADLOCK FALSE

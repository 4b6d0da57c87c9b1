CONSTANTS
    vault = vault
    admin = admin
    r1 = r1
    r2 = r2
    r3 = r3
    jv = jv
    ja = ja
    dv = dv
    k1 = k1
    k2 = k2
    k3 = k3
    Contexts = {vault, admin}
    Requests = {}
    JwksTasks = {jv, ja}
    DiscoveryTasks = {}
    CtxOf <- MCCtxOf
    Keys = {k1, k2, k3}
    KeyChoices <- MCKeyChoices
    Uris <- OneUri
    Interval = 1
    FetchTimeout = 1
    Stall = 0
    StartTime = 1
    MaxTime = 2
    MaxRotations = 2
SPECIFICATION Spec
INVARIANT AlwaysDisjoint
CHECK_DEADLOCK FALSE

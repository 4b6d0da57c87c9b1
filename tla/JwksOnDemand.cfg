CONSTANTS
    vault = vault
    admin = admin
    r1 = r1
    r2 = r2
    r3 = r3
    jv = jv
    ja = ja
    dv = dv
    k1 = k1
    k2 = k2
    k3 = k3
    Contexts = {vault, admin}
    Requests = {r1, r2}
    JwksTasks = {}
    DiscoveryTasks = {}
    CtxOf <- MCCtxOf
    Keys = {k1, k2, k3}
    KeyChoices <- VaultRotates
    Uris <- OneUri
    Interval = 2
    FetchTimeout = 1
    Stall = 1
    StartTime = 2
    MaxTime = 5
    MaxRotations = 1
SPECIFICATION FairSpec
INVARIANTS
    FlightsApart
    LimitedRetryAfterCompletion
PROPERTIES
    OneClaimPerWindow
    SetBackOnlyWhenOvertaken
    EveryCallerAnswered
CHECK_DEADLOCK FALSE

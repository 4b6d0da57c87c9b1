SPECIFICATION FairSpec
CONSTANTS
    Workers = {w1, w2}
    Audiences = {vault}
    Jtis = {j1}
    Iats = {3}
    Never = Never
    NoProof = NoProof
    Freshness = 2
    Skew = 1
    Window = 6
    MaxEntries = 1
    MaxInstant = 12
    Stall = 1
    Lag = 1
    MaxTime = 12
    MaxBoots = 1
    Watched <- AllWatched
INVARIANTS
    AcceptedOnce
    EvictionIsTimely
PROPERTIES
    ReuseBounded
    EveryRequestAnswered
    ExpiredIsEvicted
CHECK_DEADLOCK FALSE

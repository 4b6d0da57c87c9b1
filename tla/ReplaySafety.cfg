SPECIFICATION Spec
CONSTANTS
    Workers = {w1, w2}
    Audiences = {vault, admin}
    Jtis = {j1}
    Iats = {1, 5}
    Never = Never
    NoProof = NoProof
    Freshness = 1
    Skew = 1
    Window = 5
    MaxEntries = 1
    MaxInstant = 20
    Stall = 1
    Lag = 1
    MaxTime = 11
    MaxBoots = 1
    Watched <- NoneWatched
SYMMETRY Symmetry
INVARIANTS
    TypeOK
    EveryEntryExpires
    EveryTokenIsCurrent
PROPERTIES
    RejectionJustified
    ImplementsCache
CHECK_DEADLOCK FALSE

SPECIFICATION Spec
CONSTANTS
    Workers = {w1, w2}
    Audiences = {vault}
    Jtis = {j1}
    Iats = {1}
    Never = Never
    NoProof = NoProof
    Freshness = 1
    Skew = 1
    Window = 2
    MaxEntries = 1
    MaxInstant = 20
    Stall = 0
    Lag = 1
    MaxTime = 6
    MaxBoots = 0
    Watched <- NoneWatched
INVARIANT AcceptedOnce
CHECK_DEADLOCK FALSE

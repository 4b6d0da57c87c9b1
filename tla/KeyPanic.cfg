SPECIFICATION FairSpec
CONSTANTS
    None = None
    MaxI64 = 131071
    MaxU64 = 262143
    MaxUsize = 131071
    Kids = {"i", "j"}
    NoKid = NoKid
    Material = {"m", "n"}
    Sources <- OneSource
    Documents <- MCDocuments
    MaxRefreshes = 1
CHECK_DEADLOCK FALSE
INVARIANT
    NeverPanics

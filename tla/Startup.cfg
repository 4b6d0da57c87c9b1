SPECIFICATION FairSpec
CONSTANTS
    None = None
    MaxI64 = 131071
    MaxU64 = 262143
    MaxUsize = 131071
    Kids = {"i", "j"}
    NoKid = NoKid
    Material = {"m", "n"}
    Sources <- MCSources
    Documents <- MCDocuments
    MaxRefreshes = 3
\* The process may have exited, and the bound on refreshes be reached.
CHECK_DEADLOCK FALSE
INVARIANTS
    TypeOK
    PlacementIrrelevant
    AcceptedConfigIsSound
    CacheIsOfOneDocument
    NoSharedKeys
PROPERTY
    FetchesEnd

SPECIFICATION FairSpec
CONSTANTS
    Procs = {p1, p2}
    Conns = {c1}
    Nobody = Nobody
    MaxStarts = 3
\* Every process may be gone and the bound on starts reached.
CHECK_DEADLOCK FALSE
INVARIANTS
    TypeOK
    CompletedExactlyOnce
    SignalsAreHandled
    ProbeAccountedFor
PROPERTIES
    CleanMeansDrained
    SignalEndsServer

SPECIFICATION Spec
CONSTANTS
    Calls = {c1, c2}
    Ids = {b1}
    Payloads = {p1, p2}
    NoBlock = NoBlock
    MaxCrashes = 2
SYMMETRY Symmetry
INVARIANTS
    TypeOK
    NeverTorn
    TempsAccountedFor
PROPERTIES
    ImplementsAtomicBlocks

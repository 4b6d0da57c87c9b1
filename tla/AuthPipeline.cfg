SPECIFICATION Spec
CONSTANTS
    k1 = k1
    k2 = k2
    holder = holder
    thief = thief
    r1 = r1
    r2 = r2
    Requests = {r1, r2}
    Arrivals <- MCArrivals
    Keys = {k1, k2}
    Capacity = 1
    Freshness = 1
    Skew = 1
    Window = 2
    MaxInstant = 5
    Nothing = Nothing
    MaxTime = 5
    MaxRotations = 1
INVARIANTS
    TypeOK
    OnlyEntitledAreServed
PROPERTIES
    NoEntitledRefused
    JtiSpentByAdmission
    PressureOnlyForNew
    UnservedIsNotFound

\* Two fields, one of them important, a stored memory, four days, one fault.
SPECIFICATION FairSpec
CONSTANTS
    good = good
    bad = bad
    Entries = {good, bad}
    Writes <- MCWrites
    AccessThreshold = 1
    Important = {}
    HalfLife = 2
    FloorDays = 2
    GraceDays = 1
    Lifetimes = {1}
    Never = Never
    MaxAccess = 2
    MaxRows = 2
    MaxDay = 3
    MaxStores = 1
    MaxFaults = 1
INVARIANTS
    NothingLost
    PromotedOnce
PROPERTIES
    RemovedIsStale
    WorthyIsPromoted
CHECK_DEADLOCK FALSE

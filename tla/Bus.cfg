\* Two consumers and a replayer; any command may fail, any party may stop.
SPECIFICATION FairSpec
CONSTANTS
    Events = {plain, broken}
    Malformed = {broken}
    Consumers = {c1, c2}
    Replayers = {r1}
    BatchSize = 2
    Count = 2
    MaxLog = 3
    MaxFaults = 1
    MaxStops = 1
INVARIANTS
    AckedIsHandled
    PendingOrAcked
    CopiedBeforeDeleted
PROPERTIES
    Settled
CHECK_DEADLOCK FALSE

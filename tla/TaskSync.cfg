\* Three hooks, batches of two, errors and restarts.
SPECIFICATION FairSpec
CONSTANTS
    Events = {e1, e2, e3}
    Limit = 2
    MaxFaults = 2
    MaxStarts = 2
INVARIANTS
    PublishedInOrder
PROPERTIES
    ImplementsOutbox
    EventuallySynced
CHECK_DEADLOCK FALSE

\* One message whose body raises, a single consumer.
SPECIFICATION FairSpec
CONSTANTS
    Events = {plain}
    Malformed = {}
    Consumers = {c1}
    Replayers = {}
    BatchSize = 2
    Count = 2
    MaxLog = 1
    MaxFaults = 1
    MaxStops = 1
PROPERTIES
    FailedIsDeadLettered
CHECK_DEADLOCK FALSE

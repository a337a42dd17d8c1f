\* Two callers at once, storms from outside and from the watchdogs, a crash.
SPECIFICATION Spec
CONSTANTS
    first = first
    second = second
    Items = {first}
    DependsOn <- NoDependencies
    Loops = {l1, l2}
    Clients = {c1, c2}
    Calls = {"start", "cancel", "storm"}
    Alarms = {"storm"}
    Outcomes = {"success"}
    AgentMoves <- NoMoves
    LateReceipts = TRUE
    DepsFirst = TRUE
    MaxFaults = 0
    MaxCrashes = 1
    NoTask = NoTask
INVARIANT SuspendedIsExplained
SYMMETRY TaskSymmetry
CHECK_DEADLOCK FALSE

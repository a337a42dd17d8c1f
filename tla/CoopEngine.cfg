\* One caller, and watchdogs that raise no storm: restarts, cancels and failures.
SPECIFICATION Spec
CONSTANTS
    first = first
    second = second
    Items = {first, second}
    DependsOn <- MCDependsOn
    Loops = {l1, l2}
    Clients = {c1}
    Calls = {"start", "add", "cancel"}
    Alarms = {}
    Outcomes = {"success", "failure"}
    AgentMoves <- AllMoves
    LateReceipts = TRUE
    DepsFirst = TRUE
    MaxFaults = 2
    MaxCrashes = 1
    NoTask = NoTask
INVARIANTS
    DependenciesFirst
    OneLoop
    CancelledIsStopped
    AnnouncedIsCompleted
SYMMETRY LoopSymmetry
CHECK_DEADLOCK FALSE

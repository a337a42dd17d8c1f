\* A cancel overlapping the loop's completion.
SPECIFICATION Spec
CONSTANTS
    first = first
    second = second
    Items = {first, second}
    DependsOn <- MCDependsOn
    Loops = {l1, l2}
    Clients = {c1}
    Calls = {"start", "cancel"}
    Alarms = {"alarm"}
    Outcomes = {"success", "failure"}
    AgentMoves <- PlainMoves
    LateReceipts = FALSE
    DepsFirst = TRUE
    MaxFaults = 0
    MaxCrashes = 0
    NoTask = NoTask
PROPERTIES
    StatusFollowsTable
CHECK_DEADLOCK FALSE

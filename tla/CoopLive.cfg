\* One caller that starts and extends the workflow; workers answer.
SPECIFICATION FairSpec
CONSTANTS
    first = first
    second = second
    Items = {first, second}
    DependsOn <- MCDependsOn
    Loops = {l1, l2}
    Clients = {c1}
    Calls = {"start", "add", "alarm"}
    Alarms = {"alarm"}
    Outcomes = {"success", "failure", "partial"}
    AgentMoves <- PlainMoves
    LateReceipts = FALSE
    DepsFirst = TRUE
    MaxFaults = 1
    MaxCrashes = 0
    NoTask = NoTask
PROPERTIES
    StatusFollowsTable
    RunningEnds
CHECK_DEADLOCK FALSE

\* One pipeline and one request under the name of one agent.
SPECIFICATION FairSpec
CONSTANTS
    fetch = fetch
    send = send
    lost = lost
    p1 = p1
    r1 = r1
    owner = owner
    NoTool = NoTool
    Pipelines = {p1}
    Requests = {r1}
    Callers = {p1, r1}
    EventTriggered = {p1}
    Agents = {owner}
    Tools = {fetch, send, lost}
    Handlers = {fetch, send}
    Configs <- MCConfigs
    DeclaredRisk <- MCDeclaredRisk
    AgentOf <- MCAgentOf
    HasCallback = TRUE
    HasPool = TRUE
    MaxAttempts = 2
    MaxRuns = 2
    MaxStarts = 2
    MaxFaults = 2
    MaxOverrides = 1
INVARIANTS
    NothingUnapproved
    DependenciesEnded
    CompletionIsTrue
    ReportsAreTrue
    AnswersAreTrue
PROPERTY
    RunsEnd
CHECK_DEADLOCK FALSE

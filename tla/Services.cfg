\* One part at a time; what the parts are given is in MCServices.
SPECIFICATION Spec
CONSTANTS
    auto = auto
    bad = bad
    c1 = c1
    c2 = c2
    c3 = c3
    d1 = d1
    f1 = f1
    f2 = f2
    f3 = f3
    junk = junk
    none = none
    r1 = r1
    r2 = r2
    w1 = w1
    w2 = w2
    Calls = {c1, c2}
    None = none
    MaxFaults = 1
    MaxClock = 2
    \* Compute routing
    NewRules <- MCNewRules
    YesSets = {{}, {"q03", "q08"}}
    Questions = 3
    MaxRoutingCalls = 5
    \* Plex transfers: a download of two files, three calls
    Downloads = {d1}
    Files = {f1, f2}
    Nested = {f2}
    Transfers = {c1, c2, c3}
    MaxTransfers = 3
    \* The media sorter
    Releases = {1, 2}
    Content <- MCContent
    Junk = {junk}
    Title <- MCTitle
    Sorters = {r1, r2}
    MaxRuns = 3
    MaxRequests = 2
    \* Startup
    Wizards = {w1, w2}
    Environs <- MCEnvirons
    Answers <- MCAnswers
    MaxWizards = 2
    MaxStarts = 1
    \* Intake
    Messages <- MCMessages
    Type <- MCType
    Correlation <- MCCorrelation
    Class <- MCClass
    ListLimit = 1
    FreshLimit = 1
    MaxBackoff = 4
    MaxSends = 3
    MaxMoves = 3
    \* The audit trail: two records, two overlapping archives, three days
    Records = {r1, r2}
    Ages = {0, 1}
    \* Documents
    Docs = {d1}
    Texts <- MCTexts
    MaxChars = 5
    Overlap = 2
    MaxDocumentCalls = 4
    \* The watchdogs
    Items = {f1}
    Reports <- MCReports
    Budget = 5
    WarnPct = 80
    MinNotes = 2
    Window = 1
    MaxNotes = 1
    MaxReceipts = 1
    Timeout = 0
    NoteLimit = 2
    ReceiptLimit = 2
    \* Hardware
    Profiles <- MCProfiles
    Explicit <- MCExplicit
    Fans = {f1}
    Speeds = {auto, 50, 101}
    AutoSpeed = auto
    Bad = bad
    MaxHardwareCalls = 2
    \* Post-processing
    Jobs = {1, 2}
    JobFiles = {f1, f2, f3}
    Job <- MCJob
    Name <- MCName
    Folder <- MCTitle
    Exact = {1}
    Similar <- MCSimilar
    Limit = 2
    MaxChecks = 3
INVARIANTS
    RulesSurvive
    TransferKeepsAll
    ReleasesSurvive
    SettingsArrive
    RequestsArrive
    RecordsKept
    CatalogIsWhole
    AlarmsAreTrue
    AnswersMatchMachine
    DownloadsArrive
CHECK_DEADLOCK FALSE

\* One caller, two rounds: starts, synthesis, cancels, a critique made twice, a fault.
SPECIFICATION FairSpec
CONSTANTS
    Claims = {k1}
    Critiques = {x1}
    Loops = {l1, l2}
    Clients = {c1}
    Verdicts = {"accepted"}
    MaxRounds = 2
    ConvergencePct = 70
    NoteLimit = 2
    WindowSize = 2
    MinNotes = 2
    MinNoveltyPct = 60
    Storms = FALSE
    MaxAttacks = 2
    MaxCalls = 3
    MaxFaults = 1
    NoTask = NoTask
INVARIANTS
    OneDiscussion
    CancelledIsQuiet
    CompletedIsSynthesized
PROPERTIES
    LoopEnds
CHECK_DEADLOCK FALSE

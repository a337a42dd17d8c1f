------------------------------ MODULE Services ------------------------------
(***************************************************************************)
(* Ten parts around the engines that share nothing with each other.  A     *)
(* behaviour is one of a single part: the others stay in their initial     *)
(* states.                                                                 *)
(***************************************************************************)
EXTENDS Integers, Sequences, FiniteSets

CONSTANTS
    Calls,     \* calls, of any part, that may be under way at the same time
    None,      \* no file, nothing remembered, a parameter that is null
    MaxFaults, \* bound on the faults of a part
    MaxClock   \* bound on the moments or days that pass

VARIABLE part

Parts == {"routing", "transfer", "sorter", "startup", "intake", "audit", "documents",
          "watchdogs", "hardware", "post"}

-----------------------------------------------------------------------------
(* Compute routing.                                                        *)

CONSTANTS NewRules, YesSets, Questions, MaxRoutingCalls

VARIABLES file, session, routingCall, shown, spent, rulebook, routingOverlaps

Routing == INSTANCE ComputeRouting WITH
    Clients <- Calls, MaxCalls <- MaxRoutingCalls, Total <- Questions,
    call <- routingCall, overlaps <- routingOverlaps

RulesSurvive == Routing!RulesSurvive

-----------------------------------------------------------------------------
(* Plex transfers.                                                         *)

CONSTANTS Downloads, Files, Nested, Transfers, MaxTransfers

VARIABLES staged, stagedFiles, plex, depth, stale, transferCall, transferred, content,
          whole, purged

Transfer == INSTANCE PlexTransfer WITH
    Calls <- Transfers, MaxCalls <- MaxTransfers,
    files <- stagedFiles, library <- plex, call <- transferCall, used <- transferred

TransferKeepsAll == Transfer!TransferKeepsAll

-----------------------------------------------------------------------------
(* The media sorter.                                                       *)

CONSTANTS Releases, Content, Junk, Title, Sorters, MaxRuns, MaxRequests

VARIABLES queued, present, looseFiles, shelved, shelf, run, remote, sorted, arrived,
          condemned, sorterOverlaps

Sorter == INSTANCE MediaSorter WITH
    Runs <- Sorters, files <- looseFiles, library <- shelf, used <- sorted,
    overlaps <- sorterOverlaps

ReleasesSurvive == Sorter!ReleasesSurvive

-----------------------------------------------------------------------------
(* Startup.                                                                *)

CONSTANTS Wizards, Environs, Answers, MaxWizards, MaxStarts

VARIABLES env, yaml, complete, wizard, gateway, redisUp, started, kept, wizardOverlaps

Start == INSTANCE Startup WITH used <- started, overlaps <- wizardOverlaps

SettingsArrive == Start!SettingsArrive

-----------------------------------------------------------------------------
(* Intake.                                                                 *)

CONSTANTS Messages, Type, Correlation, Class, ListLimit, FreshLimit, MaxBackoff, MaxSends,
          MaxMoves

VARIABLES serverUp, socket, inbox, client, active, handling, rows, taken

Entrance == INSTANCE Intake WITH Window <- ListLimit, used <- taken

RequestsArrive == Entrance!RequestsArrive

-----------------------------------------------------------------------------
(* The audit trail.                                                        *)

CONSTANTS Records, Ages

VARIABLES day, made, insert, trail, archive, job, troubles, late

Audit == INSTANCE AuditTrail WITH Jobs <- Calls, clock <- day, faults <- troubles

RecordsKept == Audit!RecordsKept

-----------------------------------------------------------------------------
(* Documents.                                                              *)

CONSTANTS Docs, Texts, MaxChars, Overlap, MaxDocumentCalls

VARIABLES catalog, chunks, documentCall, count, dirty

Catalog == INSTANCE Documents WITH
    Clients <- Calls, MaxCalls <- MaxDocumentCalls, rows <- chunks, call <- documentCall

CatalogIsWhole == Catalog!CatalogIsWhole

-----------------------------------------------------------------------------
(* The watchdogs.                                                          *)

CONSTANTS Items, Reports, Budget, WarnPct, MinNotes, Window, MaxNotes, MaxReceipts, Timeout,
          NoteLimit, ReceiptLimit

VARIABLES clock, notes, receipts, item, applying, loop, suspended, interrupts, latest,
          looked

Dogs == INSTANCE Watchdogs

AlarmsAreTrue == Dogs!AlarmsAreTrue

-----------------------------------------------------------------------------
(* Hardware.                                                               *)

CONSTANTS Profiles, Explicit, Fans, Speeds, AutoSpeed, Bad, MaxHardwareCalls

VARIABLES setting, hardwareCall, last, tries

Hardware == INSTANCE HardwareControl WITH
    Auto <- AutoSpeed, MaxCalls <- MaxHardwareCalls, call <- hardwareCall, used <- tries

AnswersMatchMachine == Hardware!AnswersMatchMachine

-----------------------------------------------------------------------------
(* Post-processing.                                                        *)

CONSTANTS Jobs, JobFiles, Job, Name, Folder, Exact, Similar, Limit, MaxChecks

VARIABLES history, jobFolder, jobDirs, mangas, unfinished, doubled, lastCount, postRun, postUsed,
          got, tried, unheard, postOverlaps

Post == INSTANCE PostProcess WITH
    Files <- JobFiles, Title <- Folder, MaxRuns <- MaxChecks,
    folder <- jobFolder, dirs <- jobDirs, library <- mangas, part <- unfinished,
    last <- lastCount, run <- postRun, used <- postUsed, overlaps <- postOverlaps

DownloadsArrive == Post!DownloadsArrive

-----------------------------------------------------------------------------
routingVars == <<file, session, routingCall, shown, spent, rulebook, routingOverlaps>>
transferVars == <<staged, stagedFiles, plex, depth, stale, transferCall, transferred,
                  content, whole, purged>>
sorterVars == <<queued, present, looseFiles, shelved, shelf, run, remote, sorted, arrived,
                condemned, sorterOverlaps>>
startVars == <<env, yaml, complete, wizard, gateway, redisUp, started, kept,
               wizardOverlaps>>
intakeVars == <<serverUp, socket, inbox, client, active, handling, rows, taken>>
auditVars == <<day, made, insert, trail, archive, job, troubles, late>>
documentVars == <<catalog, chunks, documentCall, count, dirty>>
dogVars == <<clock, notes, receipts, item, applying, loop, suspended, interrupts, latest,
             looked>>
hardwareVars == <<setting, hardwareCall, last, tries>>
postVars == <<history, jobFolder, jobDirs, mangas, unfinished, doubled, lastCount, postRun,
              postUsed, got, tried, unheard, postOverlaps>>

servicesVars == <<routingVars, transferVars, sorterVars, startVars, intakeVars>>
recordsVars == <<auditVars, documentVars, dogVars, hardwareVars, postVars>>

vars == <<part, servicesVars, recordsVars>>

Init ==
    /\ part \in Parts
    /\ Routing!Init /\ Transfer!Init /\ Sorter!Init /\ Start!Init /\ Entrance!Init
    /\ Audit!Init /\ Catalog!Init /\ Dogs!Init /\ Hardware!Init /\ Post!Init
    /\ part # "routing" => file.is = "absent"
    /\ part # "sorter" => ~remote
    /\ part # "intake" => serverUp

ServicesStep ==
    \/ part = "routing" /\ Routing!Next
       /\ UNCHANGED <<transferVars, sorterVars, startVars, intakeVars>>
    \/ part = "transfer" /\ Transfer!Next
       /\ UNCHANGED <<routingVars, sorterVars, startVars, intakeVars>>
    \/ part = "sorter" /\ Sorter!Next
       /\ UNCHANGED <<routingVars, transferVars, startVars, intakeVars>>
    \/ part = "startup" /\ Start!Next
       /\ UNCHANGED <<routingVars, transferVars, sorterVars, intakeVars>>
    \/ part = "intake" /\ Entrance!Next
       /\ UNCHANGED <<routingVars, transferVars, sorterVars, startVars>>

RecordsStep ==
    \/ part = "audit" /\ Audit!Next
       /\ UNCHANGED <<documentVars, dogVars, hardwareVars, postVars>>
    \/ part = "documents" /\ Catalog!Next
       /\ UNCHANGED <<auditVars, dogVars, hardwareVars, postVars>>
    \/ part = "watchdogs" /\ Dogs!Next
       /\ UNCHANGED <<auditVars, documentVars, hardwareVars, postVars>>
    \/ part = "hardware" /\ Hardware!Next
       /\ UNCHANGED <<auditVars, documentVars, dogVars, postVars>>
    \/ part = "post" /\ Post!Next
       /\ UNCHANGED <<auditVars, documentVars, dogVars, hardwareVars>>

Next ==
    /\ UNCHANGED part
    /\ \/ ServicesStep /\ UNCHANGED recordsVars
       \/ RecordsStep /\ UNCHANGED servicesVars

Spec == Init /\ [][Next]_vars

ASSUME ServicesAssumption ==
    /\ Routing!RoutingAssumption /\ Transfer!PlexAssumption /\ Sorter!SorterAssumption
    /\ Entrance!IntakeAssumption /\ Audit!AuditAssumption /\ Catalog!DocumentsAssumption
    /\ Dogs!WatchdogsAssumption /\ Hardware!HardwareAssumption /\ Post!PostAssumption
=============================================================================

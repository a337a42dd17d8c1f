---------------------------- MODULE PostProcess ----------------------------
(***************************************************************************)
(* scripts/manga_postprocess.py moves the files of finished downloads from *)
(* SABnzbd's complete folder (external) to the manga library: once, when   *)
(* started by hand, or whenever its watch mode counts more completions     *)
(* than before.  Both may run together; a move may raise, a fetch of the   *)
(* history may fail, which looks like an empty history, and the watch may  *)
(* be killed and started again.                                            *)
(***************************************************************************)
EXTENDS Naturals, Sequences, FiniteSets

CONSTANTS
    Jobs,       \* downloads, also the directories SABnzbd makes for them
    Files,      \* their files
    Job,        \* the job of each file
    Name,       \* its name without the directories it is in
    Title,      \* sanitize_title of each job: its directory in the library
    Exact,      \* jobs that are named like their directories
    Similar,    \* directories that have a word of a job's name in theirs
    None,       \* no file
    Limit,      \* how many entries of the history are asked for
    MaxRuns,    \* bound on checks of the watch and on runs by hand
    MaxFaults   \* bound on failing fetches, raising moves and kills

PostAssumption ==
    /\ Job \in [Files -> Jobs]
    /\ DOMAIN Name = Files
    /\ DOMAIN Title = Jobs
    /\ \A j \in Jobs : j \in Similar[j] /\ Similar[j] \subseteq Jobs
    /\ Exact \subseteq Jobs
    /\ None \notin Files
    /\ {Limit, MaxRuns, MaxFaults} \subseteq Nat

VARIABLES
    history,  \* completed jobs, newest first
    folder,   \* files in the directory of each job
    dirs,     \* directories that exist
    library,  \* the file under each title and name
    part,     \* places in the library whose copy is not finished
    doubled,  \* places whose copy is whole and whose original the move has not removed
    last,     \* last_count of the watch
    run,      \* what the watch and a run by hand are doing
    used,     \* runs and faults so far
    got,      \* history: files SABnzbd has unpacked
    tried,    \* history: jobs that a process_download came to an end for
    unheard,  \* history: has a fetch failed?
    overlaps  \* history: have the two been at work together?

vars == <<history, folder, dirs, library, part, doubled, last, run, used, got, tried, unheard,
          overlaps>>

Runs == {"watch", "hand"}
Places == {Title[j] : j \in Jobs} \X {Name[f] : f \in Files}

Idle == [at |-> "idle", count |-> 0, todo |-> <<>>, dir |-> {}, left |-> {}, item |-> None,
         moved |-> FALSE]

Bounds == [runs |-> MaxRuns, faults |-> MaxFaults]

TypeOK ==
    /\ history \in Seq(Jobs)
    /\ folder \in [Jobs -> SUBSET Files]
    /\ dirs \subseteq Jobs
    /\ library \in [Places -> Files \cup {None}]
    /\ part \subseteq Places
    /\ doubled \subseteq Places
    /\ last \in Nat
    /\ run \in [Runs -> [at : {"idle", "fetch", "next", "file", "move", "copy", "unlink"},
                         count : Nat, todo : Seq(Jobs), dir : SUBSET Jobs, left : SUBSET Files,
                         item : Files \cup {None}, moved : BOOLEAN]]
    /\ used \in [DOMAIN Bounds -> Nat]
    /\ got \subseteq Files
    /\ tried \subseteq Jobs
    /\ {unheard, overlaps} \subseteq BOOLEAN

Init ==
    /\ history = <<>>
    /\ folder = [j \in Jobs |-> {}]
    /\ dirs = {}
    /\ library = [p \in Places |-> None]
    /\ part = {}
    /\ doubled = {}
    /\ last = 0
    /\ run = [r \in Runs |-> Idle]
    /\ used = [b \in DOMAIN Bounds |-> 0]
    /\ got = {}
    /\ tried = {}
    /\ unheard = FALSE
    /\ overlaps = FALSE

-----------------------------------------------------------------------------
(* Helpers.                                                                *)

Spend(b) == used[b] < Bounds[b] /\ used' = [used EXCEPT ![b] = @ + 1]

Set(r, new) == run' = [run EXCEPT ![r] = new]

\* get_sabnzbd_history
Slots == SubSeq(history, 1, IF Len(history) < Limit THEN Len(history) ELSE Limit)

\* The download that the run has in hand, and where its item goes.
Slot(r) == Head(run[r].todo)
Place(r, f) == <<Title[Slot(r)], Name[f]>>

\* The next slot of process_all.
NextSlot(r) == [run[r] EXCEPT !.at = "next", !.todo = Tail(@), !.dir = {}, !.left = {},
                              !.item = None, !.moved = FALSE]

ReadsOnly == UNCHANGED <<history, folder, dirs, library, part, doubled, got>>

-----------------------------------------------------------------------------
(* SABnzbd unpacks a job's files into its directory and records it.        *)

Unpack(f) ==
    /\ f \notin got
    /\ got' = got \cup {f}
    /\ dirs' = dirs \cup {Job[f]}
    /\ folder' = [folder EXCEPT ![Job[f]] = @ \cup {f}]
    /\ UNCHANGED <<history, library, part, doubled, last, run, used, tried, unheard, overlaps>>

Finish(j) ==
    /\ j \notin {history[i] : i \in DOMAIN history}
    /\ {f \in Files : Job[f] = j} \subseteq got
    /\ history' = <<j>> \o history
    /\ UNCHANGED <<folder, dirs, library, part, doubled, last, run, used, got, tried, unheard,
                   overlaps>>

-----------------------------------------------------------------------------
(* The script.                                                             *)

Begin(r, new) ==
    /\ Set(r, new)
    /\ overlaps' = (overlaps \/ \E q \in Runs \ {r} : run[q] # Idle)

\* Faulty variant: the count is remembered before the downloads are processed.
WakeRemembering(r) ==
    /\ r = "watch"
    /\ run[r] = Idle
    /\ Spend("runs")
    /\ last' = Len(Slots)
    /\ IF Len(Slots) > last
       THEN Begin(r, [Idle EXCEPT !.at = "fetch", !.count = Len(Slots)])
       ELSE UNCHANGED <<run, overlaps>>
    /\ UNCHANGED <<tried, unheard>>
    /\ ReadsOnly

\* watch_mode: the completions are counted; more than before are processed.
Wake(r) ==
    /\ r = "watch"
    /\ run[r] = Idle
    /\ Spend("runs")
    /\ LET count == Len(Slots)
       IN  IF count > last
           THEN Begin(r, [Idle EXCEPT !.at = "fetch", !.count = count]) /\ UNCHANGED last
           ELSE last' = count /\ UNCHANGED <<run, overlaps>>
    /\ UNCHANGED <<tried, unheard>>
    /\ ReadsOnly

\* The fetch fails: no completions.
WakeUnheard(r) ==
    /\ r = "watch"
    /\ run[r] = Idle
    /\ Spend("faults")
    /\ last' = 0
    /\ UNCHANGED <<run, tried, unheard, overlaps>>
    /\ ReadsOnly

StartByHand(r) ==
    /\ r = "hand"
    /\ run[r] = Idle
    /\ Spend("runs")
    /\ Begin(r, [Idle EXCEPT !.at = "fetch"])
    /\ UNCHANGED <<last, tried, unheard>>
    /\ ReadsOnly

\* process_all fetches the history for itself.
Fetch(r) ==
    /\ run[r].at = "fetch"
    /\ Set(r, [run[r] EXCEPT !.at = "next", !.todo = Slots])
    /\ UNCHANGED <<last, used, tried, unheard, overlaps>>
    /\ ReadsOnly

FetchFails(r) ==
    /\ run[r].at = "fetch"
    /\ Spend("faults")
    /\ Set(r, [run[r] EXCEPT !.at = "next"])
    /\ unheard' = TRUE
    /\ UNCHANGED <<last, tried, overlaps>>
    /\ ReadsOnly

\* process_download: the directory with the name, else the first one that has a word of it,
\* whosever it is.
Candidates(j) == IF j \in Exact \cap dirs THEN {j} ELSE Similar[j] \cap dirs

FindFiles(r) ==
    /\ run[r].at = "next"
    /\ run[r].todo # <<>>
    /\ \E d \in Candidates(Slot(r)) :
         Set(r, [run[r] EXCEPT !.at = "file", !.dir = {d}, !.left = folder[d]])
    /\ UNCHANGED <<last, used, tried, unheard, overlaps>>
    /\ ReadsOnly

NoDirectory(r) ==
    /\ run[r].at = "next"
    /\ run[r].todo # <<>>
    /\ Candidates(Slot(r)) = {}
    /\ Set(r, NextSlot(r))
    /\ tried' = tried \cup {Slot(r)}
    /\ UNCHANGED <<last, used, unheard, overlaps>>
    /\ ReadsOnly

\* dest.exists(), for the next file: it is skipped or moved.
CheckFile(r) ==
    /\ run[r].at = "file"
    /\ \E f \in run[r].left :
         Set(r, IF library[Place(r, f)] # None
                THEN [run[r] EXCEPT !.left = @ \ {f}]
                ELSE [run[r] EXCEPT !.at = "move", !.item = f])
    /\ UNCHANGED <<last, used, tried, unheard, overlaps>>
    /\ ReadsOnly

InFolder(r) == \E d \in run[r].dir : run[r].item \in folder[d]

\* shutil.move makes a copy, whatever is there by now.
BeginMove(r) ==
    /\ run[r].at = "move"
    /\ InFolder(r)
    /\ library' = [library EXCEPT ![Place(r, run[r].item)] = run[r].item]
    /\ part' = part \cup {Place(r, run[r].item)}
    /\ Set(r, [run[r] EXCEPT !.at = "copy"])
    /\ UNCHANGED <<history, folder, dirs, doubled, last, used, got, tried, unheard, overlaps>>

\* The copy is whole; the file is still in the folder, too.
EndCopy(r) ==
    /\ run[r].at = "copy"
    /\ part' = part \ {Place(r, run[r].item)}
    /\ doubled' = doubled \cup {Place(r, run[r].item)}
    /\ Set(r, [run[r] EXCEPT !.at = "unlink"])
    /\ UNCHANGED <<history, folder, dirs, library, last, used, got, tried, unheard, overlaps>>

\* The file is removed from the folder.
Unlink(r) ==
    /\ run[r].at = "unlink"
    /\ InFolder(r)
    /\ folder' = [d \in Jobs |-> folder[d] \ {run[r].item}]
    /\ doubled' = doubled \ {Place(r, run[r].item)}
    /\ Set(r, [run[r] EXCEPT !.at = "file", !.left = @ \ {run[r].item}, !.item = None,
                             !.moved = TRUE])
    /\ UNCHANGED <<history, dirs, library, part, last, used, got, tried, unheard, overlaps>>

\* The move raises, before the copy, in it or after it, also because the other one was
\* faster.  The watch goes back to sleep and has not counted what it was at.
MoveRaises(r) ==
    /\ run[r].at \in {"move", "copy", "unlink"}
    /\ IF run[r].at = "copy" \/ InFolder(r) THEN Spend("faults") ELSE UNCHANGED used
    /\ Set(r, Idle)
    /\ UNCHANGED <<last, tried, unheard, overlaps>>
    /\ ReadsOnly

\* The directory is removed when it is empty and something was moved.
EndDownload(r) ==
    /\ run[r].at = "file"
    /\ run[r].left = {}
    /\ dirs' = {d \in dirs : d \notin run[r].dir \/ ~run[r].moved \/ folder[d] # {}}
    /\ Set(r, NextSlot(r))
    /\ tried' = tried \cup {Slot(r)}
    /\ UNCHANGED <<history, folder, library, part, doubled, last, used, got, unheard, overlaps>>

EndRun(r) ==
    /\ run[r].at = "next"
    /\ run[r].todo = <<>>
    /\ Set(r, Idle)
    /\ last' = IF r = "watch" THEN run[r].count ELSE last
    /\ UNCHANGED <<used, tried, unheard, overlaps>>
    /\ ReadsOnly

\* A watch that is killed is started again.
Killed(r) ==
    /\ run[r] # Idle
    /\ Spend("faults")
    /\ Set(r, Idle)
    /\ last' = IF r = "watch" THEN 0 ELSE last
    /\ UNCHANGED <<tried, unheard, overlaps>>
    /\ ReadsOnly

-----------------------------------------------------------------------------
RunStep(r) ==
    \/ Fetch(r) \/ FindFiles(r) \/ NoDirectory(r) \/ CheckFile(r) \/ BeginMove(r)
    \/ EndCopy(r) \/ Unlink(r) \/ EndDownload(r) \/ EndRun(r)

Next ==
    \/ \E f \in Files : Unpack(f)
    \/ \E j \in Jobs : Finish(j)
    \/ \E r \in Runs :
         \/ Wake(r) \/ StartByHand(r) \/ RunStep(r)
         \/ WakeUnheard(r) \/ FetchFails(r) \/ MoveRaises(r) \/ Killed(r)

Spec == Init /\ [][Next]_vars

-----------------------------------------------------------------------------
(* Properties.                                                             *)

Removing == {Place(r, run[r].item) : r \in {q \in Runs : run[q].at = "unlink"}}

\* If the two runs were never at work together, no file is lost and no copy takes the place
\* of another: a copy that was never finished has its original, and a file that is whole in
\* more than one place owes each further one to a move that was cut off between the end of
\* the copy and the removal of the original (shutil.move), of which each took a fault.
WholeInOnePlace ==
    ~overlaps =>
      /\ \A f \in got :
           Cardinality({p \in Places \ (part \cup doubled) : library[p] = f})
             + Cardinality({d \in Jobs : f \in folder[d]}) = 1
      /\ Cardinality(doubled \ Removing) <= used["faults"]

\* What the sleeping watch has counted has been processed since it was completed, unless
\* a fetch failed or the history is longer than what is asked for.
CountedIsTried ==
    ~unheard /\ Len(history) <= Limit /\ run["watch"] = Idle =>
      \A i \in DOMAIN history : Len(history) - i < last => history[i] \in tried

DownloadsArrive == WholeInOnePlace /\ CountedIsTried
=============================================================================

---------------------------- MODULE MediaSorter ----------------------------
(***************************************************************************)
(* Manga and comics on their way into the libraries:                       *)
(* scripts/manga_downloader.py asks SABnzbd (external) for releases, and   *)
(* scripts/media-sorter.py, started after a download or by a timer, so     *)
(* that two runs may overlap, deletes lesser copies and junk and moves     *)
(* each release directory to its library with rsync.                       *)
(*                                                                         *)
(* Releases are numbered in the order of their directory names, in which   *)
(* a run handles them.  They are those that classify_dir recognises; the   *)
(* others stay where they are.  The size of a file is 1.                   *)
(***************************************************************************)
EXTENDS Naturals, FiniteSets, Functions

CONSTANTS
    Releases,    \* 1 .. n: release directories
    Content,     \* the files of each release
    Junk,        \* files that is_junk_file recognises
    Title,       \* the key find_duplicates computes for each release
    Runs,        \* runs of the sorter that may overlap
    MaxRuns,     \* bound on runs
    MaxRequests, \* bound on requests of the downloader
    MaxFaults    \* bound on failing rsyncs, lost answers and killed runs

SorterAssumption ==
    /\ Releases \subseteq Nat
    /\ IsFiniteSet(Releases)
    /\ DOMAIN Content = Releases
    /\ \A d \in Releases : IsFiniteSet(Content[d])
    /\ DOMAIN Title = Releases
    /\ {MaxRuns, MaxRequests, MaxFaults} \subseteq Nat

VARIABLES
    queued,    \* releases SABnzbd is downloading
    present,   \* directories in SABnzbd's complete folder
    files,     \* their files
    shelved,   \* directories in the libraries
    library,   \* their files
    run,       \* what each run does
    remote,    \* are the libraries on another file system than the downloads?
    used,      \* requests, runs and faults so far
    arrived,   \* history: releases that were ever downloaded
    condemned, \* history: releases picked for deletion as lesser copies
    overlaps   \* history: have two runs been under way together?

quietVars == <<remote, arrived, condemned, overlaps>>
vars == <<queued, present, files, shelved, library, run, used, quietVars>>

AllFiles == UNION {Content[d] : d \in Releases}
Titles == {Title[d] : d \in Releases}

Idle == [at |-> "idle", todo |-> {}, titles |-> {}, doomed |-> {}, item |-> {},
         deletes |-> FALSE]

Limits == [requests |-> MaxRequests, runs |-> MaxRuns, faults |-> MaxFaults]

TypeOK ==
    /\ queued \subseteq Releases
    /\ present \subseteq Releases
    /\ files \in [Releases -> SUBSET AllFiles]
    /\ shelved \subseteq Releases
    /\ library \in [Releases -> SUBSET AllFiles]
    /\ run \in [Runs -> [at : {"idle", "dedupe", "clean", "move", "rsync"},
                         todo : SUBSET Releases, titles : SUBSET Titles,
                         doomed : SUBSET Releases, item : SUBSET Releases,
                         deletes : BOOLEAN]]
    /\ remote \in BOOLEAN
    /\ used \in [DOMAIN Limits -> Nat]
    /\ arrived \subseteq Releases
    /\ condemned \subseteq Releases
    /\ overlaps \in BOOLEAN

Init ==
    /\ queued = {}
    /\ present = {}
    /\ files = [d \in Releases |-> {}]
    /\ shelved = {}
    /\ library = [d \in Releases |-> {}]
    /\ run = [r \in Runs |-> Idle]
    /\ remote \in BOOLEAN
    /\ used = [b \in DOMAIN Limits |-> 0]
    /\ arrived = {}
    /\ condemned = {}
    /\ overlaps = FALSE

-----------------------------------------------------------------------------
(* Helpers.                                                                *)

Spend(b) == used[b] < Limits[b] /\ used' = [used EXCEPT ![b] = @ + 1]

Set(r, new) == run' = [run EXCEPT ![r] = new]

IsFirst(d, S) == d \in S /\ \A e \in S : d <= e

Size(d) == Cardinality(files[d])

\* pick_best: the first of the largest; a directory that is gone has no size.
IsBest(d, S) == IsFirst(d, {e \in S : \A c \in S : Size(e) >= Size(c)})

\* find_duplicates: the releases of S with one key.
Group(S, t) == {d \in S : Title[d] = t}

-----------------------------------------------------------------------------
(* The downloader and SABnzbd.                                             *)

\* What an indexer says to a query: some of the releases of the title, nothing when it fails.
Results(t) == SUBSET Group(Releases, t)

\* The first of all results: those only NZBgeek has come first, the larger before the
\* smaller; what Prowlarr has as well counts as Prowlarr's.
IsTop(d, prowlarr, nzbgeek) ==
    LET best == IF nzbgeek \subseteq prowlarr THEN prowlarr ELSE nzbgeek \ prowlarr
        Total(e) == Cardinality(Content[e])
    IN  IsFirst(d, {e \in best : \A c \in best : Total(e) >= Total(c)})

\* addurl, whatever it answers.
SendToSabnzbd(d) == queued' = queued \cup {d}

\* One title of a list.  A title whose answer was lost, or that occurs in two lists, is
\* asked for again and arrives as another release.
Request(t) ==
    /\ Spend("requests")
    /\ \E prowlarr, nzbgeek \in Results(t), d \in Releases \ (queued \cup arrived) :
         IsTop(d, prowlarr, nzbgeek) /\ SendToSabnzbd(d)
    /\ UNCHANGED <<present, files, shelved, library, run, quietVars>>

\* SABnzbd renames the finished download to its name.
Complete(d) ==
    /\ d \in queued
    /\ queued' = queued \ {d}
    /\ present' = present \cup {d}
    /\ files' = [files EXCEPT ![d] = Content[d]]
    /\ arrived' = arrived \cup {d}
    /\ UNCHANGED <<shelved, library, run, remote, used, condemned, overlaps>>

-----------------------------------------------------------------------------
(* The sorter.                                                             *)

\* The directories are listed and classified, with or without --delete-duplicates.
StartRun(r) ==
    /\ run[r] = Idle
    /\ present # {}
    /\ Spend("runs")
    /\ \E flag \in BOOLEAN :
         Set(r, [Idle EXCEPT !.at = "dedupe", !.todo = present, !.deletes = flag,
                             !.titles = {Title[d] : d \in present}])
    /\ overlaps' = (overlaps \/ \E q \in Runs \ {r} : run[q] # Idle)
    /\ UNCHANGED <<queued, present, files, shelved, library, remote, arrived, condemned>>

\* Phase 2, one group of copies: the best of them is picked.
PickBest(r, t) ==
    /\ run[r].at = "dedupe"
    /\ t \in run[r].titles
    /\ run[r].doomed = {}
    /\ \E best \in Group(run[r].todo, t) :
         LET losers == IF run[r].deletes THEN Group(run[r].todo, t) \ {best} ELSE {}
         IN  /\ IsBest(best, Group(run[r].todo, t))
             /\ Set(r, [run[r] EXCEPT !.titles = @ \ {t}, !.doomed = losers])
             /\ condemned' = condemned \cup losers
    /\ UNCHANGED <<queued, present, files, shelved, library, used, remote, arrived, overlaps>>

\* rmtree of a lesser copy, one file after the other.
DeleteFile(r) ==
    /\ \E d \in run[r].doomed \cap present :
         /\ IsFirst(d, run[r].doomed)
         /\ IF files[d] = {}
            THEN /\ present' = present \ {d}
                 /\ Set(r, [run[r] EXCEPT !.doomed = @ \ {d}, !.todo = @ \ {d}])
                 /\ UNCHANGED files
            ELSE /\ \E f \in files[d] : files' = [files EXCEPT ![d] = @ \ {f}]
                 /\ UNCHANGED <<present, run>>
    /\ UNCHANGED <<queued, shelved, library, used, quietVars>>

\* The lesser copy has gone: rmtree raises and the run dies.
DeleteRaises(r) ==
    /\ \E d \in run[r].doomed \ present : IsFirst(d, run[r].doomed)
    /\ Set(r, Idle)
    /\ UNCHANGED <<queued, present, files, shelved, library, used, quietVars>>

EndDedupe(r) ==
    /\ run[r].at = "dedupe"
    /\ run[r].titles = {}
    /\ run[r].doomed = {}
    /\ Set(r, [run[r] EXCEPT !.at = "clean"])
    /\ UNCHANGED <<queued, present, files, shelved, library, used, quietVars>>

\* Phase 3: clean_dir of each directory.
Clean(r) ==
    /\ run[r].at = "clean"
    /\ files' = [d \in Releases |-> IF d \in run[r].todo THEN files[d] \ Junk ELSE files[d]]
    /\ Set(r, [run[r] EXCEPT !.at = "move"])
    /\ UNCHANGED <<queued, present, shelved, library, used, quietVars>>

\* Phase 4: the next directory d is done.
Done(r, d) == Set(r, [run[r] EXCEPT !.at = "move", !.todo = @ \ {d}, !.item = {}])

\* One that the library has, or that is gone, is skipped.
Skip(r) ==
    /\ run[r].at = "move"
    /\ \E d \in run[r].todo \cap (shelved \cup (Releases \ present)) :
         IsFirst(d, run[r].todo) /\ Done(r, d)
    /\ UNCHANGED <<queued, present, files, shelved, library, used, quietVars>>

\* One file system: a rename.
MoveDir(r) ==
    /\ ~remote
    /\ run[r].at = "move"
    /\ \E d \in run[r].todo \cap (present \ shelved) :
         /\ IsFirst(d, run[r].todo)
         /\ present' = present \ {d}
         /\ shelved' = shelved \cup {d}
         /\ library' = [library EXCEPT ![d] = files[d]]
         /\ files' = [files EXCEPT ![d] = {}]
         /\ Done(r, d)
    /\ UNCHANGED <<queued, used, quietVars>>

\* Two file systems: rsync is started.
BeginRsync(r) ==
    /\ remote
    /\ run[r].at = "move"
    /\ \E d \in run[r].todo \cap (present \ shelved) :
         /\ IsFirst(d, run[r].todo)
         /\ Set(r, [run[r] EXCEPT !.at = "rsync", !.item = {d}])
    /\ UNCHANGED <<queued, present, files, shelved, library, used, quietVars>>

\* --remove-source-files: a file is copied and then removed.
RsyncFile(r) ==
    /\ run[r].at = "rsync"
    /\ \E d \in run[r].item :
         /\ shelved' = shelved \cup {d}
         /\ \E f \in files[d] :
              /\ library' = [library EXCEPT ![d] = @ \cup {f}]
              /\ files' = [files EXCEPT ![d] = @ \ {f}]
    /\ UNCHANGED <<queued, present, run, used, quietVars>>

\* Faulty variant: the source is removed before rsync is done.
EndRsyncEarly(r) ==
    /\ run[r].at = "rsync"
    /\ \E d \in run[r].item :
         /\ present' = present \ {d}
         /\ files' = [files EXCEPT ![d] = {}]
         /\ shelved' = shelved \cup {d}
         /\ Done(r, d)
    /\ UNCHANGED <<queued, library, used, quietVars>>

\* rsync returns, and the empty directory is removed.
EndRsync(r) ==
    /\ run[r].at = "rsync"
    /\ \E d \in run[r].item :
         /\ files[d] = {}
         /\ present' = present \ {d}
         /\ shelved' = shelved \cup {d}
         /\ Done(r, d)
    /\ UNCHANGED <<queued, files, library, used, quietVars>>

\* rsync fails or runs out of time: what it has moved stays moved.
RsyncFails(r) ==
    /\ run[r].at = "rsync"
    /\ Spend("faults")
    /\ \E d \in run[r].item : Done(r, d)
    /\ UNCHANGED <<queued, present, files, shelved, library, quietVars>>

EndRun(r) ==
    /\ run[r].at = "move"
    /\ run[r].todo = {}
    /\ Set(r, Idle)
    /\ UNCHANGED <<queued, present, files, shelved, library, used, quietVars>>

Killed(r) ==
    /\ run[r] # Idle
    /\ Spend("faults")
    /\ Set(r, Idle)
    /\ UNCHANGED <<queued, present, files, shelved, library, quietVars>>

-----------------------------------------------------------------------------
RunStep(r) ==
    \/ \E t \in Titles : PickBest(r, t)
    \/ DeleteFile(r) \/ DeleteRaises(r) \/ EndDedupe(r)
    \/ Clean(r) \/ Skip(r) \/ MoveDir(r)
    \/ BeginRsync(r) \/ RsyncFile(r) \/ EndRsync(r) \/ EndRun(r)

Next ==
    \/ (\E t \in Titles : Request(t)) \/ (\E d \in Releases : Complete(d))
    \/ \E r \in Runs : StartRun(r) \/ RunStep(r) \/ RsyncFails(r) \/ Killed(r)

Spec == Init /\ [][Next]_vars

-----------------------------------------------------------------------------
(* Properties.                                                             *)

Wanted(d) == Content[d] \ Junk

Kept(d) == files[d] \cup library[d]

\* What no run picked as a lesser copy is never lost, however runs overlap, fail and are
\* killed (though a failed move leaves it in two places for good); and of the releases
\* with one title that have arrived, one with as much content as any is kept whole, as
\* long as runs do not overlap and nothing fails.  (A run that fails, is killed or goes on
\* in the middle of a move makes the best copy look small, and another one deletes the
\* rest of it.)
ReleasesSurvive ==
    /\ \A d \in arrived \ condemned : Wanted(d) \subseteq Kept(d)
    /\ (used.faults = 0 /\ ~overlaps) =>
         \A d \in arrived : \E e \in arrived :
             /\ Title[e] = Title[d]
             /\ Cardinality(Content[e]) >= Cardinality(Content[d])
             /\ Wanted(e) \subseteq Kept(e)
=============================================================================

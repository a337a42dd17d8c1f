---------------------------- MODULE PlexTransfer ----------------------------
(***************************************************************************)
(* The download staging area and the Plex library, between which the       *)
(* handlers transfer_to_plex and purge_completed of                        *)
(* core/gateway/builtin_handlers.py move and delete whole downloads, in    *)
(* threads of their own.                                                   *)
(*                                                                         *)
(* A download is a directory of files.  shutil.move renames it or, between *)
(* two file systems, copies its files and then removes them; where the     *)
(* library has a directory of that name, it goes into that directory.      *)
(* copytree lists a directory when it gets there: the files in Nested are  *)
(* in a subdirectory.                                                      *)
(***************************************************************************)
EXTENDS Naturals, FiniteSets

CONSTANTS
    Downloads,   \* names in the staging directory
    Files,       \* files of a download
    Nested,      \* those in its subdirectory
    Calls,       \* calls of the handlers that may be under way together
    MaxCalls,    \* bound on calls
    MaxFaults    \* bound on failing copies and crashes

PlexAssumption ==
    /\ Nested \subseteq Files
    /\ {MaxCalls, MaxFaults} \subseteq Nat

VARIABLES
    staged,    \* downloads that have a directory in the staging area
    files,     \* files in it
    library,   \* files of each download in the library
    depth,     \* directories of its name in the library, one inside another
    stale,     \* downloads whose st_mtime is before the cutoff
    call,      \* what each call is doing, to which download
    used,      \* calls and faults so far
    content,   \* history: what was downloaded
    whole,     \* history: downloads a transfer was answered ok for
    purged     \* history: downloads a purge began to delete

vars == <<staged, files, library, depth, stale, call, used, content, whole, purged>>

Idle == [at |-> "idle", of |-> {}, left |-> {}, listed |-> FALSE, errors |-> FALSE]

Limits == [calls |-> MaxCalls, faults |-> MaxFaults]

TypeOK ==
    /\ staged \subseteq Downloads
    /\ files \in [Downloads -> SUBSET Files]
    /\ library \in [Downloads -> SUBSET Files]
    /\ depth \in [Downloads -> 0 .. 2]
    /\ stale \subseteq Downloads
    /\ call \in [Calls -> [at : {"idle", "copy", "remove", "purge", "delete"},
                           of : SUBSET Downloads, left : SUBSET Files,
                           listed : BOOLEAN, errors : BOOLEAN]]
    /\ used \in [DOMAIN Limits -> Nat]
    /\ content \in [Downloads -> SUBSET Files]
    /\ whole \subseteq Downloads
    /\ purged \subseteq Downloads

Init ==
    /\ staged = {}
    /\ files = [d \in Downloads |-> {}]
    /\ library = [d \in Downloads |-> {}]
    /\ depth = [d \in Downloads |-> 0]
    /\ stale = {}
    /\ call = [c \in Calls |-> Idle]
    /\ used = [b \in DOMAIN Limits |-> 0]
    /\ content = [d \in Downloads |-> {}]
    /\ whole = {}
    /\ purged = {}

-----------------------------------------------------------------------------
(* Helpers.                                                                *)

Spend(b) == used[b] < Limits[b] /\ used' = [used EXCEPT ![b] = @ + 1]

Set(c, new) == call' = [call EXCEPT ![c] = new]

\* rmtree takes one file out of d, or the directory itself when it is empty.  It changes
\* the directory's mtime.
Unlink(d) ==
    /\ d \in staged
    /\ IF files[d] = {} THEN staged' = staged \ {d} /\ UNCHANGED files
       ELSE \E f \in files[d] :
              files' = [files EXCEPT ![d] = @ \ {f}] /\ UNCHANGED staged
    /\ stale' = stale \ {d}

-----------------------------------------------------------------------------
(* Downloads.                                                              *)

\* A download client (external) finishes a download.
Finish(d) ==
    /\ d \notin staged
    /\ content[d] = {}
    /\ staged' = staged \cup {d}
    /\ files' = [files EXCEPT ![d] = Files]
    /\ content' = [content EXCEPT ![d] = Files]
    /\ UNCHANGED <<library, depth, stale, call, used, whole, purged>>

\* older_than_days pass.
Grow(d) ==
    /\ d \in staged
    /\ stale' = stale \cup {d}
    /\ UNCHANGED <<staged, files, library, depth, call, used, content, whole, purged>>

-----------------------------------------------------------------------------
(* transfer_to_plex.                                                       *)

\* What move finds is a library without d, or with a directory to put it into.
MayMove(c, d) ==
    /\ call[c] = Idle
    /\ d \in staged
    /\ depth[d] < 2
    /\ Spend("calls")
    /\ depth' = [depth EXCEPT ![d] = @ + 1]

\* One file system: a rename.
Rename(c, d) ==
    /\ MayMove(c, d)
    /\ staged' = staged \ {d}
    /\ library' = [library EXCEPT ![d] = @ \cup files[d]]
    /\ files' = [files EXCEPT ![d] = {}]
    /\ stale' = stale \ {d}
    /\ whole' = whole \cup {d}
    /\ UNCHANGED <<call, content, purged>>

\* Two file systems: copytree lists the directory.
BeginCopy(c, d) ==
    /\ MayMove(c, d)
    /\ Set(c, [Idle EXCEPT !.at = "copy", !.of = {d}, !.left = files[d] \ Nested])
    /\ UNCHANGED <<staged, files, library, stale, content, whole, purged>>

\* copytree lists the subdirectory; one that has gone is an error.
ListNested(c) ==
    /\ call[c].at = "copy"
    /\ ~call[c].listed
    /\ \E d \in call[c].of :
         Set(c, [call[c] EXCEPT !.listed = TRUE,
                                !.left = @ \cup (files[d] \cap Nested),
                                !.errors = @ \/ d \notin staged])
    /\ UNCHANGED <<staged, files, library, depth, stale, used, content, whole, purged>>

\* A file is copied, unless it has gone.
CopyFile(c) ==
    /\ call[c].at = "copy"
    /\ \E d \in call[c].of, f \in call[c].left :
         /\ library' = IF f \in files[d] THEN [library EXCEPT ![d] = @ \cup {f}]
                       ELSE library
         /\ Set(c, [call[c] EXCEPT !.left = @ \ {f}, !.errors = @ \/ f \notin files[d]])
    /\ UNCHANGED <<staged, files, depth, stale, used, content, whole, purged>>

\* A file cannot be copied.
CopyFails(c) ==
    /\ call[c].at = "copy"
    /\ Spend("faults")
    /\ \E f \in call[c].left :
         Set(c, [call[c] EXCEPT !.left = @ \ {f}, !.errors = TRUE])
    /\ UNCHANGED <<staged, files, library, depth, stale, content, whole, purged>>

\* Faulty variant: the source is removed whatever could not be copied.
EndCopyAnyway(c) ==
    /\ call[c].at = "copy"
    /\ call[c].left = {}
    /\ call[c].listed
    /\ Set(c, [call[c] EXCEPT !.at = "remove"])
    /\ UNCHANGED <<staged, files, library, depth, stale, used, content, whole, purged>>

\* copytree raises what it collected: the move has failed, and the source stays.
EndCopy(c) ==
    /\ call[c].at = "copy"
    /\ call[c].left = {}
    /\ call[c].listed
    /\ Set(c, IF call[c].errors THEN Idle ELSE [call[c] EXCEPT !.at = "remove"])
    /\ UNCHANGED <<staged, files, library, depth, stale, used, content, whole, purged>>

\* rmtree, one entry at a time; it ends with the directory, and the answer is ok.
RemoveSource(c) ==
    /\ call[c].at = "remove"
    /\ \E d \in call[c].of :
         /\ Unlink(d)
         /\ IF staged' # staged THEN Set(c, Idle) /\ whole' = whole \cup {d}
                                ELSE UNCHANGED <<call, whole>>
    /\ UNCHANGED <<library, depth, used, content, purged>>

\* The directory has been removed by somebody else, and rmtree raises.
SourceGone(c) ==
    /\ call[c].at \in {"remove", "delete"}
    /\ call[c].of \cap staged = {}
    /\ Set(c, IF call[c].at = "remove" THEN Idle ELSE [Idle EXCEPT !.at = "purge"])
    /\ UNCHANGED <<staged, files, library, depth, stale, used, content, whole, purged>>

-----------------------------------------------------------------------------
(* purge_completed.                                                        *)

BeginPurge(c) ==
    /\ call[c] = Idle
    /\ Spend("calls")
    /\ Set(c, [Idle EXCEPT !.at = "purge"])
    /\ UNCHANGED <<staged, files, library, depth, stale, content, whole, purged>>

\* An item whose mtime is before the cutoff, whether or not it is being transferred.
PurgeItem(c, d) ==
    /\ call[c].at = "purge"
    /\ d \in staged \cap stale
    /\ Set(c, [Idle EXCEPT !.at = "delete", !.of = {d}])
    /\ purged' = purged \cup {d}
    /\ UNCHANGED <<staged, files, library, depth, stale, used, content, whole>>

DeleteItem(c) ==
    /\ call[c].at = "delete"
    /\ \E d \in call[c].of : Unlink(d)
    /\ Set(c, IF staged' # staged THEN [Idle EXCEPT !.at = "purge"] ELSE call[c])
    /\ UNCHANGED <<library, depth, used, content, whole, purged>>

EndPurge(c) ==
    /\ call[c].at = "purge"
    /\ Set(c, Idle)
    /\ UNCHANGED <<staged, files, library, depth, stale, used, content, whole, purged>>

\* The gateway dies; the files stay as they are.
Crash ==
    /\ Spend("faults")
    /\ call' = [c \in Calls |-> Idle]
    /\ UNCHANGED <<staged, files, library, depth, stale, content, whole, purged>>

-----------------------------------------------------------------------------
Next ==
    \/ \E d \in Downloads :
         \/ Finish(d) \/ Grow(d)
         \/ \E c \in Calls : Rename(c, d) \/ BeginCopy(c, d) \/ PurgeItem(c, d)
    \/ \E c \in Calls :
         \/ ListNested(c) \/ CopyFile(c) \/ CopyFails(c) \/ EndCopy(c)
         \/ RemoveSource(c) \/ SourceGone(c)
         \/ BeginPurge(c) \/ DeleteItem(c) \/ EndPurge(c)
    \/ Crash

Spec == Init /\ [][Next]_vars

-----------------------------------------------------------------------------
(* Properties.                                                             *)

\* Unless a purge took a download for an old one, no file of it is lost, whatever transfers
\* of it overlap, fail and are killed, and "ok" means that the library has all of it.
TransferKeepsAll ==
    \A d \in Downloads \ purged :
        /\ content[d] \subseteq files[d] \cup library[d]
        /\ d \in whole => content[d] \subseteq library[d]
=============================================================================

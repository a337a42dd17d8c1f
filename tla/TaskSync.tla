------------------------------ MODULE TaskSync ------------------------------
(***************************************************************************)
(* core/tasks: Taskwarrior hooks push events into a SQLite queue           *)
(* (queue.py), and TaskSyncWorker drains it into the event bus (sync.py).  *)
(*                                                                         *)
(* Every hook is a process of its own: it takes its timestamp and then     *)
(* commits its row, and other hooks and the worker get in between.  The    *)
(* worker's pc is the await it is at: the query for pending rows, a        *)
(* publish, or mark_synced; the SQL runs in a thread, one transaction per  *)
(* call.  The sleep between two polls changes nothing and is part of       *)
(* "poll".  A worker that ended closed its queue; a new one takes over     *)
(* only when the process is started again.  Timestamps are abstracted to   *)
(* their order.                                                            *)
(***************************************************************************)
EXTENDS Naturals, Sequences, FiniteSets

CONSTANTS
    Events,      \* hook invocations
    Limit,       \* limit of pending()
    MaxFaults,   \* bound on errors of Redis and SQLite
    MaxStarts    \* bound on starts of the worker

ASSUME ConstantsAssumption ==
    /\ IsFiniteSet(Events)
    /\ Limit \in Nat \ {0}
    /\ MaxFaults \in Nat
    /\ MaxStarts \in Nat

VARIABLES
    row,       \* of each event: not pushed, timestamp taken, in the table, ...
    created,   \* its timestamp, 0 before it has one
    clock,     \* the last timestamp given out
    pc,        \* the await the worker is at, "down" when there is no worker
    running,   \* _running
    batch,     \* events of the batch that are still to be published
    synced,    \* synced_ids
    stream,    \* the events published to the bus, in order
    faults,    \* errors so far
    starts,    \* starts of the worker so far
    before     \* history: for each event, those committed before its timestamp

queueVars == <<row, created, clock, before>>
workerVars == <<pc, running, batch, synced>>
vars == <<queueVars, workerVars, stream, faults, starts>>

RowStatus == {"none", "stamped", "lost", "unsynced", "synced", "pruned"}
Committed == {"unsynced", "synced", "pruned"}

TypeOK ==
    /\ row \in [Events -> RowStatus]
    /\ created \in [Events -> Nat]
    /\ clock \in Nat
    /\ pc \in {"down", "poll", "publish", "mark"}
    /\ running \in BOOLEAN
    /\ batch \subseteq Events
    /\ pc = "publish" <=> batch # {}
    /\ synced \subseteq Events
    /\ stream \in Seq(Events)
    /\ faults \in 0 .. MaxFaults
    /\ starts \in 0 .. MaxStarts
    /\ before \in [Events -> SUBSET Events]

Init ==
    /\ row = [e \in Events |-> "none"]
    /\ created = [e \in Events |-> 0]
    /\ clock = 0
    /\ pc = "down"
    /\ running = FALSE
    /\ batch = {}
    /\ synced = {}
    /\ stream = <<>>
    /\ faults = 0
    /\ starts = 0
    /\ before = [e \in Events |-> {}]

Fault == faults < MaxFaults /\ faults' = faults + 1

-----------------------------------------------------------------------------
(* TaskQueue.push, in a hook.                                              *)

\* datetime.now(UTC).
Stamp(e) ==
    /\ row[e] = "none"
    /\ row' = [row EXCEPT ![e] = "stamped"]
    /\ clock' = clock + 1
    /\ created' = [created EXCEPT ![e] = clock + 1]
    /\ before' = [before EXCEPT ![e] = {f \in Events : row[f] \in Committed}]
    /\ UNCHANGED <<workerVars, stream, faults, starts>>

\* INSERT and COMMIT.
Commit(e) ==
    /\ row[e] = "stamped"
    /\ row' = [row EXCEPT ![e] = "unsynced"]
    /\ UNCHANGED <<created, clock, before, workerVars, stream, faults, starts>>

\* The database stays locked for longer than its timeout, or the hook is killed:
\* the hook swallows the exception and the event is lost.
PushFails(e) ==
    /\ row[e] = "stamped"
    /\ Fault
    /\ row' = [row EXCEPT ![e] = "lost"]
    /\ UNCHANGED <<created, clock, before, workerVars, stream, starts>>

\* TaskQueue.prune: DELETE of old rows that are synced.
Prune(old) ==
    /\ old # {}
    /\ \A e \in old : row[e] = "synced"
    /\ row' = [e \in Events |-> IF e \in old THEN "pruned" ELSE row[e]]
    /\ UNCHANGED <<created, clock, before, workerVars, stream, faults, starts>>

-----------------------------------------------------------------------------
(* TaskSyncWorker.                                                         *)

\* The worker goes on to p with the events b to publish and s to mark.
Goto(p, b, s) ==
    /\ pc' = p
    /\ batch' = b
    /\ synced' = s

\* run: a new worker enters its loop.
Start ==
    /\ pc = "down"
    /\ starts < MaxStarts
    /\ starts' = starts + 1
    /\ running' = TRUE
    /\ Goto("poll", {}, {})
    /\ UNCHANGED <<queueVars, stream, faults>>

\* stop().
Stop ==
    /\ pc # "down"
    /\ running
    /\ running' = FALSE
    /\ UNCHANGED <<queueVars, pc, batch, synced, stream, faults, starts>>

\* The loop sees that it was stopped.
Finish ==
    /\ pc = "poll"
    /\ ~running
    /\ Goto("down", {}, {})
    /\ UNCHANGED <<queueVars, running, stream, faults, starts>>

Unsynced == {e \in Events : row[e] = "unsynced"}

Older(e, s) == {f \in s : created[f] < created[e]}

\* SELECT ... WHERE synced = 0 ORDER BY created LIMIT Limit.
Pending == {e \in Unsynced : Cardinality(Older(e, Unsynced)) < Limit}

\* Faulty variant: the query forgets which rows are synced.
PollAll ==
    /\ pc = "poll"
    /\ running
    /\ LET rows == {e \in Events : row[e] \in {"unsynced", "synced"}} IN
         /\ rows # {}
         /\ Goto("publish", {e \in rows : Cardinality(Older(e, rows)) < Limit}, {})
    /\ UNCHANGED <<queueVars, running, stream, faults, starts>>

\* Faulty variant: the worker waits until a batch is full.
PollFullBatches ==
    /\ pc = "poll"
    /\ running
    /\ Cardinality(Unsynced) >= Limit
    /\ Goto("publish", Pending, {})
    /\ UNCHANGED <<queueVars, running, stream, faults, starts>>

\* pending() with rows to publish; without any, the worker sleeps and polls again.
Poll ==
    /\ pc = "poll"
    /\ running
    /\ Pending # {}
    /\ Goto("publish", Pending, {})
    /\ UNCHANGED <<queueVars, running, stream, faults, starts>>

\* publish() of the oldest event of the batch returns.
Publish(e) ==
    /\ pc = "publish"
    /\ e \in batch
    /\ Older(e, batch) = {}
    /\ stream' = Append(stream, e)
    /\ Goto(IF batch = {e} THEN "mark" ELSE "publish", batch \ {e}, synced \cup {e})
    /\ UNCHANGED <<queueVars, running, faults, starts>>

\* Faulty variant: a failed event is skipped, not the rest of the batch.
PublishFailsContinue(e) ==
    /\ pc = "publish"
    /\ e \in batch
    /\ Older(e, batch) = {}
    /\ Fault
    /\ stream' \in {stream, Append(stream, e)}
    /\ IF batch # {e} THEN Goto("publish", batch \ {e}, synced)
       ELSE Goto(IF synced = {} THEN "poll" ELSE "mark", {}, synced)
    /\ UNCHANGED <<queueVars, running, starts>>

\* Faulty variant: the id is noted before the publish instead of after it.
PublishFailsNoted(e) ==
    /\ pc = "publish"
    /\ e \in batch
    /\ Older(e, batch) = {}
    /\ Fault
    /\ stream' \in {stream, Append(stream, e)}
    /\ Goto("mark", {}, synced \cup {e})
    /\ UNCHANGED <<queueVars, running, starts>>

\* publish() raises, though Redis may have appended the event: the rest of the
\* batch waits for the next poll.
PublishFails(e) ==
    /\ pc = "publish"
    /\ e \in batch
    /\ Older(e, batch) = {}
    /\ Fault
    /\ stream' \in {stream, Append(stream, e)}
    /\ Goto(IF synced = {} THEN "poll" ELSE "mark", {}, synced)
    /\ UNCHANGED <<queueVars, running, starts>>

\* The rows of synced_ids in one UPDATE.
SyncedRows == [e \in Events |-> IF e \in synced /\ row[e] = "unsynced"
                                THEN "synced" ELSE row[e]]

MarkSynced ==
    /\ pc = "mark"
    /\ row' = SyncedRows
    /\ Goto("poll", {}, {})
    /\ UNCHANGED <<created, clock, before, running, stream, faults, starts>>

\* pending() or mark_synced() raises: nothing catches it, and run() ends.
QueueFails ==
    /\ pc \in {"poll", "mark"}
    /\ Fault
    /\ Goto("down", {}, {})
    /\ UNCHANGED <<queueVars, running, stream, starts>>

\* The process dies; what the worker was waiting for may have happened.
Crash ==
    /\ pc # "down"
    /\ Fault
    /\ \/ UNCHANGED <<row, stream>>
       \/ \E e \in batch :
            /\ pc = "publish" /\ Older(e, batch) = {}
            /\ stream' = Append(stream, e)
            /\ UNCHANGED row
       \/ pc = "mark" /\ row' = SyncedRows /\ UNCHANGED stream
    /\ Goto("down", {}, {})
    /\ UNCHANGED <<created, clock, before, running, starts>>

-----------------------------------------------------------------------------
(* The specification.                                                      *)

WorkerStep == Poll \/ (\E e \in Events : Publish(e)) \/ MarkSynced \/ Finish

Next ==
    \/ \E e \in Events : Stamp(e) \/ Commit(e) \/ PushFails(e)
    \/ \E old \in SUBSET Events : Prune(old)
    \/ WorkerStep
    \/ \E e \in Events : PublishFails(e)
    \/ Start \/ Stop \/ QueueFails \/ Crash

Spec == Init /\ [][Next]_vars

\* The event loop runs a worker that can go on; nobody is obliged to start one.
FairSpec == Spec /\ WF_vars(WorkerStep)

-----------------------------------------------------------------------------
(* Properties.                                                             *)

Published(e) == \E i \in DOMAIN stream : stream[i] = e

\* No event is marked synced, and so forgotten, that was not published: not after
\* a batch that broke off in the middle, and not after a crash.
SyncedIsPublished == \A e \in Events : row[e] \in {"synced", "pruned"} => Published(e)

\* The worker and its queue implement an at-least-once outbox: an event is published
\* before it is settled and never afterwards, whatever fails.
AtLeastOnce ==
    INSTANCE Outbox WITH
        state <- [e \in Events |->
                    CASE row[e] = "unsynced" -> "accepted"
                      [] row[e] \in {"synced", "pruned"} -> "settled"
                      [] OTHER -> "new"]

ImplementsOutbox == AtLeastOnce!Spec

\* Events are published in the order in which hooks ran one after the other: when e
\* was in the queue before f got its timestamp, f is never published before e is.
\* Failed publishes, partial batches and crashes do not let f overtake.
PublishedInOrder ==
    \A i \in DOMAIN stream : \A e \in before[stream[i]] :
        \E j \in DOMAIN stream : j < i /\ stream[j] = e

\* As long as nothing fails, no event is published twice, although every poll reads
\* the table again.
OnceWithoutFaults ==
    faults = 0 => \A i, j \in DOMAIN stream : stream[i] = stream[j] => i = j

\* Every further copy of an event costs a fault: a publish that raises although Redis has
\* the event, a batch that cannot be marked, a crash.
CopiesCostFaults ==
    \A e \in Events : Cardinality({i \in DOMAIN stream : stream[i] = e}) <= 1 + faults

\* An event in the queue of a worker that is neither stopped nor hit by an error of
\* SQLite gets synced: what Redis refuses is retried, also behind newer events.
EventuallySynced ==
    \A e \in Events :
        (row[e] = "unsynced" /\ pc # "down") ~> (row[e] # "unsynced" \/ pc = "down")
=============================================================================

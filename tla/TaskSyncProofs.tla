--------------------------- MODULE TaskSyncProofs ---------------------------
(***************************************************************************)
(* Proofs about TaskSync, for any set of hooks, any batch limit and any    *)
(* number of failures and restarts.                                        *)
(*                                                                         *)
(* The safety properties are not inductive: they hold because of what the  *)
(* worker carries from its query to mark_synced.  IInv says it: the rows   *)
(* in hand are unsynced (BatchInv), those in synced_ids are in the stream, *)
(* and whatever has to precede an event of the batch is in the stream or   *)
(* in the batch itself (OrderInv).                                         *)
(***************************************************************************)
EXTENDS TaskSync, FiniteSetTheorems, TLAPS

\* The relation "was in the queue before e got its timestamp" agrees with the
\* timestamps the query sorts by.
StampInv ==
    \A e \in Events :
        /\ created[e] <= clock
        /\ \A f \in before[e] : row[f] \in Committed /\ created[f] < created[e]

\* The events in the worker's hands are unsynced in the table.
BatchInv ==
    /\ batch \subseteq Unsynced
    /\ synced \subseteq Unsynced
    /\ batch \cap synced = {}
    /\ pc \in {"down", "poll"} => synced = {}
    /\ \A e \in synced : Published(e)

\* What has to precede an event of the batch is published or in the batch too.
OrderInv ==
    \A e \in batch : \A f \in before[e] : Published(f) \/ f \in batch

\* Without faults, an event that is published is in synced_ids or marked.
OnceInv ==
    faults = 0 =>
        \A e \in Events : Published(e) => e \in synced \/ row[e] \in {"synced", "pruned"}

\* Only events of the queue are published.
PublishedCommitted ==
    \A i \in DOMAIN stream : row[stream[i]] \in Committed

IInv ==
    /\ TypeOK
    /\ PublishedCommitted
    /\ StampInv
    /\ BatchInv
    /\ SyncedIsPublished
    /\ OrderInv
    /\ PublishedInOrder
    /\ OnceInv
    /\ OnceWithoutFaults

-----------------------------------------------------------------------------
(* Type correctness.                                                       *)

LEMMA InitTypeOK == Init => TypeOK
  <1> SUFFICES ASSUME Init PROVE TypeOK
    OBVIOUS
  <1>1. running \in BOOLEAN
    BY DEF Init
  <1>2. pc = "publish" <=> batch # {}
    BY DEF Init
  <1>3. stream \in Seq(Events)
    BY DEF Init
  <1>4. QED
    BY <1>1, <1>2, <1>3, ConstantsAssumption DEF Init, TypeOK, RowStatus, ConstantsAssumption

LEMMA TypeOKStep == TypeOK /\ [Next]_vars => TypeOK'
  <1> SUFFICES ASSUME TypeOK, [Next]_vars PROVE TypeOK'
    OBVIOUS
  <1> USE ConstantsAssumption DEF ConstantsAssumption, TypeOK, RowStatus
  <1>1. ASSUME NEW e \in Events, Stamp(e) \/ Commit(e) \/ PushFails(e) PROVE TypeOK'
    <2>1. CASE Stamp(e)
      BY <2>1 DEF Stamp, workerVars
    <2>2. CASE Commit(e)
      BY <2>2 DEF Commit, workerVars
    <2>3. CASE PushFails(e)
      BY <2>3 DEF PushFails, Fault, workerVars
    <2>4. QED
      BY <1>1, <2>1, <2>2, <2>3
  <1>2. ASSUME NEW old \in SUBSET Events, Prune(old) PROVE TypeOK'
    BY <1>2 DEF Prune, workerVars
  <1>3. CASE Poll
    BY <1>3 DEF Poll, Pending, Unsynced, Goto, queueVars
  <1>4. ASSUME NEW e \in Events, Publish(e) PROVE TypeOK'
    BY <1>4 DEF Publish, Goto, queueVars
  <1>5. ASSUME NEW e \in Events, PublishFails(e) PROVE TypeOK'
    BY <1>5 DEF PublishFails, Fault, Goto, queueVars
  <1>6. CASE MarkSynced
    BY <1>6 DEF MarkSynced, SyncedRows, Goto
  <1>7. CASE Finish
    BY <1>7 DEF Finish, Goto, queueVars
  <1>8. CASE QueueFails
    BY <1>8 DEF QueueFails, Fault, Goto, queueVars
  <1>9. CASE Start
    BY <1>9 DEF Start, Goto, queueVars
  <1>10. CASE Stop
    <2>1. running' \in BOOLEAN
      BY <1>10 DEF Stop
    <2>2. UNCHANGED <<queueVars, pc, batch, synced, stream, faults, starts>>
      BY <1>10 DEF Stop
    <2>3. QED
      BY <2>1, <2>2 DEF queueVars
  <1>11. CASE Crash
    <2>1. row' \in [Events -> RowStatus]
      BY <1>11 DEF Crash, SyncedRows
    <2>2. stream' \in Seq(Events)
      <3>1. CASE UNCHANGED stream
        BY <3>1
      <3>2. ASSUME NEW e \in batch, stream' = Append(stream, e)
            PROVE  stream' \in Seq(Events)
        <4>1. e \in Events
          OBVIOUS
        <4>2. QED
          BY <3>2, <4>1
      <3>3. QED
        BY <1>11, <3>1, <3>2 DEF Crash
    <2>3. QED
      BY <1>11, <2>1, <2>2 DEF Crash, Fault, Goto
  <1>12. CASE UNCHANGED vars
    BY <1>12 DEF vars, queueVars, workerVars
  <1>13. QED
    BY <1>1, <1>2, <1>3, <1>4, <1>5, <1>6, <1>7, <1>8, <1>9, <1>10, <1>11, <1>12 DEF Next, WorkerStep

\* Every variable keeps its type, and the worker is publishing exactly while it has
\* a batch, whatever fails.
THEOREM TypeCorrect == Spec => []TypeOK
  <1>1. QED
    BY InitTypeOK, TypeOKStep, PTL DEF Spec

-----------------------------------------------------------------------------
(* Lemmas about the stream and the query.                                  *)

\* Appending an event publishes that event and no other.
LEMMA AppendPublishes ==
  ASSUME TypeOK, NEW e \in Events, stream' = Append(stream, e)
  PROVE  \A x : Published(x)' <=> Published(x) \/ x = e
  <1>1. /\ Len(stream) \in Nat
        /\ DOMAIN stream = 1 .. Len(stream)
        /\ DOMAIN stream' = 1 .. Len(stream) + 1
        /\ \A i \in DOMAIN stream : stream'[i] = stream[i]
        /\ stream'[Len(stream) + 1] = e
    BY DEF TypeOK
  <1>2. ASSUME NEW x, Published(x)' PROVE Published(x) \/ x = e
    <2>1. PICK i \in DOMAIN stream' : stream'[i] = x
      BY <1>2 DEF Published
    <2>2. CASE i = Len(stream) + 1
      BY <1>1, <2>1, <2>2
    <2>3. CASE i \in DOMAIN stream
      BY <1>1, <2>1, <2>3 DEF Published
    <2>4. QED
      BY <1>1, <2>1, <2>2, <2>3
  <1>3. ASSUME NEW x, Published(x) \/ x = e PROVE Published(x)'
    <2>1. CASE x = e
      <3>1. Len(stream) + 1 \in DOMAIN stream'
        BY <1>1
      <3>2. QED
        BY <1>1, <2>1, <3>1 DEF Published
    <2>2. CASE Published(x)
      <3>1. PICK i \in DOMAIN stream : stream[i] = x
        BY <2>2 DEF Published
      <3>2. i \in DOMAIN stream'
        BY <1>1
      <3>3. QED
        BY <1>1, <3>1, <3>2 DEF Published
    <2>3. QED
      BY <1>3, <2>1, <2>2
  <1>4. QED
    BY <1>2, <1>3

\* The batch of the query is closed under "older": LIMIT cuts off the newest rows.
LEMMA PendingClosed ==
  ASSUME TypeOK, NEW e \in Pending, NEW f \in Unsynced, created[f] < created[e]
  PROVE  f \in Pending
  <1>1. Older(f, Unsynced) \subseteq Older(e, Unsynced)
    BY DEF Older, Pending, Unsynced, TypeOK
  <1>2. IsFiniteSet(Older(e, Unsynced))
    BY ConstantsAssumption, FS_Subset DEF ConstantsAssumption, Older, Unsynced
  <1>3. /\ Cardinality(Older(f, Unsynced)) <= Cardinality(Older(e, Unsynced))
        /\ Cardinality(Older(e, Unsynced)) \in Nat
        /\ Cardinality(Older(f, Unsynced)) \in Nat
    BY <1>1, <1>2, FS_Subset, FS_CardinalityType
  <1>4. QED
    BY <1>3, ConstantsAssumption DEF Pending, ConstantsAssumption

-----------------------------------------------------------------------------
(* The inductive invariant.                                                *)

LEMMA InitIInv == Init => IInv
  BY InitTypeOK
  DEF Init, IInv, StampInv, BatchInv, SyncedIsPublished, OrderInv, PublishedInOrder,
      OnceInv, OnceWithoutFaults, PublishedCommitted, Unsynced, Published

\* Hooks: only a row that is not committed yet changes, and no stream.
LEMMA HookStep ==
  ASSUME IInv, NEW e \in Events, Stamp(e) \/ Commit(e) \/ PushFails(e)
  PROVE  IInv'
  <1> USE DEF IInv, workerVars
  <1>1. TypeOK'
    BY TypeOKStep DEF Next
  <1>2. StampInv'
    <2>1. CASE Stamp(e)
      <3>1. /\ clock' = clock + 1
            /\ created' = [created EXCEPT ![e] = clock + 1]
            /\ row' = [row EXCEPT ![e] = "stamped"]
            /\ before' = [before EXCEPT ![e] = {f \in Events : row[f] \in Committed}]
            /\ row[e] = "none"
        BY <2>1 DEF Stamp
      <3>2. ASSUME NEW g \in Events PROVE created'[g] <= clock'
        BY <3>1 DEF StampInv, TypeOK
      <3>3. ASSUME NEW g \in Events, NEW f \in before'[g]
            PROVE  row'[f] \in Committed /\ created'[f] < created'[g]
        <4>1. CASE g = e
          BY <3>1, <3>3, <4>1 DEF StampInv, TypeOK, Committed
        <4>2. CASE g # e
          BY <3>1, <3>3, <4>2 DEF StampInv, TypeOK, Committed
        <4>3. QED
          BY <4>1, <4>2
      <3>4. QED
        BY <3>2, <3>3 DEF StampInv
    <2>2. CASE Commit(e)
      BY <2>2 DEF StampInv, Commit, Committed, TypeOK
    <2>3. CASE PushFails(e)
      BY <2>3 DEF StampInv, PushFails, Committed, TypeOK
    <2>4. QED
      BY <2>1, <2>2, <2>3
  <1>3. /\ \A x : Published(x)' <=> Published(x)
        /\ \A x \in Events : row[x] \in Committed => row'[x] = row[x]
        /\ \A x \in Events : row'[x] \in {"synced", "pruned"} => row[x] = row'[x]
        /\ \A x \in Events : row[x] \in Committed => before'[x] = before[x]
        /\ UNCHANGED <<stream, batch, synced, pc>>
        /\ faults' = 0 => faults = 0
    BY DEF Stamp, Commit, PushFails, Fault, Published, Committed, TypeOK
  <1>4. BatchInv'
    BY <1>3 DEF BatchInv, Unsynced, Committed
  <1>5. SyncedIsPublished'
    BY <1>3 DEF SyncedIsPublished
  <1>6. OrderInv'
    BY <1>3 DEF OrderInv, BatchInv, Unsynced, Committed
  <1>7. PublishedInOrder'
    BY <1>3 DEF PublishedInOrder, PublishedCommitted, TypeOK
  <1>8. OnceInv' /\ OnceWithoutFaults'
    BY <1>3 DEF OnceInv, OnceWithoutFaults, Committed
  <1>9. PublishedCommitted'
    BY <1>3 DEF PublishedCommitted, TypeOK
  <1>10. QED
    BY <1>1, <1>2, <1>4, <1>5, <1>6, <1>7, <1>8, <1>9

\* Publishing the oldest event of the batch: what has to precede it is published, and
\* the event itself is unsynced.
LEMMA PublishOldest ==
  ASSUME IInv, NEW e \in batch, Older(e, batch) = {},
         stream' = Append(stream, e), UNCHANGED queueVars
  PROVE  /\ \A x : Published(x)' <=> Published(x) \/ x = e
         /\ StampInv'
         /\ SyncedIsPublished'
         /\ PublishedCommitted'
         /\ PublishedInOrder'
  <1> USE DEF IInv
  <1>1. e \in Events /\ row[e] = "unsynced"
    BY DEF BatchInv, Unsynced
  <1>2. \A x : Published(x)' <=> Published(x) \/ x = e
    BY <1>1, AppendPublishes
  <1>3. /\ Len(stream) \in Nat
        /\ DOMAIN stream = 1 .. Len(stream)
        /\ DOMAIN stream' = 1 .. Len(stream) + 1
        /\ \A i \in DOMAIN stream : stream'[i] = stream[i]
        /\ stream'[Len(stream) + 1] = e
    BY <1>1 DEF TypeOK
  <1>4. \A f \in before[e] : Published(f)
    <2>1. TAKE f \in before[e]
    <2>2. created[f] < created[e]
      BY <1>1 DEF StampInv
    <2>3. f \notin batch
      BY <2>2 DEF Older
    <2>4. QED
      BY <2>3 DEF OrderInv
  <1>5. StampInv'
    BY DEF StampInv, queueVars
  <1>6. SyncedIsPublished'
    BY <1>2 DEF SyncedIsPublished, queueVars
  <1>7. PublishedCommitted'
    BY <1>1, <1>3 DEF PublishedCommitted, queueVars, Committed
  <1>8. PublishedInOrder'
    <2> SUFFICES ASSUME NEW i \in DOMAIN stream', NEW f \in before[stream'[i]]
                 PROVE  \E j \in DOMAIN stream' : j < i /\ stream'[j] = f
      BY DEF PublishedInOrder, queueVars
    <2>1. CASE i \in DOMAIN stream
      <3>1. PICK j \in DOMAIN stream : j < i /\ stream[j] = f
        BY <1>3, <2>1 DEF PublishedInOrder
      <3>2. QED
        BY <1>3, <3>1
    <2>2. CASE i = Len(stream) + 1
      <3>1. PICK j \in DOMAIN stream : stream[j] = f
        BY <1>3, <1>4, <2>2 DEF Published
      <3>2. QED
        BY <1>3, <2>2, <3>1
    <2>3. QED
      BY <1>3, <2>1, <2>2
  <1>9. QED
    BY <1>2, <1>5, <1>6, <1>7, <1>8

\* The query: every row in hand is unsynced, and the batch is closed.
LEMMA PollStep == IInv /\ Poll => IInv'
  <1> SUFFICES ASSUME IInv, Poll PROVE IInv'
    OBVIOUS
  <1> USE DEF IInv
  <1>1. /\ batch' = Pending
        /\ synced' = {}
        /\ pc' = "publish"
        /\ UNCHANGED <<row, created, clock, before, stream, faults>>
        /\ synced = {}
    BY DEF Poll, Goto, queueVars, BatchInv
  <1>2. TypeOK'
    BY TypeOKStep DEF Next, WorkerStep
  <1>3. \A x : Published(x)' <=> Published(x)
    BY <1>1 DEF Published
  <1>4. BatchInv'
    BY <1>1 DEF BatchInv, Pending, Unsynced
  <1>5. OrderInv'
    <2> SUFFICES ASSUME NEW e \in Pending, NEW f \in before[e]
                 PROVE  Published(f) \/ f \in Pending
      BY <1>1, <1>3 DEF OrderInv
    <2>1. e \in Events /\ f \in Events
      BY DEF Pending, Unsynced, TypeOK
    <2>2. row[f] \in Committed /\ created[f] < created[e]
      BY <2>1 DEF StampInv
    <2>3. CASE row[f] = "unsynced"
      BY <2>1, <2>2, <2>3, PendingClosed DEF Unsynced
    <2>4. CASE row[f] \in {"synced", "pruned"}
      BY <2>1, <2>4 DEF SyncedIsPublished
    <2>5. QED
      BY <2>2, <2>3, <2>4 DEF Committed
  <1>6. /\ StampInv'
        /\ SyncedIsPublished'
        /\ PublishedCommitted'
        /\ PublishedInOrder'
    BY <1>1, <1>3 DEF StampInv, SyncedIsPublished, PublishedCommitted, PublishedInOrder
  <1>7. OnceInv' /\ OnceWithoutFaults'
    BY <1>1, <1>3 DEF OnceInv, OnceWithoutFaults
  <1>8. QED
    BY <1>2, <1>4, <1>5, <1>6, <1>7

\* A publish that returns moves the event from the batch to synced_ids.
LEMMA PublishStep ==
  ASSUME IInv, NEW e \in Events, Publish(e)
  PROVE  IInv'
  <1> USE DEF IInv
  <1>1. /\ e \in batch
        /\ Older(e, batch) = {}
        /\ stream' = Append(stream, e)
        /\ UNCHANGED queueVars
        /\ UNCHANGED faults
        /\ batch' = batch \ {e}
        /\ synced' = synced \cup {e}
        /\ pc' \in {"publish", "mark"}
    BY DEF Publish, Goto
  <1>2. TypeOK'
    BY TypeOKStep DEF Next, WorkerStep
  <1>3. /\ \A x : Published(x)' <=> Published(x) \/ x = e
        /\ StampInv' /\ SyncedIsPublished' /\ PublishedCommitted' /\ PublishedInOrder'
    BY <1>1, PublishOldest
  <1>4. BatchInv'
    BY <1>1, <1>3 DEF BatchInv, Unsynced, queueVars
  <1>5. OrderInv'
    BY <1>1, <1>3 DEF OrderInv, queueVars
  <1>6. OnceInv'
    BY <1>1, <1>3 DEF OnceInv, queueVars
  <1>7. OnceWithoutFaults'
    <2> SUFFICES ASSUME faults = 0, NEW i \in DOMAIN stream', NEW j \in DOMAIN stream',
                        stream'[i] = stream'[j]
                 PROVE  i = j
      BY <1>1 DEF OnceWithoutFaults
    <2>1. ~Published(e)
      BY <1>1 DEF OnceInv, BatchInv, Unsynced
    <2>2. /\ Len(stream) \in Nat
          /\ DOMAIN stream = 1 .. Len(stream)
          /\ DOMAIN stream' = 1 .. Len(stream) + 1
          /\ \A k \in DOMAIN stream : stream'[k] = stream[k] /\ stream[k] # e
          /\ stream'[Len(stream) + 1] = e
      BY <1>1, <2>1 DEF TypeOK, Published
    <2>3. QED
      BY <2>2 DEF OnceWithoutFaults
  <1>8. QED
    BY <1>2, <1>3, <1>4, <1>5, <1>6, <1>7

\* A publish that raises, whether the event is in the stream or not, ends the batch.
LEMMA PublishFailsStep ==
  ASSUME IInv, NEW e \in Events, PublishFails(e)
  PROVE  IInv'
  <1> USE DEF IInv
  <1>1. /\ e \in batch
        /\ Older(e, batch) = {}
        /\ stream' = stream \/ stream' = Append(stream, e)
        /\ UNCHANGED queueVars
        /\ faults \in Nat
        /\ faults' = faults + 1
        /\ batch' = {}
        /\ synced' = synced
        /\ pc' \in {"poll", "mark"}
        /\ pc' = "poll" => synced = {}
    BY DEF PublishFails, Fault, Goto, TypeOK
  <1>2. TypeOK'
    BY TypeOKStep DEF Next
  <1>3. /\ \A x : Published(x) => Published(x)'
        /\ StampInv' /\ SyncedIsPublished' /\ PublishedCommitted' /\ PublishedInOrder'
    <2>1. CASE stream' = Append(stream, e)
      BY <1>1, <2>1, PublishOldest
    <2>2. CASE stream' = stream
      BY <1>1, <2>2 DEF queueVars, Published, StampInv, SyncedIsPublished,
                        PublishedCommitted, PublishedInOrder
    <2>3. QED
      BY <1>1, <2>1, <2>2
  <1>4. BatchInv' /\ OrderInv'
    BY <1>1, <1>3 DEF BatchInv, OrderInv, Unsynced, queueVars
  <1>5. OnceInv' /\ OnceWithoutFaults'
    BY <1>1 DEF OnceInv, OnceWithoutFaults
  <1>6. QED
    BY <1>2, <1>3, <1>4, <1>5

\* mark_synced, by the worker or just before its process dies: the rows it marks are
\* published.
LEMMA MarkKeeps ==
  ASSUME IInv, pc = "mark", row' = SyncedRows, synced' = {}, batch' = {},
         pc' \in {"poll", "down"}, UNCHANGED <<created, clock, before, stream>>,
         faults' = faults \/ faults' = faults + 1, TypeOK'
  PROVE  IInv'
  <1> USE DEF IInv
  <1>1. \A x : Published(x)' <=> Published(x)
    BY DEF Published
  <1>2. /\ \A x \in Events : row[x] \in Committed => row'[x] \in Committed
        /\ \A x \in Events : row'[x] \in {"synced", "pruned"} =>
                                row[x] \in {"synced", "pruned"} \/ x \in synced
        /\ \A x \in Events : row[x] \in {"synced", "pruned"} => row'[x] = row[x]
        /\ \A x \in synced : row'[x] = "synced"
    BY DEF SyncedRows, Committed, BatchInv, Unsynced, TypeOK
  <1>3. StampInv'
    BY <1>2 DEF StampInv, TypeOK
  <1>4. BatchInv' /\ OrderInv'
    BY DEF BatchInv, OrderInv
  <1>5. SyncedIsPublished'
    BY <1>1, <1>2 DEF SyncedIsPublished, BatchInv
  <1>6. PublishedCommitted' /\ PublishedInOrder'
    BY <1>2 DEF PublishedCommitted, PublishedInOrder, TypeOK
  <1>7. OnceInv' /\ OnceWithoutFaults'
    BY <1>1, <1>2 DEF OnceInv, OnceWithoutFaults, TypeOK
  <1>8. QED
    BY <1>3, <1>4, <1>5, <1>6, <1>7

\* The worker lets go of what it had in hand.
LEMMA DropKeeps ==
  ASSUME IInv, synced' = {}, batch' = {}, pc' \in {"poll", "down"},
         synced = {} \/ faults' = faults + 1, faults' = faults \/ faults' = faults + 1,
         UNCHANGED <<row, created, clock, before, stream>>, TypeOK'
  PROVE  IInv'
  <1> USE DEF IInv
  <1>1. \A x : Published(x)' <=> Published(x)
    BY DEF Published
  <1>2. BatchInv' /\ OrderInv'
    BY DEF BatchInv, OrderInv
  <1>3. /\ StampInv'
        /\ SyncedIsPublished'
        /\ PublishedCommitted'
        /\ PublishedInOrder'
    BY <1>1 DEF StampInv, SyncedIsPublished, PublishedCommitted, PublishedInOrder
  <1>4. OnceInv' /\ OnceWithoutFaults'
    BY <1>1 DEF OnceInv, OnceWithoutFaults, TypeOK
  <1>5. QED
    BY <1>2, <1>3, <1>4

\* The process dies in any of the worker's awaits.
LEMMA CrashStep == IInv /\ Crash => IInv'
  <1> SUFFICES ASSUME IInv, Crash PROVE IInv'
    OBVIOUS
  <1>1. TypeOK'
    BY TypeOKStep DEF Next, IInv
  <1>2. /\ synced' = {} /\ batch' = {} /\ pc' = "down"
        /\ faults' = faults + 1
        /\ UNCHANGED <<created, clock, before>>
    BY DEF Crash, Goto, Fault
  <1>3. CASE UNCHANGED <<row, stream>>
    BY <1>1, <1>2, <1>3, DropKeeps
  <1>4. ASSUME NEW e \in batch, Older(e, batch) = {}, stream' = Append(stream, e),
               UNCHANGED row
        PROVE  IInv'
    <2>1. /\ \A x : Published(x)' <=> Published(x) \/ x = e
          /\ StampInv' /\ SyncedIsPublished' /\ PublishedCommitted' /\ PublishedInOrder'
      BY <1>2, <1>4, PublishOldest DEF queueVars
    <2>2. BatchInv' /\ OrderInv'
      BY <1>2 DEF BatchInv, OrderInv
    <2>3. OnceInv' /\ OnceWithoutFaults'
      BY <1>2 DEF OnceInv, OnceWithoutFaults, IInv, TypeOK
    <2>4. QED
      BY <1>1, <2>1, <2>2, <2>3 DEF IInv
  <1>5. CASE pc = "mark" /\ row' = SyncedRows /\ UNCHANGED stream
    BY <1>1, <1>2, <1>5, MarkKeeps
  <1>6. QED
    BY <1>3, <1>4, <1>5 DEF Crash

LEMMA IInvStep == IInv /\ [Next]_vars => IInv'
  <1> SUFFICES ASSUME IInv, [Next]_vars PROVE IInv'
    OBVIOUS
  <1>1. TypeOK'
    BY TypeOKStep DEF IInv
  <1>2. ASSUME NEW e \in Events, Stamp(e) \/ Commit(e) \/ PushFails(e) PROVE IInv'
    BY <1>2, HookStep
  <1>3. ASSUME NEW old \in SUBSET Events, Prune(old) PROVE IInv'
    <2>1. /\ \A x \in Events : row'[x] = IF x \in old THEN "pruned" ELSE row[x]
          /\ \A x \in old : row[x] = "synced"
          /\ UNCHANGED <<created, clock, before, pc, batch, synced, stream, faults>>
      BY <1>3 DEF Prune, workerVars
    <2>2. \A x : Published(x)' <=> Published(x)
      BY <2>1 DEF Published
    <2>3. StampInv'
      BY <2>1 DEF IInv, StampInv, TypeOK, Committed
    <2>4. BatchInv' /\ OrderInv'
      BY <2>1, <2>2 DEF IInv, BatchInv, OrderInv, Unsynced
    <2>5. SyncedIsPublished' /\ PublishedInOrder'
      BY <2>1, <2>2 DEF IInv, SyncedIsPublished, PublishedInOrder
    <2>6. PublishedCommitted'
      BY <2>1 DEF IInv, PublishedCommitted, TypeOK, Committed
    <2>7. OnceInv' /\ OnceWithoutFaults'
      BY <2>1, <2>2 DEF IInv, OnceInv, OnceWithoutFaults
    <2>8. QED
      BY <1>1, <2>3, <2>4, <2>5, <2>6, <2>7 DEF IInv
  <1>4. CASE Poll
    BY <1>4, PollStep
  <1>5. ASSUME NEW e \in Events, Publish(e) PROVE IInv'
    BY <1>5, PublishStep
  <1>6. ASSUME NEW e \in Events, PublishFails(e) PROVE IInv'
    BY <1>6, PublishFailsStep
  <1>7. CASE MarkSynced
    BY <1>1, <1>7, MarkKeeps DEF MarkSynced, Goto
  <1>8. CASE Finish
    <2>1. synced = {}
      BY <1>8 DEF Finish, IInv, BatchInv
    <2>2. QED
      BY <1>1, <1>8, <2>1, DropKeeps DEF Finish, Goto, queueVars
  <1>9. CASE QueueFails
    BY <1>1, <1>9, DropKeeps DEF QueueFails, Fault, Goto, queueVars
  <1>10. CASE Start
    <2>1. synced = {}
      BY <1>10 DEF Start, IInv, BatchInv
    <2>2. QED
      BY <1>1, <1>10, <2>1, DropKeeps DEF Start, Goto, queueVars
  <1>11. CASE Stop \/ UNCHANGED vars
    <2>1. UNCHANGED <<row, created, clock, before, pc, batch, synced, stream, faults>>
      BY <1>11 DEF Stop, vars, queueVars, workerVars
    <2>2. \A x : Published(x)' <=> Published(x)
      BY <2>1 DEF Published
    <2>3. /\ StampInv' /\ BatchInv' /\ SyncedIsPublished' /\ OrderInv'
      BY <2>1, <2>2
      DEF IInv, StampInv, BatchInv, SyncedIsPublished, OrderInv, Unsynced
    <2>4. PublishedCommitted' /\ PublishedInOrder' /\ OnceInv' /\ OnceWithoutFaults'
      BY <2>1, <2>2
      DEF IInv, PublishedCommitted, PublishedInOrder, OnceInv, OnceWithoutFaults
    <2>5. QED
      BY <1>1, <2>3, <2>4 DEF IInv
  <1>12. CASE Crash
    BY <1>12, CrashStep
  <1>13. QED
    BY <1>2, <1>3, <1>4, <1>5, <1>6, <1>7, <1>8, <1>9, <1>10, <1>11, <1>12
    DEF Next, WorkerStep

LEMMA Invariance == Spec => []IInv
  <1>1. QED
    BY InitIInv, IInvStep, PTL DEF Spec

-----------------------------------------------------------------------------
(* The theorems.                                                           *)

\* No event is marked synced that was not published, whatever fails and crashes.
THEOREM SyncedIsPublishedTheorem == Spec => []SyncedIsPublished
  <1>1. IInv => SyncedIsPublished
    BY DEF IInv
  <1>2. QED
    BY <1>1, Invariance, PTL

\* Events of hooks that ran one after the other are first published in that order.
THEOREM PublishedInOrderTheorem == Spec => []PublishedInOrder
  <1>1. IInv => PublishedInOrder
    BY DEF IInv
  <1>2. QED
    BY <1>1, Invariance, PTL

\* The worker with its queue implements the at-least-once outbox: every step is one
\* of the outbox or leaves its state and its stream alone.
THEOREM ImplementsOutboxTheorem == Spec => ImplementsOutbox
  <1> DEFINE abs == [e \in Events |->
                       CASE row[e] = "unsynced" -> "accepted"
                         [] row[e] \in {"synced", "pruned"} -> "settled"
                         [] OTHER -> "new"]
  <1>1. Init => AtLeastOnce!Init
    BY DEF Init, AtLeastOnce!Init
  <1>2. IInv /\ [Next]_vars => [AtLeastOnce!Next]_<<abs, stream>>
    <2> SUFFICES ASSUME IInv, [Next]_vars PROVE AtLeastOnce!Next \/ UNCHANGED <<abs, stream>>
      OBVIOUS
    <2> USE DEF IInv, TypeOK
    <2>1. ASSUME NEW e \in Events, Stamp(e) \/ PushFails(e) PROVE UNCHANGED <<abs, stream>>
      <3>1. /\ row[e] \notin {"unsynced", "synced", "pruned"}
            /\ row'[e] \notin {"unsynced", "synced", "pruned"}
            /\ \A x \in Events : x # e => row'[x] = row[x]
            /\ UNCHANGED stream
        BY <2>1 DEF Stamp, PushFails
      <3>2. QED
        BY <3>1
    <2>2. ASSUME NEW e \in Events, Commit(e) PROVE AtLeastOnce!Accept(e)
      <3>1. /\ row[e] = "stamped"
            /\ row'[e] = "unsynced"
            /\ \A x \in Events : x # e => row'[x] = row[x]
            /\ UNCHANGED stream
        BY <2>2 DEF Commit
      <3>2. QED
        BY <3>1 DEF AtLeastOnce!Accept
    <2>3. ASSUME NEW old \in SUBSET Events, Prune(old) PROVE UNCHANGED <<abs, stream>>
      <3>1. /\ \A x \in Events : row'[x] = IF x \in old THEN "pruned" ELSE row[x]
            /\ \A x \in old : row[x] = "synced"
            /\ UNCHANGED stream
        BY <2>3 DEF Prune
      <3>2. QED
        BY <3>1
    <2>4. ASSUME NEW e \in batch, UNCHANGED row, stream' = Append(stream, e)
          PROVE  AtLeastOnce!Next
      <3>1. e \in Events /\ abs[e] = "accepted"
        BY DEF BatchInv, Unsynced
      <3>2. AtLeastOnce!Deliver(e)
        BY <2>4, <3>1 DEF AtLeastOnce!Deliver
      <3>3. QED
        BY <3>1, <3>2 DEF AtLeastOnce!Next
    <2>5. ASSUME row' = SyncedRows, UNCHANGED stream PROVE AtLeastOnce!Next
      <3>1. \A x \in synced : abs[x] = "accepted" /\ Published(x)
        BY DEF BatchInv, Unsynced
      <3>2. \A x \in Events : row'[x] = IF x \in synced THEN "synced" ELSE row[x]
        BY <2>5 DEF SyncedRows, BatchInv, Unsynced
      <3>3. abs' = [x \in Events |-> IF x \in synced THEN "settled" ELSE abs[x]]
        BY <3>2
      <3>4. \E done \in SUBSET Events : AtLeastOnce!Settle(done)
        <4> SUFFICES \E done \in SUBSET Events :
              /\ \A e \in done : abs[e] = "accepted" /\ \E i \in DOMAIN stream : stream[i] = e
              /\ abs' = [e \in Events |-> IF e \in done THEN "settled" ELSE abs[e]]
              /\ UNCHANGED stream
          BY DEF AtLeastOnce!Settle
        <4> HIDE DEF abs
        <4> WITNESS synced \in SUBSET Events
        <4>1. QED
          BY <2>5, <3>1, <3>3 DEF Published
      <3>5. QED
        BY <3>4 DEF AtLeastOnce!Next
    <2>6. CASE Poll \/ Finish \/ QueueFails \/ Start \/ Stop \/ UNCHANGED vars
      BY <2>6 DEF Poll, Finish, QueueFails, Start, Stop, queueVars, vars
    <2>7. ASSUME NEW e \in Events, Publish(e) \/ PublishFails(e)
          PROVE  AtLeastOnce!Next \/ UNCHANGED <<abs, stream>>
      BY <2>4, <2>7 DEF Publish, PublishFails, queueVars
    <2>8. CASE MarkSynced
      BY <2>5, <2>8 DEF MarkSynced
    <2>9. CASE Crash
      BY <2>4, <2>5, <2>9 DEF Crash
    <2>10. QED
      BY <2>1, <2>2, <2>3, <2>6, <2>7, <2>8, <2>9 DEF Next, WorkerStep, AtLeastOnce!Next
  <1>3. QED
    BY <1>1, <1>2, Invariance, PTL DEF Spec, ImplementsOutbox, AtLeastOnce!Spec

\* Without faults every event is published once.
THEOREM OnceWithoutFaultsTheorem == Spec => []OnceWithoutFaults
  <1>1. IInv => OnceWithoutFaults
    BY DEF IInv
  <1>2. QED
    BY <1>1, Invariance, PTL

-----------------------------------------------------------------------------
(* What further copies cost.  An event has one copy for being in           *)
(* synced_ids or marked, and every other one for a fault: a publish that   *)
(* returns notes the event, and only a fault makes the worker forget what  *)
(* it noted.                                                               *)

Copies(e) == Cardinality({i \in DOMAIN stream : stream[i] = e})

\* The copy that the worker or the table knows of.
Known(e) == IF e \in synced \/ row[e] \in {"synced", "pruned"} THEN 1 ELSE 0

CopyInv == \A e \in Events : Copies(e) <= faults + Known(e)

LEMMA CopiesType ==
  ASSUME TypeOK, NEW x
  PROVE  /\ IsFiniteSet({i \in DOMAIN stream : stream[i] = x})
         /\ Copies(x) \in Nat
  <1>1. Len(stream) \in Nat /\ DOMAIN stream = 1 .. Len(stream)
    BY DEF TypeOK
  <1>2. IsFiniteSet(DOMAIN stream)
    BY <1>1, FS_Interval
  <1>3. IsFiniteSet({i \in DOMAIN stream : stream[i] = x})
    BY <1>2, FS_Subset
  <1>4. QED
    BY <1>3, FS_CardinalityType DEF Copies

LEMMA CopyAppended ==
  ASSUME TypeOK, NEW e \in Events, stream' = Append(stream, e), NEW x
  PROVE  Copies(x)' = IF x = e THEN Copies(x) + 1 ELSE Copies(x)
  <1> DEFINE S == {i \in DOMAIN stream : stream[i] = x}
  <1>1. /\ Len(stream) \in Nat
        /\ DOMAIN stream = 1 .. Len(stream)
        /\ DOMAIN stream' = 1 .. Len(stream) + 1
        /\ \A i \in DOMAIN stream : stream'[i] = stream[i]
        /\ stream'[Len(stream) + 1] = e
    BY DEF TypeOK
  <1>2. DOMAIN stream' = DOMAIN stream \cup {Len(stream) + 1}
    BY <1>1
  <1>3. Len(stream) + 1 \notin S
    BY <1>1
  <1>4. IsFiniteSet(S)
    BY CopiesType
  <1>5. S' = IF x = e THEN S \cup {Len(stream) + 1} ELSE S
    BY <1>1, <1>2
  <1>6. Cardinality(S \cup {Len(stream) + 1}) = Cardinality(S) + 1
    BY <1>3, <1>4, FS_AddElement
  <1>7. QED
    BY <1>5, <1>6 DEF Copies

\* A step that pays for what it adds and for what it forgets.
LEMMA Paid ==
  ASSUME TypeOK, TypeOK', CopyInv,
         \A x \in Events :
            \/ Copies(x)' = Copies(x) /\ faults + Known(x) <= faults' + Known(x)'
            \/ Copies(x)' = Copies(x) + 1 /\ faults + Known(x) < faults' + Known(x)'
  PROVE  CopyInv'
  <1> SUFFICES ASSUME NEW x \in Events PROVE Copies(x)' <= faults' + Known(x)'
    BY DEF CopyInv
  <1>1. Copies(x) \in Nat
    BY CopiesType
  <1>2. faults \in Nat /\ faults' \in Nat
    BY DEF TypeOK
  <1>3. Known(x) \in Nat /\ Known(x)' \in Nat
    BY DEF Known
  <1>4. Copies(x) <= faults + Known(x)
    BY DEF CopyInv
  <1>5. QED
    BY <1>1, <1>2, <1>3, <1>4

LEMMA CopyInvStep == IInv /\ CopyInv /\ [Next]_vars => CopyInv'
  <1> SUFFICES ASSUME IInv, CopyInv, [Next]_vars PROVE CopyInv'
    OBVIOUS
  <1>1. TypeOK /\ TypeOK' /\ faults \in Nat
    BY TypeOKStep DEF IInv, TypeOK
  <1>2. ASSUME UNCHANGED stream,
               \A x \in Events : faults + Known(x) <= faults' + Known(x)'
        PROVE  CopyInv'
    BY <1>1, <1>2, Paid DEF Copies
  <1>3. ASSUME NEW e \in Events, Stamp(e) \/ Commit(e) \/ PushFails(e)
        PROVE  CopyInv'
    <2>1. /\ UNCHANGED <<stream, synced>>
          /\ faults' = faults \/ faults' = faults + 1
          /\ \A x \in Events : row[x] \in {"synced", "pruned"} => row'[x] = row[x]
      BY <1>1, <1>3 DEF Stamp, Commit, PushFails, Fault, workerVars, TypeOK
    <2>2. QED
      BY <1>1, <1>2, <2>1 DEF Known
  <1>4. ASSUME NEW old \in SUBSET Events, Prune(old) PROVE CopyInv'
    <2>1. /\ UNCHANGED <<stream, synced, faults>>
          /\ \A x \in Events : row'[x] = IF x \in old THEN "pruned" ELSE row[x]
          /\ \A x \in old : row[x] = "synced"
      BY <1>4 DEF Prune, workerVars
    <2>2. QED
      BY <1>1, <1>2, <2>1 DEF Known
  <1>5. CASE Poll \/ Finish \/ Start \/ Stop \/ UNCHANGED vars
    <2>1. UNCHANGED <<row, stream, faults>> /\ synced' = synced
      BY <1>5 DEF Poll, Finish, Start, Stop, Goto, IInv, BatchInv, vars, queueVars, workerVars
    <2>2. QED
      BY <1>1, <1>2, <2>1 DEF Known
  <1>6. ASSUME NEW e \in Events, Publish(e) PROVE CopyInv'
    <2>1. /\ stream' = Append(stream, e)
          /\ synced' = synced \cup {e}
          /\ UNCHANGED <<row, faults>>
          /\ e \notin synced /\ row[e] = "unsynced"
      BY <1>6 DEF Publish, Goto, IInv, BatchInv, Unsynced, queueVars
    <2>2. Known(e) = 0 /\ Known(e)' = 1
      BY <2>1 DEF Known
    <2>3. \A x \in Events \ {e} : Known(x)' = Known(x)
      BY <2>1 DEF Known
    <2>4. \A x \in Events : Known(x) \in Nat
      BY DEF Known
    <2>5. \A x \in Events : Copies(x)' = IF x = e THEN Copies(x) + 1 ELSE Copies(x)
      BY <1>1, <2>1, CopyAppended
    <2>6. QED
      BY <1>1, <2>1, <2>2, <2>3, <2>4, <2>5, Paid
  <1>7. ASSUME NEW e \in Events, PublishFails(e) PROVE CopyInv'
    <2>1. /\ faults' = faults + 1
          /\ \A x \in Events : Known(x)' = Known(x) /\ Known(x) \in Nat
      BY <1>7 DEF PublishFails, Fault, Goto, Known, queueVars
    <2>2. CASE UNCHANGED stream
      BY <1>1, <1>2, <2>1, <2>2
    <2>3. CASE stream' = Append(stream, e)
      <3>1. \A x \in Events : Copies(x)' = IF x = e THEN Copies(x) + 1 ELSE Copies(x)
        BY <1>1, <2>3, CopyAppended
      <3>2. QED
        BY <1>1, <2>1, <3>1, Paid
    <2>4. QED
      BY <1>7, <2>2, <2>3 DEF PublishFails
  <1>8. ASSUME row' = SyncedRows, UNCHANGED stream, synced' = {},
               faults' = faults \/ faults' = faults + 1
        PROVE  CopyInv'
    <2>1. \A x \in Events : Known(x)' = Known(x) /\ Known(x) \in Nat
      BY <1>8 DEF Known, SyncedRows, IInv, BatchInv, Unsynced
    <2>2. QED
      BY <1>1, <1>2, <1>8, <2>1
  <1>9. CASE MarkSynced
    BY <1>8, <1>9 DEF MarkSynced, Goto
  <1>10. ASSUME UNCHANGED <<row, stream>>, synced' = {}, faults' = faults + 1
         PROVE  CopyInv'
    <2>1. \A x \in Events : /\ Known(x) \in Nat /\ Known(x)' \in Nat
                            /\ Known(x) <= Known(x)' + 1
      BY DEF Known
    <2>2. QED
      BY <1>1, <1>2, <1>10, <2>1
  <1>11. CASE QueueFails
    BY <1>10, <1>11 DEF QueueFails, Fault, Goto, queueVars
  <1>12. CASE Crash
    <2>1. synced' = {} /\ faults' = faults + 1
      BY <1>12 DEF Crash, Fault, Goto
    <2>2. ASSUME NEW e \in batch, stream' = Append(stream, e), UNCHANGED row
          PROVE  CopyInv'
      <3>1. e \in Events /\ e \notin synced /\ row[e] = "unsynced"
        BY DEF IInv, BatchInv, Unsynced
      <3>2. Known(e) = 0 /\ Known(e)' = 0
        BY <2>1, <2>2, <3>1 DEF Known
      <3>3. \A x \in Events : /\ Known(x) \in Nat /\ Known(x)' \in Nat
                              /\ Known(x) <= Known(x)' + 1
        BY DEF Known
      <3>4. \A x \in Events : Copies(x)' = IF x = e THEN Copies(x) + 1 ELSE Copies(x)
        BY <1>1, <2>2, <3>1, CopyAppended
      <3>5. QED
        BY <1>1, <2>1, <3>2, <3>3, <3>4, Paid
    <2>3. QED
      BY <1>8, <1>10, <1>12, <2>1, <2>2 DEF Crash
  <1>13. QED
    BY <1>3, <1>4, <1>5, <1>6, <1>7, <1>9, <1>11, <1>12 DEF Next, WorkerStep

\* Every copy of an event but one was paid for with a fault, for any number of polls,
\* restarts and other events: OnceWithoutFaults is the case of no fault.
THEOREM CopiesCostFaultsTheorem == Spec => []CopiesCostFaults
  <1>1. Init => CopyInv
    <2> SUFFICES ASSUME Init, NEW e \in Events PROVE Copies(e) <= faults + Known(e)
      BY DEF CopyInv
    <2>1. {i \in DOMAIN stream : stream[i] = e} = {}
      BY DEF Init
    <2>2. Copies(e) = 0
      BY <2>1, FS_EmptySet DEF Copies
    <2>3. QED
      BY <2>2 DEF Init, Known
  <1>2. IInv /\ CopyInv => CopiesCostFaults
    <2> SUFFICES ASSUME IInv, CopyInv, NEW e \in Events PROVE Copies(e) <= 1 + faults
      BY DEF CopiesCostFaults, Copies
    <2>1. Copies(e) \in Nat
      BY CopiesType DEF IInv
    <2>2. faults \in Nat /\ Known(e) \in {0, 1}
      BY DEF IInv, TypeOK, Known
    <2>3. Copies(e) <= faults + Known(e)
      BY DEF CopyInv
    <2>4. QED
      BY <2>1, <2>2, <2>3
  <1>3. Spec => []CopyInv
    BY <1>1, CopyInvStep, Invariance, PTL DEF Spec
  <1>4. QED
    BY <1>2, <1>3, Invariance, PTL
=============================================================================

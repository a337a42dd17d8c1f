----------------------- MODULE CooperativeEngineProofs -----------------------
(***************************************************************************)
(* Proofs about CooperativeEngine for any items, dependencies, numbers of  *)
(* loops and clients, and any bounds.                                      *)
(***************************************************************************)
EXTENDS CooperativeEngine, FiniteSetTheorems, TLAPS

-----------------------------------------------------------------------------
(* The only writers of the status are at "update".                         *)

\* No step of the engine other than an UPDATE changes the workflow's status.
LEMMA OnlyUpdatesWrite ==
    ASSUME [Next]_vars, status' # status
    PROVE  \E t \in Tasks : pc[t] = "update"
<1> USE DEF ledgerVars, taskVars, faultVars, historyVars
<1>1. CASE UNCHANGED vars
  BY <1>1 DEF vars
<1>2. ASSUME NEW t \in Tasks, UpdateStatus(t) PROVE \E u \in Tasks : pc[u] = "update"
  BY <1>2 DEF UpdateStatus
<1>3. ASSUME NEW l \in Loops, LoopStep(l) PROVE \E u \in Tasks : pc[u] = "update"
  <2>1. l \in Tasks
    BY DEF Tasks
  <2>2. CASE UpdateStatus(l)
    BY <2>1, <2>2, <1>2
  <2>3. CASE CancelDelivered(l)
    BY <2>1, <2>3 DEF CancelDelivered
  <2> QED
    BY <1>3, <2>2, <2>3 DEF LoopStep, SelectStatus, QueryPending, DispatchItem,
       CheckComplete, RunWatchdogs, LoopCompletes, NotifyCompleted, LoopSuspended,
       LoopFailed
<1>4. ASSUME NEW c \in Clients, ClientStep(c) PROVE \E u \in Tasks : pc[u] = "update"
  <2>1. c \in Tasks
    BY DEF Tasks
  <2>2. CASE UpdateStatus(c)
    BY <2>1, <2>2, <1>2
  <2> QED
    BY <1>4, <2>2 DEF ClientStep, SelectStatus, CreateWorkItem, DuplicateWorkItem,
       SpawnLoop, ClientReturns
<1>5. ASSUME NEW c \in Clients, ClientCall(c) PROVE FALSE
  BY <1>5 DEF ClientCall, StartWorkflow, AddWorkItems, BeginInserts, CancelWorkflow,
     SubmitInterrupt
<1>6. CASE WorkerStep
  BY <1>6 DEF WorkerStep, SubmitReceipt, ApplyReceipt, UpdateWorkItem
<1>7. CASE Failure
  BY <1>7 DEF Failure, LoopRaises, ClientRaises, ReceiptRaises, Crash
<1> QED
  BY <1>1, <1>3, <1>4, <1>5, <1>6, <1>7 DEF Next

-----------------------------------------------------------------------------
(* Type correctness.  TypeOK is not inductive by itself: an UPDATE writes  *)
(* want, so a coroutine inside update_workflow_status must want a status.  *)

WantsStatus == \A t \in Tasks : pc[t] \in UpdatePC => want[t] \in WorkflowStatus

TypeInv == TypeOK /\ WantsStatus

LEMMA InitTypeInv == Init => TypeInv
  BY ConstantsAssumption DEF ConstantsAssumption, Init, TypeInv, TypeOK, WantsStatus,
     Tasks, LoopPC, UpdatePC, WorkflowStatus, ItemStatus

\* Moving one coroutine keeps the types if where it goes is well typed.
LEMMA GotoTyped ==
    ASSUME TypeInv, NEW t \in Tasks, NEW p \in {"idle", "insert"} \cup LoopPC \cup UpdatePC,
           NEW w \in WorkflowStatus \cup {"none"}, NEW s \in SUBSET Items,
           t \in Loops => p # "insert",
           t \in Clients => p \notin LoopPC,
           p \in UpdatePC => w \in WorkflowStatus,
           Goto(t, p, w, s)
    PROVE  /\ pc' \in [Tasks -> {"idle", "insert"} \cup LoopPC \cup UpdatePC]
           /\ \A l \in Loops : pc'[l] # "insert"
           /\ \A c \in Clients : pc'[c] \notin LoopPC
           /\ want' \in [Tasks -> WorkflowStatus \cup {"none"}]
           /\ todo' \in [Tasks -> SUBSET Items]
           /\ WantsStatus'
  BY DEF Goto, TypeInv, TypeOK, WantsStatus, Tasks

LEMMA TypeInvStep ==
    ASSUME TypeInv, [Next]_vars
    PROVE  TypeInv'
<1> USE ConstantsAssumption DEF ledgerVars, taskVars, faultVars, historyVars
<1>0. CASE UNCHANGED vars
  BY <1>0 DEF vars, TypeInv, TypeOK, WantsStatus
<1>1. ASSUME NEW t \in Tasks, SelectStatus(t) PROVE TypeInv'
  BY <1>1 DEF SelectStatus, TypeInv, TypeOK, WantsStatus, UpdatePC, LoopPC, Tasks
<1>2. ASSUME NEW t \in Tasks, UpdateStatus(t) PROVE TypeInv'
  BY <1>2 DEF UpdateStatus, TypeInv, TypeOK, WantsStatus, UpdatePC, LoopPC, Tasks
<1>3. ASSUME NEW l \in Loops, LoopStep(l) PROVE TypeInv'
  <2> l \in Tasks /\ l \notin Clients
    BY DEF Tasks, ConstantsAssumption
  <2>1. CASE SelectStatus(l) \/ UpdateStatus(l)
    BY <2>1, <1>1, <1>2
  <2>2. CASE QueryPending(l)
    <3> DEFINE ready == PendingItems(item, DependsOn)
    <3>1. ready \in SUBSET Items
      BY DEF PendingItems, TypeInv, TypeOK
    <3> HIDE DEF ready
    <3> QED
      BY <2>2, <3>1, GotoTyped DEF QueryPending, ready, TypeInv, TypeOK, LoopPC, UpdatePC
  <2>3. ASSUME NEW i \in Items, DispatchItem(l, i) PROVE TypeInv'
    <3>1. todo[l] \ {i} \in SUBSET Items
      BY DEF TypeInv, TypeOK
    <3>2. PICK p \in {"items", "dispatch"} : Goto(l, p, "none", todo[l] \ {i})
      BY <2>3 DEF DispatchItem
    <3>3. /\ p \in LoopPC
          /\ p \in {"idle", "insert"} \cup LoopPC \cup UpdatePC
          /\ p # "insert" /\ p \notin UpdatePC
      BY DEF LoopPC, UpdatePC
    <3>4. /\ pc' \in [Tasks -> {"idle", "insert"} \cup LoopPC \cup UpdatePC]
          /\ \A m \in Loops : pc'[m] # "insert"
          /\ \A c \in Clients : pc'[c] \notin LoopPC
          /\ want' \in [Tasks -> WorkflowStatus \cup {"none"}]
          /\ todo' \in [Tasks -> SUBSET Items]
          /\ WantsStatus'
      BY <3>1, <3>2, <3>3, GotoTyped
    <3> QED
      BY <2>3, <3>4 DEF DispatchItem, TypeInv, TypeOK
  <2>4. CASE CheckComplete(l)
    BY <2>4, GotoTyped DEF CheckComplete, TypeInv, TypeOK, LoopPC, UpdatePC, WorkflowStatus
  <2>5. CASE RunWatchdogs(l)
    BY <2>5, GotoTyped DEF RunWatchdogs, ConstantsAssumption, TypeInv, TypeOK, LoopPC,
       UpdatePC, WorkflowStatus
  <2>6. CASE LoopCompletes(l)
    BY <2>6, GotoTyped DEF LoopCompletes, TypeInv, TypeOK, LoopPC, UpdatePC
  <2>7. CASE NotifyCompleted(l) \/ LoopSuspended(l) \/ LoopFailed(l)
    BY <2>7, GotoTyped DEF NotifyCompleted, LoopSuspended, LoopFailed, End, TypeInv, TypeOK,
       LoopPC, UpdatePC
  <2>8. CASE CancelDelivered(l)
    BY <2>8, GotoTyped DEF CancelDelivered, End, TypeInv, TypeOK, WantsStatus, LoopPC, UpdatePC
  <2> QED
    BY <1>3, <2>1, <2>2, <2>3, <2>4, <2>5, <2>6, <2>7, <2>8 DEF LoopStep
<1>4. ASSUME NEW c \in Clients, ClientStep(c) PROVE TypeInv'
  <2> c \in Tasks /\ c \notin Loops
    BY DEF Tasks, ConstantsAssumption
  <2>1. CASE SelectStatus(c) \/ UpdateStatus(c)
    BY <2>1, <1>1, <1>2
  <2>2. ASSUME NEW i \in Items, CreateWorkItem(c, i) PROVE TypeInv'
    <3>1. todo[c] \ {i} \in SUBSET Items /\ want[c] \in WorkflowStatus \cup {"none"}
      BY DEF TypeInv, TypeOK
    <3>2. item' \in [Items -> ItemStatus] /\ released' \subseteq Items
      BY <2>2 DEF CreateWorkItem, SetItem, TypeInv, TypeOK, ItemStatus
    <3> QED
      BY <2>2, <3>1, <3>2, GotoTyped DEF CreateWorkItem, End, TypeInv, TypeOK, LoopPC,
         UpdatePC, WorkflowStatus
  <2>3. CASE DuplicateWorkItem(c) \/ ClientReturns(c)
    BY <2>3, GotoTyped DEF DuplicateWorkItem, ClientReturns, End, TypeInv, TypeOK, LoopPC,
       UpdatePC
  <2>4. ASSUME NEW l \in Loops, SpawnLoop(c, l) PROVE TypeInv'
    BY <2>4 DEF SpawnLoop, IdleLoops, TypeInv, TypeOK, WantsStatus, LoopPC, UpdatePC, Tasks
  <2> QED
    BY <1>4, <2>1, <2>2, <2>3, <2>4 DEF ClientStep
<1>5. ASSUME NEW c \in Clients, ClientCall(c) PROVE TypeInv'
  <2> c \in Tasks /\ c \notin Loops
    BY DEF Tasks, ConstantsAssumption
  <2>1. ASSUME NEW B \in SUBSET Items, StartWorkflow(c, B) \/ AddWorkItems(c, B)
        PROVE  TypeInv'
    BY <2>1, GotoTyped DEF StartWorkflow, AddWorkItems, BeginInserts, TypeInv, TypeOK, LoopPC,
       UpdatePC, WorkflowStatus
  <2>2. CASE CancelWorkflow(c)
    BY <2>2, GotoTyped DEF CancelWorkflow, TypeInv, TypeOK, LoopPC, UpdatePC, WorkflowStatus
  <2>3. ASSUME NEW k \in Kinds, SubmitInterrupt(c, k) PROVE TypeInv'
    BY <2>3, GotoTyped DEF SubmitInterrupt, End, TypeInv, TypeOK, LoopPC, UpdatePC,
       WorkflowStatus
  <2> QED
    BY <1>5, <2>1, <2>2, <2>3 DEF ClientCall
<1>6. CASE WorkerStep
  <2>1. ASSUME NEW i \in Items, NEW o \in Outcomes, SubmitReceipt(i, o) PROVE TypeInv'
    BY <2>1 DEF SubmitReceipt, TypeInv, TypeOK, WantsStatus
  <2>2. ASSUME NEW i \in Items, NEW o \in Outcomes, ApplyReceipt(i, o) PROVE TypeInv'
    BY <2>2 DEF ApplyReceipt, SetItem, TypeInv, TypeOK, WantsStatus, ItemStatus
  <2>3. ASSUME NEW i \in Items, NEW s \in ItemStatus, UpdateWorkItem(i, s) PROVE TypeInv'
    BY <2>3 DEF UpdateWorkItem, SetItem, TypeInv, TypeOK, WantsStatus
  <2> QED
    BY <1>6, <2>1, <2>2, <2>3 DEF WorkerStep
<1>7. CASE Failure
  <2>0. /\ \A n \in 0 .. MaxFaults : n < MaxFaults => n + 1 \in 0 .. MaxFaults
        /\ \A n \in 0 .. MaxCrashes : n < MaxCrashes => n + 1 \in 0 .. MaxCrashes
    BY DEF ConstantsAssumption
  <2>1. ASSUME NEW l \in Loops, LoopRaises(l) PROVE TypeInv'
    <3> l \in Tasks /\ l \notin Clients
      BY DEF Tasks, ConstantsAssumption
    <3> QED
      BY <2>0, <2>1, GotoTyped DEF LoopRaises, End, TypeInv, TypeOK, LoopPC,
         UpdatePC, WorkflowStatus
  <2>2. ASSUME NEW c \in Clients, ClientRaises(c) PROVE TypeInv'
    <3> c \in Tasks /\ c \notin Loops
      BY DEF Tasks, ConstantsAssumption
    <3> QED
      BY <2>0, <2>2, GotoTyped DEF ClientRaises, End, TypeInv, TypeOK, LoopPC,
         UpdatePC
  <2>3. ASSUME NEW i \in Items, NEW o \in Outcomes, ReceiptRaises(i, o) PROVE TypeInv'
    BY <2>0, <2>3 DEF ReceiptRaises, TypeInv, TypeOK, WantsStatus
  <2>4. CASE Crash
    <3>1. /\ pc' \in [Tasks -> {"idle"}]
          /\ want' \in [Tasks -> {"none"}]
          /\ todo' \in [Tasks -> {{}}]
      BY <2>4 DEF Crash
    <3>2. /\ pc' \in [Tasks -> {"idle", "insert"} \cup LoopPC \cup UpdatePC]
          /\ \A t \in Tasks : pc'[t] = "idle"
          /\ want' \in [Tasks -> WorkflowStatus \cup {"none"}]
          /\ todo' \in [Tasks -> SUBSET Items]
      BY <3>1
    <3>3. /\ \A l \in Loops : pc'[l] # "insert"
          /\ \A c \in Clients : pc'[c] \notin LoopPC
          /\ WantsStatus'
      BY <3>2 DEF Tasks, LoopPC, UpdatePC, WantsStatus
    <3> QED
      BY <2>0, <2>4, <3>2, <3>3 DEF Crash, TypeInv, TypeOK
  <2> QED
    BY <1>7, <2>1, <2>2, <2>3, <2>4 DEF Failure
<1> QED
  BY <1>0, <1>3, <1>4, <1>5, <1>6, <1>7 DEF Next

\* Every variable keeps its type, whatever the constants are.
THEOREM TypeCorrect == Spec => []TypeOK
<1>1. TypeInv => TypeOK
  BY DEF TypeInv
<1> QED
  BY <1>1, InitTypeInv, TypeInvStep, PTL DEF Spec

-----------------------------------------------------------------------------
(* Final statuses stick: an UPDATE is reached through a SELECT only, which *)
(* refuses every transition from a final status.                           *)

\* A coroutine that comes to its UPDATE was validated against the present row.
LEMMA UpdatesAreValidated ==
    ASSUME TypeInv, [Next]_vars, NEW t \in Tasks, pc'[t] = "update", pc[t] # "update"
    PROVE  want[t] \in valid_transitions[status]
<1>1. pc \in [Tasks -> {"idle", "insert"} \cup LoopPC \cup UpdatePC]
  BY DEF TypeInv, TypeOK
<1>2. ASSUME NEW u \in Tasks, NEW p, NEW w, NEW s, Goto(u, p, w, s), p # "update"
      PROVE  FALSE
  BY <1>1, <1>2 DEF Goto
<1>3. ASSUME NEW u \in Tasks, SelectStatus(u) \/ UpdateStatus(u)
      PROVE  want[t] \in valid_transitions[status]
  BY <1>1, <1>3 DEF SelectStatus, UpdateStatus
<1>4. ASSUME NEW l \in Loops, LoopStep(l) PROVE want[t] \in valid_transitions[status]
  <2>1. l \in Tasks
    BY DEF Tasks
  <2>2. CASE SelectStatus(l) \/ UpdateStatus(l)
    BY <1>3, <2>1, <2>2
  <2>3. CASE QueryPending(l) \/ \E i \in Items : DispatchItem(l, i)
    BY <1>1, <2>1, <2>3 DEF QueryPending, DispatchItem, Goto
  <2>4. CASE CheckComplete(l) \/ RunWatchdogs(l) \/ LoopCompletes(l) \/ LoopSuspended(l)
    BY <1>1, <2>1, <2>4 DEF CheckComplete, RunWatchdogs, LoopCompletes, LoopSuspended, Goto
  <2>5. CASE NotifyCompleted(l) \/ LoopFailed(l) \/ CancelDelivered(l)
    BY <1>2, <2>1, <2>5 DEF NotifyCompleted, LoopFailed, CancelDelivered, End
  <2> QED
    BY <1>4, <2>2, <2>3, <2>4, <2>5 DEF LoopStep
<1>5. ASSUME NEW c \in Clients, ClientStep(c) \/ ClientCall(c)
      PROVE  want[t] \in valid_transitions[status]
  <2>1. c \in Tasks
    BY DEF Tasks
  <2>2. CASE SelectStatus(c) \/ UpdateStatus(c)
    BY <1>3, <2>1, <2>2
  <2>3. CASE \E i \in Items : CreateWorkItem(c, i)
    BY <1>1, <2>1, <2>3 DEF CreateWorkItem, End, Goto
  <2>4. CASE DuplicateWorkItem(c) \/ ClientReturns(c)
    BY <1>2, <2>1, <2>4 DEF DuplicateWorkItem, ClientReturns, End
  <2>5. CASE \E l \in Loops : SpawnLoop(c, l)
    BY <1>1, <2>1, <2>5 DEF SpawnLoop, Tasks
  <2>6. CASE ClientCall(c)
    BY <1>1, <2>1, <2>6 DEF ClientCall, StartWorkflow, AddWorkItems, BeginInserts,
       CancelWorkflow, SubmitInterrupt, End, Goto
  <2> QED
    BY <1>5, <2>2, <2>3, <2>4, <2>5, <2>6 DEF ClientStep
<1>6. CASE WorkerStep
  BY <1>6 DEF WorkerStep, SubmitReceipt, ApplyReceipt, UpdateWorkItem, taskVars
<1>7. CASE Failure
  <2>1. CASE \E u \in Tasks : LoopRaises(u) \/ ClientRaises(u)
    BY <1>1, <2>1 DEF LoopRaises, ClientRaises, End, Goto
  <2>2. CASE \E i \in Items, o \in Outcomes : ReceiptRaises(i, o)
    BY <2>2 DEF ReceiptRaises, taskVars
  <2>3. CASE Crash
    BY <2>3 DEF Crash
  <2> QED
    BY <1>7, <2>1, <2>2, <2>3 DEF Failure, Tasks
<1>8. CASE UNCHANGED vars
  BY <1>8 DEF vars, taskVars
<1> QED
  BY <1>4, <1>5, <1>6, <1>7, <1>8 DEF Next

\* A completed or cancelled workflow keeps its status once no validated UPDATE is
\* on its way: whatever loops, callers, receipts and crashes do.
THEOREM FinalSticksTheorem == Spec => FinalSticks
<1>1. TypeInv /\ [Next]_vars => [Final => (Final' /\ status' = status)]_vars
  <2> SUFFICES ASSUME TypeInv, [Next]_vars, Final PROVE Final' /\ status' = status
    OBVIOUS
  <2>1. status' = status
    BY OnlyUpdatesWrite DEF Final
  <2>2. valid_transitions[status] = {}
    BY DEF Final, FinalStatus
  <2>3. \A t \in Tasks : pc'[t] # "update"
    BY <2>2, UpdatesAreValidated DEF Final
  <2> QED
    BY <2>1, <2>3 DEF Final
<1> QED
  BY <1>1, InitTypeInv, TypeInvStep, PTL DEF Spec, FinalSticks

-----------------------------------------------------------------------------
(* Dependencies first.  A loop dispatches from a list that it queried some *)
(* awaits ago, so the inductive invariant says what that list keeps        *)
(* knowing: the dependencies were released once.  A dependency without a   *)
(* row would not hold an item back; rows never vanish and, when drivers    *)
(* list dependencies first, an item's row implies its dependencies' rows.  *)

Present == {i \in Items : item[i] # "absent"}

\* What is handed out, answered or about to be handed out has a row.
OnlyRows ==
    /\ dispatched \subseteq Present
    /\ \A r \in receipts : r[1] \in dispatched
    /\ \A l \in Loops : todo[l] \subseteq Present

RowsClosed == \A i \in Present : DependsOn[i] \subseteq Present

ReleasedRecorded == \A i \in Items : item[i] \in ReleasingStatus => i \in released

ListsReleased == \A l \in Loops : \A i \in todo[l] : DependsOn[i] \subseteq released

DepsInv ==
    /\ OnlyRows
    /\ RowsClosed
    /\ ReleasedRecorded
    /\ ListsReleased
    /\ DependenciesFirst

LEMMA InitDepsInv == Init => DepsInv
  BY ConstantsAssumption DEF ConstantsAssumption, Init, DepsInv, Present, OnlyRows, RowsClosed,
     ReleasedRecorded, ListsReleased, DependenciesFirst, ReleasingStatus, Tasks

\* A step that leaves rows and dispatches alone, and only shortens lists.
LEMMA DepsInvFrame ==
    ASSUME DepsInv,
           UNCHANGED <<item, released, dispatched>>,
           \A r \in receipts' : r[1] \in dispatched,
           \A l \in Loops : todo'[l] \subseteq todo[l]
    PROVE  DepsInv'
  BY DEF DepsInv, Present, OnlyRows, RowsClosed, ReleasedRecorded, ListsReleased,
     DependenciesFirst

\* A step that only writes the row of an item, whose dependencies have rows.
LEMMA DepsInvSetItem ==
    ASSUME TypeOK, DepsInv,
           NEW i \in Items, NEW s \in ItemStatus \ {"absent"}, SetItem(i, s),
           DependsOn[i] \subseteq Present,
           UNCHANGED dispatched,
           receipts' \subseteq receipts,
           \A l \in Loops : todo'[l] \subseteq todo[l]
    PROVE  DepsInv'
<1>1. Present' = Present \cup {i} /\ released \subseteq released'
  BY DEF SetItem, Present, TypeOK
<1>2. OnlyRows' /\ RowsClosed'
  BY <1>1, ConstantsAssumption DEF ConstantsAssumption, DepsInv, OnlyRows, RowsClosed, Present
<1>3. ReleasedRecorded'
  BY <1>1 DEF SetItem, TypeOK, DepsInv, ReleasedRecorded
<1>4. ListsReleased' /\ DependenciesFirst'
  BY <1>1 DEF DepsInv, ListsReleased, DependenciesFirst
<1> QED
  BY <1>2, <1>3, <1>4 DEF DepsInv

LEMMA DepsInvStep ==
    ASSUME DepsFirst, TypeInv, DepsInv, [Next]_vars
    PROVE  DepsInv'
<1> USE DEF ledgerVars, taskVars, faultVars, historyVars
<1> TypeOK
  BY DEF TypeInv
<1>a. \A r \in receipts : r[1] \in dispatched
  BY DEF DepsInv, OnlyRows
<1>0. CASE UNCHANGED vars
  BY <1>0, <1>a, DepsInvFrame DEF vars
<1>1. ASSUME NEW t \in Tasks, SelectStatus(t) \/ UpdateStatus(t) PROVE DepsInv'
  BY <1>1, <1>a, DepsInvFrame DEF SelectStatus, UpdateStatus
<1>2. ASSUME NEW t \in Tasks, End(t) PROVE \A l \in Loops : todo'[l] \subseteq todo[l]
  BY <1>2 DEF End, Goto, TypeOK, Tasks
<1>3. ASSUME NEW t \in Tasks, NEW p, NEW w, Goto(t, p, w, {})
      PROVE  \A l \in Loops : todo'[l] \subseteq todo[l]
  BY <1>3 DEF Goto, TypeOK, Tasks
<1>4. ASSUME NEW c \in Clients, NEW p, NEW w, NEW B, Goto(c, p, w, B)
      PROVE  \A l \in Loops : todo'[l] = todo[l]
  BY <1>4, ConstantsAssumption DEF ConstantsAssumption, Goto, TypeOK, Tasks
<1>5. ASSUME NEW l \in Loops, LoopStep(l) PROVE DepsInv'
  <2> l \in Tasks
    BY DEF Tasks
  <2>1. CASE SelectStatus(l) \/ UpdateStatus(l)
    BY <1>1, <2>1
  <2>2. CASE QueryPending(l)
    <3> DEFINE ready == PendingItems(item, DependsOn)
    <3>1. ready \subseteq Present
      BY DEF PendingItems, Present, TypeOK
    <3>2. \A i \in ready : DependsOn[i] \subseteq released
      BY <3>1, ConstantsAssumption DEF ConstantsAssumption, PendingItems, DepsInv, RowsClosed,
         Present, ReleasedRecorded, TypeOK
    <3> HIDE DEF ready
    <3>3. \A m \in Loops : todo'[m] = IF m = l THEN ready ELSE todo[m]
      BY <2>2 DEF QueryPending, Goto, ready, TypeOK, Tasks
    <3>4. UNCHANGED <<item, released, dispatched, receipts>>
      BY <2>2 DEF QueryPending
    <3>5. UNCHANGED Present
      BY <3>4 DEF Present
    <3> QED
      BY <3>1, <3>2, <3>3, <3>4, <3>5 DEF DepsInv, OnlyRows, RowsClosed, ReleasedRecorded,
         ListsReleased, DependenciesFirst
  <2>3. ASSUME NEW i \in Items, DispatchItem(l, i) PROVE DepsInv'
    <3>1. \A m \in Loops : todo'[m] \subseteq todo[m]
      BY <2>3 DEF DispatchItem, Goto, TypeOK, Tasks
    <3>2. /\ i \in todo[l]
          /\ dispatched' = dispatched \cup {i}
          /\ UNCHANGED <<item, released, receipts>>
      BY <2>3 DEF DispatchItem
    <3>3. i \in Present /\ DependsOn[i] \subseteq released
      BY <3>2 DEF DepsInv, OnlyRows, ListsReleased
    <3>4. UNCHANGED Present
      BY <3>2 DEF Present
    <3> QED
      BY <3>1, <3>2, <3>3, <3>4 DEF DepsInv, OnlyRows, RowsClosed, ReleasedRecorded,
         ListsReleased, DependenciesFirst
  <2>4. CASE CheckComplete(l) \/ RunWatchdogs(l)
    BY <2>4, <1>a, <1>3, DepsInvFrame DEF CheckComplete, RunWatchdogs
  <2>5. CASE LoopCompletes(l) \/ NotifyCompleted(l) \/ LoopSuspended(l) \/ LoopFailed(l)
    BY <2>5, <1>a, <1>3, DepsInvFrame DEF LoopCompletes, NotifyCompleted, LoopSuspended,
       LoopFailed, End
  <2>6. CASE CancelDelivered(l)
    BY <2>6, <1>a, <1>2, DepsInvFrame DEF CancelDelivered
  <2> QED
    BY <1>5, <2>1, <2>2, <2>3, <2>4, <2>5, <2>6 DEF LoopStep
<1>6. ASSUME NEW c \in Clients, ClientStep(c) PROVE DepsInv'
  <2> c \in Tasks
    BY DEF Tasks
  <2>1. CASE SelectStatus(c) \/ UpdateStatus(c)
    BY <1>1, <2>1
  <2>2. ASSUME NEW i \in Items, CreateWorkItem(c, i) PROVE DepsInv'
    <3>1. DependsOn[i] \subseteq Present
      BY <2>2, ConstantsAssumption DEF ConstantsAssumption, CreateWorkItem, Present
    <3>2. \A l \in Loops : todo'[l] = todo[l]
      BY <2>2, <1>4 DEF CreateWorkItem, End
    <3> QED
      BY <2>2, <3>1, <3>2, DepsInvSetItem DEF CreateWorkItem, ItemStatus
  <2>3. CASE DuplicateWorkItem(c) \/ ClientReturns(c)
    BY <2>3, <1>a, <1>2, DepsInvFrame DEF DuplicateWorkItem, ClientReturns
  <2>4. ASSUME NEW l \in Loops, SpawnLoop(c, l) PROVE DepsInv'
    BY <2>4, <1>a, DepsInvFrame DEF SpawnLoop
  <2> QED
    BY <1>6, <2>1, <2>2, <2>3, <2>4 DEF ClientStep
<1>7. ASSUME NEW c \in Clients, ClientCall(c) PROVE DepsInv'
  <2> c \in Tasks
    BY DEF Tasks
  <2>1. ASSUME NEW B \in SUBSET Items, StartWorkflow(c, B) \/ AddWorkItems(c, B)
        PROVE  DepsInv'
    BY <2>1, <1>a, <1>4, DepsInvFrame DEF StartWorkflow, AddWorkItems, BeginInserts
  <2>2. CASE CancelWorkflow(c)
    BY <2>2, <1>a, <1>3, DepsInvFrame DEF CancelWorkflow
  <2>3. ASSUME NEW k \in Kinds, SubmitInterrupt(c, k) PROVE DepsInv'
    BY <2>3, <1>a, <1>3, DepsInvFrame DEF SubmitInterrupt, End
  <2> QED
    BY <1>7, <2>1, <2>2, <2>3 DEF ClientCall
<1>8. CASE WorkerStep
  <2>1. ASSUME NEW i \in Items, NEW o \in Outcomes, SubmitReceipt(i, o) PROVE DepsInv'
    BY <2>1, <1>a, DepsInvFrame DEF SubmitReceipt
  <2>2. ASSUME NEW i \in Items, NEW o \in Outcomes, ApplyReceipt(i, o) PROVE DepsInv'
    <3>1. i \in Present
      BY <2>2, <1>a DEF ApplyReceipt, DepsInv, OnlyRows
    <3>2. DependsOn[i] \subseteq Present
      BY <3>1 DEF DepsInv, RowsClosed
    <3>3. PICK s \in ItemStatus \ {"absent"} : SetItem(i, s)
      BY <2>2, <3>1 DEF ApplyReceipt, Present, TypeOK, ItemStatus
    <3> QED
      BY <2>2, <3>2, <3>3, DepsInvSetItem DEF ApplyReceipt
  <2>3. ASSUME NEW i \in Items, NEW s \in ItemStatus, UpdateWorkItem(i, s) PROVE DepsInv'
    <3>1. item[i] # "absent" /\ s # "absent"
      BY <2>3, ConstantsAssumption DEF ConstantsAssumption, UpdateWorkItem
    <3>2. DependsOn[i] \subseteq Present
      BY <3>1 DEF DepsInv, RowsClosed, Present
    <3> QED
      BY <2>3, <3>1, <3>2, DepsInvSetItem DEF UpdateWorkItem
  <2> QED
    BY <1>8, <2>1, <2>2, <2>3 DEF WorkerStep
<1>9. CASE Failure
  <2>1. ASSUME NEW l \in Loops, LoopRaises(l) PROVE DepsInv'
    <3> l \in Tasks
      BY DEF Tasks
    <3> QED
      BY <2>1, <1>a, <1>3, DepsInvFrame DEF LoopRaises, End
  <2>2. ASSUME NEW c \in Clients, ClientRaises(c) PROVE DepsInv'
    BY <2>2, <1>a, <1>4, DepsInvFrame DEF ClientRaises, End
  <2>3. ASSUME NEW i \in Items, NEW o \in Outcomes, ReceiptRaises(i, o) PROVE DepsInv'
    BY <2>3, <1>a, DepsInvFrame DEF ReceiptRaises
  <2>4. CASE Crash
    BY <2>4, DepsInvFrame DEF Crash, Tasks
  <2> QED
    BY <1>9, <2>1, <2>2, <2>3, <2>4 DEF Failure
<1> QED
  BY <1>0, <1>5, <1>6, <1>7, <1>8, <1>9 DEF Next

\* When drivers list an item after its dependencies, no item is handed out before
\* each of its dependencies has been completed or skipped once.
THEOREM DependenciesFirstTheorem ==
    ASSUME DepsFirst
    PROVE  Spec => []DependenciesFirst
<1>1. TypeInv /\ DepsInv /\ [Next]_vars => TypeInv' /\ DepsInv'
  BY TypeInvStep, DepsInvStep
<1>2. DepsInv => DependenciesFirst
  BY DEF DepsInv
<1> QED
  BY <1>1, <1>2, InitTypeInv, InitDepsInv, PTL DEF Spec

-----------------------------------------------------------------------------
(* Suspensions are explained.  The UPDATE that suspends comes awaits after *)
(* the interrupt's row; in between, the coroutine's wish remembers it.     *)

ExplainedInv ==
    /\ SuspendedIsExplained
    /\ \A t \in Tasks : want[t] = "suspended" => "storm" \in interrupts

LEMMA ExplainedStep ==
    ASSUME TypeInv, ExplainedInv, [Next]_vars
    PROVE  ExplainedInv'
<1> USE DEF ledgerVars, taskVars, faultVars, historyVars
<1> TypeOK
  BY DEF TypeInv
\* A coroutine that moves on either does not want to suspend or has the row.
<1>1. ASSUME NEW t \in Tasks, NEW p, NEW w, NEW s, Goto(t, p, w, s),
             w = "suspended" => "storm" \in interrupts',
             interrupts \subseteq interrupts',
             status' = "suspended" => status = "suspended"
      PROVE  ExplainedInv'
  BY <1>1 DEF Goto, ExplainedInv, SuspendedIsExplained, TypeOK
<1>2. CASE UNCHANGED vars
  BY <1>2 DEF vars, ExplainedInv, SuspendedIsExplained
<1>3. ASSUME NEW t \in Tasks, SelectStatus(t) \/ UpdateStatus(t) PROVE ExplainedInv'
  BY <1>3 DEF SelectStatus, UpdateStatus, ExplainedInv, SuspendedIsExplained
<1>4. ASSUME NEW l \in Loops, LoopStep(l) PROVE ExplainedInv'
  <2> l \in Tasks
    BY DEF Tasks
  <2>1. CASE SelectStatus(l) \/ UpdateStatus(l)
    BY <1>3, <2>1
  <2>2. CASE QueryPending(l)
    BY <2>2, <1>1 DEF QueryPending
  <2>3. ASSUME NEW i \in Items, DispatchItem(l, i) PROVE ExplainedInv'
    <3>1. PICK p : Goto(l, p, "none", todo[l] \ {i})
      BY <2>3 DEF DispatchItem
    <3> QED
      BY <2>3, <3>1, <1>1 DEF DispatchItem
  <2>4. CASE CheckComplete(l)
    BY <2>4, <1>1 DEF CheckComplete
  <2>5. CASE RunWatchdogs(l)
    BY <2>5, <1>1 DEF RunWatchdogs
  <2>6. CASE LoopCompletes(l) \/ NotifyCompleted(l) \/ LoopSuspended(l) \/ LoopFailed(l)
    BY <2>6, <1>1 DEF LoopCompletes, NotifyCompleted, LoopSuspended, LoopFailed, End
  <2>7. CASE CancelDelivered(l)
    BY <2>7 DEF CancelDelivered, End, Goto, ExplainedInv, SuspendedIsExplained, TypeOK
  <2> QED
    BY <1>4, <2>1, <2>2, <2>3, <2>4, <2>5, <2>6, <2>7 DEF LoopStep
<1>5. ASSUME NEW c \in Clients, ClientStep(c) PROVE ExplainedInv'
  <2> c \in Tasks
    BY DEF Tasks
  <2>1. CASE SelectStatus(c) \/ UpdateStatus(c)
    BY <1>3, <2>1
  <2>2. ASSUME NEW i \in Items, CreateWorkItem(c, i) PROVE ExplainedInv'
    BY <2>2, <1>1 DEF CreateWorkItem, End, ExplainedInv
  <2>3. CASE DuplicateWorkItem(c) \/ ClientReturns(c)
    BY <2>3, <1>1 DEF DuplicateWorkItem, ClientReturns, End
  <2>4. ASSUME NEW l \in Loops, SpawnLoop(c, l) PROVE ExplainedInv'
    BY <2>4 DEF SpawnLoop, ExplainedInv, SuspendedIsExplained, TypeOK
  <2> QED
    BY <1>5, <2>1, <2>2, <2>3, <2>4 DEF ClientStep
<1>6. ASSUME NEW c \in Clients, ClientCall(c) PROVE ExplainedInv'
  <2> c \in Tasks
    BY DEF Tasks
  <2>1. ASSUME NEW B \in SUBSET Items, StartWorkflow(c, B) \/ AddWorkItems(c, B)
        PROVE  ExplainedInv'
    BY <2>1, <1>1 DEF StartWorkflow, AddWorkItems, BeginInserts
  <2>2. CASE CancelWorkflow(c)
    BY <2>2, <1>1 DEF CancelWorkflow
  <2>3. ASSUME NEW k \in Kinds, SubmitInterrupt(c, k) PROVE ExplainedInv'
    BY <2>3, <1>1 DEF SubmitInterrupt, End
  <2> QED
    BY <1>6, <2>1, <2>2, <2>3 DEF ClientCall
<1>7. CASE WorkerStep
  BY <1>7 DEF WorkerStep, SubmitReceipt, ApplyReceipt, UpdateWorkItem, ExplainedInv,
     SuspendedIsExplained
<1>8. CASE Failure
  <2>1. ASSUME NEW t \in Tasks, LoopRaises(t) \/ ClientRaises(t) PROVE ExplainedInv'
    BY <2>1, <1>1 DEF LoopRaises, ClientRaises, End
  <2>2. ASSUME NEW i \in Items, NEW o \in Outcomes, ReceiptRaises(i, o)
        PROVE  ExplainedInv'
    BY <2>2 DEF ReceiptRaises, ExplainedInv, SuspendedIsExplained
  <2>3. CASE Crash
    BY <2>3 DEF Crash, ExplainedInv, SuspendedIsExplained
  <2> QED
    BY <1>8, <2>1, <2>2, <2>3 DEF Failure, Tasks
<1> QED
  BY <1>2, <1>4, <1>5, <1>6, <1>7, <1>8 DEF Next

\* A suspended workflow has an unresolved storm on record, across crashes between
\* the writes of submit_interrupt and whoever else writes the status meanwhile.
THEOREM SuspendedIsExplainedTheorem == Spec => []SuspendedIsExplained
<1>1. Init => ExplainedInv
  BY DEF Init, ExplainedInv, SuspendedIsExplained
<1>2. TypeInv /\ ExplainedInv /\ [Next]_vars => TypeInv' /\ ExplainedInv'
  BY TypeInvStep, ExplainedStep
<1>3. ExplainedInv => SuspendedIsExplained
  BY DEF ExplainedInv
<1> QED
  BY <1>1, <1>2, <1>3, InitTypeInv, PTL DEF Spec
-----------------------------------------------------------------------------
(* One caller, and no storm.  Which loop works on the workflow is then     *)
(* readable from the row and from active: a loop that may still write or   *)
(* dispatch is the active one of a running workflow, and one that will     *)
(* announce the completion finds it written.  The loop a cancel has        *)
(* stopped may have one UPDATE on its way, which lands on a workflow that  *)
(* nobody else can take further in between.                                *)

Alone == \A c, d \in Clients : c = d

Calm == "storm" \notin Calls \cup Alarms

\* Loops that may query, dispatch or write the status.
Busy == {l \in Loops \ cancelled :
            pc[l] \in {"pending", "dispatch", "items", "watch", "select", "update"}}

\* Loops bound to fire on_completed.
Announcing == {l \in Loops \ cancelled :
                  \/ pc[l] = "notify"
                  \/ pc[l] \in {"accepted", "refused"} /\ want[l] = "completed"}

\* No caller is past the validation of its transition.
NoneValidated == \A c \in Clients : pc[c] # "update"

Wishes ==
    /\ \A l \in Loops : pc[l] \in UpdatePC => want[l] \in {"completed", "failed"}
    /\ \A c \in Clients : /\ pc[c] \in UpdatePC => want[c] \in {"running", "cancelled"}
                          /\ pc[c] = "insert" => want[c] \in {"running", "none"}

BusyIsActive ==
    \A l \in Busy :
        \/ status = "running" /\ active = l
        \/ pc[l] = "select" /\ want[l] = "failed" /\ status = "completed" /\ NoneValidated

AnnouncingIsWritten == Announcing # {} => status = "completed" /\ NoneValidated

\* At most one loop has an UPDATE on its way, and what a cancel overtook lands on a
\* workflow without a loop.
OneUpdate ==
    /\ \A l, m \in Loops : pc[l] = "update" /\ pc[m] = "update" => l = m
    /\ \A l \in cancelled : pc[l] = "update" => /\ active = NoTask
                                                /\ status \in {"running", "cancelled"}

CancelIsAlone ==
    \A c \in Clients : pc[c] \in {"select", "update"} /\ want[c] = "cancelled" => active = NoTask

StartIsAlone ==
    \A c \in Clients :
        /\ pc[c] = "update" /\ want[c] = "running" => status \in {"created", "failed"}
        /\ pc[c] = "accepted" /\ want[c] = "running" =>
              /\ status = "running"
              /\ Busy = {}
              /\ \A l \in Loops : pc[l] # "update"

AloneInv ==
    /\ status # "suspended"
    /\ Wishes
    /\ BusyIsActive
    /\ AnnouncingIsWritten
    /\ OneUpdate
    /\ CancelIsAlone
    /\ StartIsAlone
    /\ AnnouncedIsCompleted

LEMMA InitAloneInv == Init => AloneInv
  BY ConstantsAssumption DEF ConstantsAssumption, Init, AloneInv, Wishes, BusyIsActive, Busy,
     AnnouncingIsWritten, Announcing, OneUpdate, CancelIsAlone, StartIsAlone,
     AnnouncedIsCompleted, Tasks, UpdatePC

\* What a step that moves coroutine t to p, wanting w, does to the others: nothing.
Moves(t, p, w) ==
    \A u \in Tasks : /\ pc'[u] = IF u = t THEN p ELSE pc[u]
                     /\ want'[u] = IF u = t THEN w ELSE want[u]

LEMMA GotoMoves ==
    ASSUME TypeInv, NEW t \in Tasks, NEW p, NEW w, NEW s, Goto(t, p, w, s)
    PROVE  Moves(t, p, w)
  BY DEF Goto, Moves, TypeInv, TypeOK

\* Which coroutines are loops, and which are callers.
LEMMA Roles ==
    /\ \A l \in Loops : l \in Tasks /\ l \notin Clients /\ l # NoTask
    /\ \A c \in Clients : c \in Tasks /\ c \notin Loops
    /\ Tasks = Loops \cup Clients
  BY ConstantsAssumption DEF ConstantsAssumption, Tasks

\* A loop that moves on to end, to dispatch on, or to an announcement.
LEMMA AloneLoopMoves ==
    ASSUME TypeInv, AloneInv, NEW l \in Loops \ cancelled, NEW p, NEW w, Moves(l, p, w),
           status' = status, cancelled' = cancelled, told' = told,
           active' = active, p # "update",
           p \in UpdatePC => w \in {"completed", "failed"},
           p \in {"pending", "dispatch", "items", "watch", "select"} =>
              \/ l \in Busy /\ status = "running" /\ active = l
              \/ p = "select" /\ w = "failed" /\ status = "completed" /\ NoneValidated,
           p # "notify" /\ ~(p \in {"accepted", "refused"} /\ w = "completed")
    PROVE  AloneInv'
<1> USE Roles DEF Moves, AloneInv
<1>1. Wishes'
  BY DEF Wishes
<1>2. NoneValidated => NoneValidated'
  BY DEF NoneValidated
<1>3. Busy' \subseteq Busy \cup {l}
  BY DEF Busy
<1>4. BusyIsActive'
  BY <1>2 DEF BusyIsActive, Busy
<1>5. AnnouncingIsWritten'
  BY <1>2 DEF Announcing, AnnouncingIsWritten
<1>6. OneUpdate'
  BY DEF OneUpdate, TypeInv, TypeOK
<1>7. CancelIsAlone'
  BY DEF CancelIsAlone
<1>8. StartIsAlone'
  <2>1. ASSUME NEW c \in Clients, pc[c] = "accepted" /\ want[c] = "running" PROVE Busy' = {}
    BY <2>1, <1>3 DEF StartIsAlone, BusyIsActive, Busy
  <2> QED
    BY <2>1 DEF StartIsAlone
<1> QED
  BY <1>1, <1>4, <1>5, <1>6, <1>7, <1>8 DEF AnnouncedIsCompleted


\* A caller that moves on without having been validated.
LEMMA AloneClientMoves ==
    ASSUME TypeInv, AloneInv, NEW c \in Clients, NEW p, NEW w, Moves(c, p, w),
           status' = status, cancelled' = cancelled, told' = told, active' = active,
           p \notin {"update", "accepted"},
           p \in UpdatePC => w \in {"running", "cancelled"},
           p = "insert" => w \in {"running", "none"},
           p = "select" => w # "cancelled"
    PROVE  AloneInv'
<1> USE Roles DEF Moves, AloneInv
<1>1. Wishes'
  BY DEF Wishes
<1>2. NoneValidated => NoneValidated'
  BY DEF NoneValidated
<1>3. Busy' = Busy /\ Announcing' = Announcing
  BY DEF Busy, Announcing
<1>4. BusyIsActive'
  BY <1>2 DEF BusyIsActive, Busy
<1>5. AnnouncingIsWritten'
  BY <1>2, <1>3 DEF AnnouncingIsWritten
<1>6. OneUpdate'
  BY DEF OneUpdate, TypeInv, TypeOK
<1>7. CancelIsAlone'
  BY DEF CancelIsAlone
<1>8. StartIsAlone'
  BY <1>3 DEF StartIsAlone
<1> QED
  BY <1>1, <1>4, <1>5, <1>6, <1>7, <1>8 DEF AnnouncedIsCompleted

\* A loop's validation: it is the only one with an UPDATE, if the row is running.
LEMMA AloneLoopSelects ==
    ASSUME TypeInv, AloneInv, NEW l \in Loops, SelectStatus(l)
    PROVE  AloneInv'
<1> USE Roles DEF AloneInv, UpdatePC
<1>1. l \in Busy /\ want[l] \in {"completed", "failed"}
  BY DEF SelectStatus, Busy, Wishes
<1>2. PICK p \in {"update", "refused"} :
           /\ Moves(l, p, want[l])
           /\ p = "update" <=> want[l] \in valid_transitions[status]
  BY DEF SelectStatus, Moves, TypeInv, TypeOK
<1>3. UNCHANGED <<status, active, cancelled, told>>
  BY DEF SelectStatus, ledgerVars, historyVars
<1>4. CASE status = "running" /\ active = l
  <2>1. p = "update"
    BY <1>1, <1>2, <1>4 DEF valid_transitions
  <2>2. Wishes'
    BY <1>1, <1>2, <2>1 DEF Wishes, Moves
  <2>3. Busy' = Busy /\ Announcing' = Announcing
    BY <1>1, <1>2, <1>3, <2>1 DEF Busy, Announcing, Moves, SelectStatus
  <2>4. BusyIsActive'
    BY <1>1, <1>2, <1>3, <1>4, <2>1 DEF BusyIsActive, Busy, Moves
  <2>5. AnnouncingIsWritten'
    BY <1>3, <1>4, <2>3 DEF AnnouncingIsWritten
  <2>6. OneUpdate'
    <3>1. \A m \in Loops : pc[m] # "update"
      <4> SUFFICES ASSUME NEW m \in Loops, pc[m] = "update" PROVE FALSE
        OBVIOUS
      <4>1. CASE m \in cancelled
        BY <1>4, <4>1 DEF OneUpdate
      <4>2. CASE m \notin cancelled
        BY <1>4, <4>2 DEF BusyIsActive, Busy, SelectStatus
      <4> QED
        BY <4>1, <4>2
    <3> QED
      BY <1>1, <1>2, <1>3, <2>1, <3>1 DEF OneUpdate, Moves, Busy, TypeInv, TypeOK
  <2>7. CancelIsAlone'
    BY <1>2, <1>3 DEF CancelIsAlone, Moves
  <2>8. StartIsAlone'
    BY <1>1, <1>2, <1>3, <2>3 DEF StartIsAlone, Moves
  <2> QED
    BY <1>3, <2>2, <2>4, <2>5, <2>6, <2>7, <2>8 DEF AnnouncedIsCompleted
<1>5. CASE want[l] = "failed" /\ status = "completed"
  <2>1. p = "refused"
    BY <1>2, <1>5 DEF valid_transitions
  <2> QED
    BY <1>1, <1>2, <1>3, <1>5, <2>1, AloneLoopMoves DEF Busy
<1> QED
  BY <1>1, <1>4, <1>5 DEF BusyIsActive, SelectStatus

\* A caller's validation: nobody is about to announce when it may write.
LEMMA AloneClientSelects ==
    ASSUME TypeInv, AloneInv, NEW c \in Clients, SelectStatus(c)
    PROVE  AloneInv'
<1> USE Roles DEF AloneInv, UpdatePC
<1>1. want[c] \in {"running", "cancelled"}
  BY DEF SelectStatus, Wishes
<1>2. PICK p \in {"update", "refused"} :
           /\ Moves(c, p, want[c])
           /\ p = "update" <=> want[c] \in valid_transitions[status]
  BY DEF SelectStatus, Moves, TypeInv, TypeOK
<1>3. UNCHANGED <<status, active, cancelled, told>>
  BY DEF SelectStatus, ledgerVars, historyVars
<1>4. CASE p = "refused"
  BY <1>1, <1>2, <1>3, <1>4, AloneClientMoves
<1>5. CASE p = "update"
  <2>1. /\ status # "completed"
        /\ want[c] = "running" => status \in {"created", "failed"}
    BY <1>1, <1>2, <1>5 DEF valid_transitions, TypeInv, TypeOK, WorkflowStatus
  <2>2. Wishes'
    BY <1>1, <1>2, <1>5 DEF Wishes, Moves
  <2>3. Busy' = Busy /\ Announcing' = Announcing
    BY <1>2, <1>3 DEF Busy, Announcing, Moves
  <2>4. BusyIsActive'
    BY <1>2, <1>3, <2>1, <2>3 DEF BusyIsActive, Busy, Moves
  <2>5. AnnouncingIsWritten'
    BY <1>3, <2>1, <2>3 DEF AnnouncingIsWritten
  <2>6. OneUpdate'
    BY <1>2, <1>3 DEF OneUpdate, Moves, TypeInv, TypeOK
  <2>7. CancelIsAlone'
    BY <1>2, <1>3 DEF CancelIsAlone, Moves, SelectStatus
  <2>8. StartIsAlone'
    BY <1>2, <1>3, <1>5, <2>1, <2>3 DEF StartIsAlone, Moves
  <2> QED
    BY <1>3, <2>2, <2>4, <2>5, <2>6, <2>7, <2>8 DEF AnnouncedIsCompleted
<1> QED
  BY <1>4, <1>5

\* A loop's UPDATE: the workflow leaves running, and no other coroutine relied on it.
LEMMA AloneLoopUpdates ==
    ASSUME TypeInv, AloneInv, NEW l \in Loops, UpdateStatus(l)
    PROVE  AloneInv'
<1> USE Roles DEF AloneInv, UpdatePC
<1>1. l \in Busy /\ want[l] \in {"completed", "failed"} /\ pc[l] = "update"
  BY DEF UpdateStatus, Busy, Wishes
<1>2. Moves(l, "accepted", want[l]) /\ status' = want[l]
  BY DEF UpdateStatus, Moves, TypeInv, TypeOK
<1>3. UNCHANGED <<active, cancelled, told>>
  BY DEF UpdateStatus, historyVars
<1>4. status = "running" /\ active = l
  BY <1>1 DEF BusyIsActive
<1>5. \A m \in Loops : pc[m] = "update" => m = l
  BY <1>1 DEF OneUpdate
<1>6. Wishes'
  BY <1>1, <1>2 DEF Wishes, Moves
<1>7. Busy = {l} /\ Busy' = {}
  BY <1>1, <1>2, <1>3, <1>4 DEF Busy, BusyIsActive, Moves
<1>8. CASE want[l] = "failed"
  <2>1. Announcing' = {}
    BY <1>2, <1>3, <1>4, <1>8 DEF Announcing, AnnouncingIsWritten, Moves
  <2> QED
    BY <1>1, <1>2, <1>3, <1>4, <1>5, <1>6, <1>7, <1>8, <2>1
    DEF BusyIsActive, AnnouncingIsWritten, OneUpdate, CancelIsAlone, StartIsAlone, Moves,
        AnnouncedIsCompleted, TypeInv, TypeOK
<1>9. CASE want[l] = "completed"
  <2>1. NoneValidated'
    <3> SUFFICES ASSUME NEW c \in Clients, pc[c] = "update" PROVE FALSE
      BY <1>2 DEF NoneValidated, Moves
    <3> QED
      BY <1>4 DEF CancelIsAlone, StartIsAlone, Wishes
  <2> QED
    BY <1>1, <1>2, <1>3, <1>4, <1>5, <1>6, <1>7, <1>9, <2>1
    DEF BusyIsActive, AnnouncingIsWritten, OneUpdate, CancelIsAlone, StartIsAlone, Moves,
        AnnouncedIsCompleted, TypeInv, TypeOK
<1> QED
  BY <1>1, <1>8, <1>9

\* The caller's UPDATE: no loop works, or has one on its way that would undo a start.
LEMMA AloneClientUpdates ==
    ASSUME TypeInv, AloneInv, Alone, NEW c \in Clients, UpdateStatus(c)
    PROVE  AloneInv'
<1> USE Roles DEF AloneInv, UpdatePC
<1>1. want[c] \in {"running", "cancelled"} /\ pc[c] = "update"
  BY DEF UpdateStatus, Wishes
<1>2. Moves(c, "accepted", want[c]) /\ status' = want[c]
  BY DEF UpdateStatus, Moves, TypeInv, TypeOK
<1>3. UNCHANGED <<active, cancelled, told>>
  BY DEF UpdateStatus, historyVars
<1>4. Busy = {} /\ Announcing = {}
  <2>1. ~NoneValidated
    BY <1>1 DEF NoneValidated
  <2>2. want[c] = "running" => status # "running"
    BY <1>1 DEF StartIsAlone
  <2>3. want[c] = "cancelled" => active \notin Loops
    BY <1>1 DEF CancelIsAlone
  <2> QED
    BY <1>1, <2>1, <2>2, <2>3 DEF BusyIsActive, Busy, AnnouncingIsWritten
<1>5. Busy' = {} /\ Announcing' = {}
  BY <1>2, <1>3, <1>4 DEF Busy, Announcing, Moves
<1>6. Wishes'
  BY <1>1, <1>2 DEF Wishes, Moves
<1>7. OneUpdate'
  BY <1>1, <1>2, <1>3 DEF OneUpdate, Moves, TypeInv, TypeOK
<1>8. CancelIsAlone'
  BY <1>2, <1>3 DEF CancelIsAlone, Moves
<1>9. StartIsAlone'
  <2>1. \A d \in Clients : d = c
    BY DEF Alone
  <2>2. want[c] = "running" => \A l \in Loops : pc[l] # "update"
    BY <1>1, <1>4 DEF StartIsAlone, OneUpdate, Busy
  <2> QED
    BY <1>2, <1>5, <2>1, <2>2 DEF StartIsAlone, Moves
<1> QED
  BY <1>1, <1>2, <1>3, <1>5, <1>6, <1>7, <1>8, <1>9
  DEF BusyIsActive, AnnouncingIsWritten, AnnouncedIsCompleted

\* start_workflow creates a loop: the only one that works.
LEMMA AloneSpawn ==
    ASSUME TypeInv, AloneInv, Alone, NEW c \in Clients, NEW l \in Loops, SpawnLoop(c, l)
    PROVE  AloneInv'
<1> USE Roles DEF AloneInv, UpdatePC
<1>1. /\ pc[c] = "accepted" /\ want[c] = "running" /\ pc[l] = "idle"
      /\ active' = l /\ UNCHANGED <<status, cancelled, told>>
      /\ \A u \in Tasks \ {c, l} : pc'[u] = pc[u] /\ want'[u] = want[u]
      /\ pc'[c] = "idle" /\ pc'[l] = "pending" /\ want'[l] = want[l]
  BY DEF SpawnLoop, IdleLoops, ledgerVars, historyVars, TypeInv, TypeOK
<1>2. status = "running" /\ Busy = {} /\ \A m \in Loops : pc[m] # "update"
  BY <1>1 DEF StartIsAlone
<1>3. \A d \in Clients : d = c
  BY DEF Alone
<1>4. Wishes'
  BY <1>1 DEF Wishes
<1>5. Busy' \subseteq {l} /\ Announcing' \subseteq Announcing
  BY <1>1, <1>2 DEF Busy, Announcing
<1>6. BusyIsActive'
  BY <1>1, <1>2, <1>5 DEF BusyIsActive
<1>7. AnnouncingIsWritten'
  BY <1>1, <1>2, <1>5 DEF AnnouncingIsWritten
<1>8. OneUpdate'
  BY <1>1, <1>2 DEF OneUpdate, TypeInv, TypeOK
<1>9. CancelIsAlone' /\ StartIsAlone'
  BY <1>1, <1>3 DEF CancelIsAlone, StartIsAlone
<1> QED
  BY <1>1, <1>4, <1>6, <1>7, <1>8, <1>9 DEF AnnouncedIsCompleted

\* cancel_workflow stops the one loop that works.
LEMMA AloneCancel ==
    ASSUME TypeInv, AloneInv, Alone, NEW c \in Clients, CancelWorkflow(c)
    PROVE  AloneInv'
<1> USE Roles DEF AloneInv, UpdatePC
<1>1. Moves(c, "select", "cancelled")
  BY GotoMoves DEF CancelWorkflow
<1>2. UNCHANGED <<status, told>> /\ active' = NoTask /\ pc[c] = "idle"
  BY DEF CancelWorkflow, ledgerVars, historyVars
<1>3. /\ cancelled' \in {cancelled, cancelled \cup {active}}
      /\ cancelled' \subseteq Loops
      /\ active \in Loops /\ pc[active] # "idle" => active \in cancelled'
  BY DEF CancelWorkflow, TypeInv, TypeOK
<1>4. \A d \in Clients : d = c
  BY DEF Alone
<1>5. Wishes'
  BY <1>1 DEF Wishes, Moves
<1>6. NoneValidated => NoneValidated'
  BY <1>1 DEF NoneValidated, Moves
<1>7. Busy' \subseteq Busy \ {active} /\ Announcing' \subseteq Announcing
  BY <1>1, <1>3 DEF Busy, Announcing, Moves
<1>8. BusyIsActive'
  BY <1>1, <1>2, <1>6, <1>7 DEF BusyIsActive, Busy, Moves
<1>9. AnnouncingIsWritten'
  BY <1>2, <1>6, <1>7 DEF AnnouncingIsWritten
<1>10. OneUpdate'
  <2>1. ASSUME NEW l \in Loops, l \notin cancelled, pc[l] = "update" PROVE status = "running"
    BY <2>1 DEF BusyIsActive, Busy
  <2> QED
    BY <1>1, <1>2, <1>3, <2>1 DEF OneUpdate, Moves, TypeInv, TypeOK
<1>11. CancelIsAlone' /\ StartIsAlone'
  BY <1>1, <1>2, <1>4 DEF CancelIsAlone, StartIsAlone, Moves
<1> QED
  BY <1>2, <1>5, <1>8, <1>9, <1>10, <1>11 DEF AnnouncedIsCompleted

\* _complete_workflow after the status: the completion is written.
LEMMA AloneCompletes ==
    ASSUME TypeInv, AloneInv, NEW l \in Loops, LoopCompletes(l)
    PROVE  AloneInv'
<1> USE Roles DEF AloneInv, UpdatePC
<1>1. Moves(l, "notify", "none")
  BY GotoMoves DEF LoopCompletes
<1>2. UNCHANGED <<status, cancelled, told>> /\ active' = NoTask
  BY DEF LoopCompletes, ledgerVars, historyVars
<1>3. l \in Announcing
  BY DEF LoopCompletes, Announcing
<1>4. status = "completed" /\ NoneValidated
  BY <1>3 DEF AnnouncingIsWritten
<1>5. Wishes' /\ NoneValidated'
  BY <1>1, <1>4 DEF Wishes, NoneValidated, Moves
<1>6. BusyIsActive' /\ AnnouncingIsWritten'
  BY <1>1, <1>2, <1>4, <1>5 DEF BusyIsActive, Busy, AnnouncingIsWritten, Moves
<1>7. OneUpdate'
  BY <1>1, <1>2 DEF OneUpdate, Moves, TypeInv, TypeOK
<1>8. CancelIsAlone' /\ StartIsAlone'
  BY <1>1, <1>2, <1>4 DEF CancelIsAlone, StartIsAlone, Moves
<1> QED
  BY <1>2, <1>5, <1>6, <1>7, <1>8 DEF AnnouncedIsCompleted

\* on_completed fires on what is written.
LEMMA AloneNotifies ==
    ASSUME TypeInv, AloneInv, NEW l \in Loops, NotifyCompleted(l)
    PROVE  AloneInv'
<1> USE Roles DEF AloneInv, UpdatePC
<1>1. Moves(l, "idle", "none")
  BY GotoMoves DEF NotifyCompleted, End
<1>2. UNCHANGED <<status, cancelled, active>> /\ told' = told \cup {status}
  BY DEF NotifyCompleted, ledgerVars
<1>3. l \in Announcing
  BY DEF NotifyCompleted, Announcing
<1>4. status = "completed" /\ NoneValidated
  BY <1>3 DEF AnnouncingIsWritten
<1>5. Wishes' /\ NoneValidated'
  BY <1>1, <1>4 DEF Wishes, NoneValidated, Moves
<1>6. BusyIsActive' /\ AnnouncingIsWritten'
  BY <1>1, <1>2, <1>4, <1>5 DEF BusyIsActive, Busy, AnnouncingIsWritten, Moves
<1>7. OneUpdate'
  BY <1>1, <1>2 DEF OneUpdate, Moves, TypeInv, TypeOK
<1>8. CancelIsAlone' /\ StartIsAlone'
  BY <1>1, <1>2, <1>4 DEF CancelIsAlone, StartIsAlone, Moves
<1> QED
  BY <1>2, <1>4, <1>5, <1>6, <1>7, <1>8 DEF AnnouncedIsCompleted

\* The cancellation reaches a loop; an UPDATE on its way may land, on a workflow
\* that no loop works on and no caller has been validated to start.
LEMMA AloneDelivered ==
    ASSUME TypeInv, AloneInv, NEW l \in Loops, CancelDelivered(l)
    PROVE  AloneInv'
<1> USE Roles DEF AloneInv, UpdatePC
<1>1. Moves(l, "idle", "none")
  BY GotoMoves DEF CancelDelivered, End
<1>2. UNCHANGED <<active, told>> /\ cancelled' = cancelled \ {l} /\ l \in cancelled
  BY DEF CancelDelivered, historyVars
<1>3. Wishes' /\ (NoneValidated => NoneValidated')
  BY <1>1 DEF Wishes, NoneValidated, Moves
<1>4. Busy' = Busy /\ Announcing' = Announcing
  BY <1>1, <1>2 DEF Busy, Announcing, Moves
<1>5. CASE status' = status
  BY <1>1, <1>2, <1>3, <1>4, <1>5 DEF BusyIsActive, Busy, AnnouncingIsWritten, OneUpdate,
     CancelIsAlone, StartIsAlone, Moves, AnnouncedIsCompleted, TypeInv, TypeOK
<1>6. CASE pc[l] = "update" /\ status' = want[l]
  <2>1. /\ active = NoTask /\ status \in {"running", "cancelled"}
        /\ want[l] \in {"completed", "failed"}
    BY <1>2, <1>6 DEF OneUpdate, Wishes
  <2>2. Busy = {} /\ Announcing = {}
    BY <2>1 DEF BusyIsActive, Busy, AnnouncingIsWritten
  <2>3. \A m \in Loops : pc'[m] # "update"
    BY <1>1, <1>6 DEF OneUpdate, Moves
  <2>4. \A c \in Clients : ~(pc[c] \in {"update", "accepted"} /\ want[c] = "running")
    BY <1>6, <2>1 DEF StartIsAlone
  <2> QED
    BY <1>1, <1>2, <1>3, <1>4, <1>6, <2>1, <2>2, <2>3, <2>4
    DEF BusyIsActive, AnnouncingIsWritten, OneUpdate, CancelIsAlone, StartIsAlone, Moves,
        AnnouncedIsCompleted, TypeInv, TypeOK
<1> QED
  BY <1>5, <1>6 DEF CancelDelivered

LEMMA AloneFrame ==
    ASSUME AloneInv, UNCHANGED <<status, active, pc, want, cancelled, told>>
    PROVE  AloneInv'
  BY DEF AloneInv, Wishes, NoneValidated, BusyIsActive, Busy, AnnouncingIsWritten, Announcing,
     OneUpdate, CancelIsAlone, StartIsAlone, AnnouncedIsCompleted

LEMMA AloneLoopStep ==
    ASSUME TypeInv, AloneInv, Calm, NEW l \in Loops, LoopStep(l)
    PROVE  AloneInv'
<1> USE Roles DEF ledgerVars, historyVars, UpdatePC
\* A dispatch that leads to the next await of the iteration.
<1>1. ASSUME NEW p \in LoopPC \ {"notify"}, NEW w, NEW s,
             l \notin cancelled, pc[l] \in LoopPC \ {"notify"},
             Goto(l, p, w, s), UNCHANGED <<status, active, cancelled, told>>
      PROVE  AloneInv'
  <2>1. l \in Busy /\ status = "running" /\ active = l
    BY <1>1 DEF AloneInv, BusyIsActive, Busy, LoopPC
  <2> QED
    BY <1>1, <2>1, GotoMoves, AloneLoopMoves DEF LoopPC
<1>2. CASE SelectStatus(l) \/ UpdateStatus(l)
  BY <1>2, AloneLoopSelects, AloneLoopUpdates
<1>3. CASE QueryPending(l)
  BY <1>1, <1>3 DEF QueryPending, LoopPC
<1>4. ASSUME NEW i \in Items, DispatchItem(l, i) PROVE AloneInv'
  BY <1>1, <1>4 DEF DispatchItem, LoopPC
<1>5. CASE CheckComplete(l)
  <2>1. l \in Busy /\ status = "running" /\ active = l
    BY <1>5 DEF CheckComplete, AloneInv, BusyIsActive, Busy
  <2>2. CASE Goto(l, "select", "completed", {})
    BY <1>5, <2>1, <2>2, GotoMoves, AloneLoopMoves DEF CheckComplete, Busy
  <2> QED
    BY <1>1, <1>5, <2>2 DEF CheckComplete, LoopPC
<1>6. CASE RunWatchdogs(l)
  <2>1. \A k \in Alarms : k # "storm"
    BY DEF Calm
  <2> QED
    BY <1>1, <1>6, <2>1 DEF RunWatchdogs, LoopPC
<1>7. CASE LoopCompletes(l) \/ NotifyCompleted(l)
  BY <1>7, AloneCompletes, AloneNotifies
<1>8. CASE LoopSuspended(l)
  BY <1>8 DEF LoopSuspended, AloneInv, Wishes
<1>9. CASE LoopFailed(l)
  BY <1>9, GotoMoves, AloneLoopMoves DEF LoopFailed, End
<1>10. CASE CancelDelivered(l)
  BY <1>10, AloneDelivered
<1> QED
  BY <1>2, <1>3, <1>4, <1>5, <1>6, <1>7, <1>8, <1>9, <1>10 DEF LoopStep

LEMMA AloneClientStep ==
    ASSUME TypeInv, AloneInv, Alone, Calm, NEW c \in Clients, ClientStep(c) \/ ClientCall(c)
    PROVE  AloneInv'
<1> USE Roles DEF ledgerVars, historyVars, UpdatePC
<1>1. CASE SelectStatus(c) \/ UpdateStatus(c)
  BY <1>1, AloneClientSelects, AloneClientUpdates
<1>2. ASSUME NEW i \in Items, CreateWorkItem(c, i) PROVE AloneInv'
  <2>1. pc[c] = "insert" /\ want[c] \in {"running", "none"}
    BY <1>2 DEF CreateWorkItem, AloneInv, Wishes
  <2>2. PICK p \in {"insert", "select", "idle"}, w \in {"running", "none"}, s \in SUBSET Items :
          Goto(c, p, w, s) /\ (p = "select" => w = "running")
    BY <1>2, <2>1 DEF CreateWorkItem, End, TypeInv, TypeOK
  <2> QED
    BY <1>2, <2>2, GotoMoves, AloneClientMoves DEF CreateWorkItem
<1>3. CASE DuplicateWorkItem(c) \/ ClientReturns(c)
  BY <1>3, GotoMoves, AloneClientMoves DEF DuplicateWorkItem, ClientReturns, End
<1>4. ASSUME NEW l \in Loops, SpawnLoop(c, l) PROVE AloneInv'
  BY <1>4, AloneSpawn
<1>5. ASSUME NEW B \in SUBSET Items, StartWorkflow(c, B) \/ AddWorkItems(c, B) PROVE AloneInv'
  BY <1>5, GotoMoves, AloneClientMoves DEF StartWorkflow, AddWorkItems, BeginInserts
<1>6. CASE CancelWorkflow(c)
  BY <1>6, AloneCancel
<1>7. ASSUME NEW k \in Kinds, SubmitInterrupt(c, k) PROVE AloneInv'
  <2>1. k # "storm"
    BY <1>7 DEF SubmitInterrupt, Calm
  <2> QED
    BY <1>7, <2>1, GotoMoves, AloneClientMoves DEF SubmitInterrupt, End
<1> QED
  BY <1>1, <1>2, <1>3, <1>4, <1>5, <1>6, <1>7 DEF ClientStep, ClientCall

\* An exception sends a loop to its handler, which finds the row running or completed.
LEMMA AloneFailure ==
    ASSUME TypeInv, AloneInv, Failure
    PROVE  AloneInv'
<1> USE Roles DEF ledgerVars, taskVars, historyVars, UpdatePC
<1>1. ASSUME NEW l \in Loops, LoopRaises(l) PROVE AloneInv'
  <2>1. l \notin cancelled /\ pc[l] # "idle" /\ UNCHANGED <<status, active, cancelled, told>>
    BY <1>1 DEF LoopRaises
  <2>2. CASE want[l] = "failed"
    BY <1>1, <2>1, <2>2, GotoMoves, AloneLoopMoves DEF LoopRaises, End
  <2>3. CASE want[l] # "failed"
    <3>1. l \in Busy \/ l \in Announcing
      BY <2>1, <2>3 DEF Busy, Announcing, AloneInv, Wishes, TypeInv, TypeOK, LoopPC
    <3>2. \/ l \in Busy /\ status = "running" /\ active = l
          \/ status = "completed" /\ NoneValidated
      BY <2>3, <3>1 DEF AloneInv, BusyIsActive, AnnouncingIsWritten
    <3> QED
      BY <1>1, <2>1, <2>3, <3>2, GotoMoves, AloneLoopMoves DEF LoopRaises
  <2> QED
    BY <2>2, <2>3
<1>2. ASSUME NEW c \in Clients, ClientRaises(c) PROVE AloneInv'
  BY <1>2, GotoMoves, AloneClientMoves DEF ClientRaises, End
<1>3. ASSUME NEW i \in Items, NEW o \in Outcomes, ReceiptRaises(i, o) PROVE AloneInv'
  BY <1>3, AloneFrame DEF ReceiptRaises
<1>4. CASE Crash
  <2>1. /\ \A t \in Tasks : pc'[t] = "idle"
        /\ cancelled' = {} /\ UNCHANGED <<status, told>>
    BY <1>4 DEF Crash
  <2> QED
    BY <2>1 DEF AloneInv, Wishes, BusyIsActive, Busy, AnnouncingIsWritten, Announcing,
       OneUpdate, CancelIsAlone, StartIsAlone, AnnouncedIsCompleted
<1> QED
  BY <1>1, <1>2, <1>3, <1>4 DEF Failure

LEMMA AloneInvStep ==
    ASSUME Alone, Calm, TypeInv, AloneInv, [Next]_vars
    PROVE  AloneInv'
<1>1. CASE WorkerStep
  BY <1>1, AloneFrame DEF WorkerStep, SubmitReceipt, ApplyReceipt, UpdateWorkItem, ledgerVars,
     taskVars, historyVars
<1>2. CASE UNCHANGED vars
  BY <1>2, AloneFrame DEF vars, ledgerVars, taskVars, historyVars
<1> QED
  BY <1>1, <1>2, AloneLoopStep, AloneClientStep, AloneFailure DEF Next

LEMMA AloneInvariant ==
    ASSUME Alone, Calm
    PROVE  Spec => [](TypeInv /\ AloneInv)
<1>1. TypeInv /\ AloneInv /\ [Next]_vars => TypeInv' /\ AloneInv'
  BY TypeInvStep, AloneInvStep
<1> QED
  BY <1>1, InitTypeInv, InitAloneInv, PTL DEF Spec

\* With one caller and no storm, at most one loop queries and dispatches at any time,
\* through restarts, cancels, failures and crashes.
THEOREM OneLoopTheorem ==
    ASSUME Alone, Calm
    PROVE  Spec => []OneLoop
<1>1. TypeInv /\ AloneInv => OneLoop
  <2> SUFFICES ASSUME TypeInv, AloneInv PROVE Cardinality(Dispatching \ cancelled) <= 1
    BY DEF OneLoop
  <2>1. Dispatching \ cancelled \subseteq {active}
    BY DEF Dispatching, AloneInv, BusyIsActive, Busy
  <2>2. Dispatching \ cancelled = {} \/ Dispatching \ cancelled = {active}
    BY <2>1
  <2>3. Cardinality({}) = 0 /\ Cardinality({active}) = 1
    BY FS_EmptySet, FS_Singleton
  <2>4. Cardinality(Dispatching \ cancelled) \in {0, 1}
    BY <2>2, <2>3
  <2> QED
    BY <2>4
<1> QED
  BY <1>1, AloneInvariant, PTL

\* With one caller and no storm, a cancelled workflow has no loop that would go on
\* dispatching once the call is over.
THEOREM CancelledIsStoppedTheorem ==
    ASSUME Alone, Calm
    PROVE  Spec => []CancelledIsStopped
<1>1. AloneInv => CancelledIsStopped
  BY DEF CancelledIsStopped, AloneInv, BusyIsActive, Busy, Dispatching
<1> QED
  BY <1>1, AloneInvariant, PTL

\* With one caller and no storm, on_completed is only ever handed a completed workflow,
\* although _complete_workflow does not look at what the status change returned.
THEOREM AnnouncedIsCompletedTheorem ==
    ASSUME Alone, Calm
    PROVE  Spec => []AnnouncedIsCompleted
<1>1. AloneInv => AnnouncedIsCompleted
  BY DEF AloneInv
<1> QED
  BY <1>1, AloneInvariant, PTL
-----------------------------------------------------------------------------
(* The refinement of WorkflowLifecycle.  Without cancels no UPDATE is ever *)
(* overtaken: whoever is at one was validated against a row that nobody    *)
(* has written since.                                                      *)

NoCancels == "cancel" \notin Calls

NothingCancelled ==
    /\ cancelled = {}
    /\ \A c \in Clients : want[c] # "cancelled"

LEMMA NothingCancelledStep ==
    ASSUME NoCancels, TypeInv, NothingCancelled, [Next]_vars
    PROVE  NothingCancelled'
<1> USE Roles DEF NothingCancelled, taskVars
\* A coroutine that moves on: only a cancel makes a caller want "cancelled".
<1>1. ASSUME NEW t \in Tasks, NEW p, NEW w, NEW s, Goto(t, p, w, s), cancelled' = cancelled,
             t \in Clients => w # "cancelled"
      PROVE  NothingCancelled'
  <2>1. Moves(t, p, w)
    BY <1>1, GotoMoves
  <2> QED
    BY <1>1, <2>1 DEF Moves
<1>2. CASE UNCHANGED vars
  BY <1>2 DEF vars
<1>3. ASSUME NEW t \in Tasks, SelectStatus(t) \/ UpdateStatus(t) PROVE NothingCancelled'
  BY <1>3 DEF SelectStatus, UpdateStatus
<1>4. ASSUME NEW l \in Loops, LoopStep(l) PROVE NothingCancelled'
  <2>1. CASE SelectStatus(l) \/ UpdateStatus(l)
    BY <1>3, <2>1
  <2>2. CASE QueryPending(l) \/ \E i \in Items : DispatchItem(l, i)
    BY <1>1, <2>2 DEF QueryPending, DispatchItem
  <2>3. CASE CheckComplete(l) \/ RunWatchdogs(l) \/ LoopCompletes(l) \/ NotifyCompleted(l)
             \/ LoopSuspended(l) \/ LoopFailed(l)
    BY <1>1, <2>3 DEF CheckComplete, RunWatchdogs, LoopCompletes, NotifyCompleted, LoopSuspended,
       LoopFailed, End
  <2>4. CASE CancelDelivered(l)
    BY <2>4 DEF CancelDelivered
  <2> QED
    BY <1>4, <2>1, <2>2, <2>3, <2>4 DEF LoopStep
<1>5. ASSUME NEW c \in Clients, ClientStep(c) \/ ClientCall(c) PROVE NothingCancelled'
  <2>1. CASE SelectStatus(c) \/ UpdateStatus(c)
    BY <1>3, <2>1
  <2>2. ASSUME NEW i \in Items, CreateWorkItem(c, i) PROVE NothingCancelled'
    BY <1>1, <2>2 DEF CreateWorkItem, End
  <2>3. CASE DuplicateWorkItem(c) \/ ClientReturns(c)
    BY <1>1, <2>3 DEF DuplicateWorkItem, ClientReturns, End
  <2>4. ASSUME NEW l \in Loops, SpawnLoop(c, l) PROVE NothingCancelled'
    BY <2>4 DEF SpawnLoop, TypeInv, TypeOK
  <2>5. ASSUME NEW B \in SUBSET Items, StartWorkflow(c, B) \/ AddWorkItems(c, B)
        PROVE  NothingCancelled'
    BY <1>1, <2>5 DEF StartWorkflow, AddWorkItems, BeginInserts
  <2>6. ASSUME NEW k \in Kinds, SubmitInterrupt(c, k) PROVE NothingCancelled'
    BY <1>1, <2>6 DEF SubmitInterrupt, End
  <2> QED
    BY <1>5, <2>1, <2>2, <2>3, <2>4, <2>5, <2>6
    DEF ClientStep, ClientCall, CancelWorkflow, NoCancels
<1>6. CASE WorkerStep
  BY <1>6 DEF WorkerStep, SubmitReceipt, ApplyReceipt, UpdateWorkItem
<1>7. CASE Failure
  <2>1. ASSUME NEW t \in Tasks, LoopRaises(t) \/ ClientRaises(t) PROVE NothingCancelled'
    BY <1>1, <2>1 DEF LoopRaises, ClientRaises, End
  <2>2. CASE Crash \/ \E i \in Items, o \in Outcomes : ReceiptRaises(i, o)
    BY <2>2 DEF ReceiptRaises, Crash
  <2> QED
    BY <1>7, <2>1, <2>2 DEF Failure
<1> QED
  BY <1>2, <1>4, <1>5, <1>6, <1>7 DEF Next

\* Each change of the row is a transition of the table.
LEMMA StatusSteps ==
    ASSUME TypeInv, AloneInv, NothingCancelled, [Next]_vars, status' # status
    PROVE  Lifecycle!Transition
<1>1. PICK t \in Tasks : pc[t] = "update" /\ status' = want[t]
  <2> USE DEF ledgerVars, taskVars, faultVars, historyVars
  <2>1. CASE UNCHANGED vars
    BY <2>1 DEF vars
  <2>2. CASE \E t \in Tasks : UpdateStatus(t)
    BY <2>2 DEF UpdateStatus
  <2>3. ASSUME NEW l \in Loops, LoopStep(l) PROVE UpdateStatus(l)
    BY <2>3 DEF LoopStep, SelectStatus, QueryPending, DispatchItem, CheckComplete,
       RunWatchdogs, LoopCompletes, NotifyCompleted, LoopSuspended, LoopFailed, CancelDelivered,
       NothingCancelled
  <2>4. ASSUME NEW c \in Clients, ClientStep(c) PROVE UpdateStatus(c)
    BY <2>4 DEF ClientStep, SelectStatus, CreateWorkItem, DuplicateWorkItem, SpawnLoop,
       ClientReturns
  <2>5. ASSUME NEW c \in Clients, ClientCall(c) PROVE FALSE
    BY <2>5 DEF ClientCall, StartWorkflow, AddWorkItems, BeginInserts, CancelWorkflow,
       SubmitInterrupt
  <2>6. CASE WorkerStep
    BY <2>6 DEF WorkerStep, SubmitReceipt, ApplyReceipt, UpdateWorkItem
  <2>7. CASE Failure
    BY <2>7 DEF Failure, LoopRaises, ClientRaises, ReceiptRaises, Crash
  <2> QED
    BY <2>1, <2>2, <2>3, <2>4, <2>5, <2>6, <2>7, Roles DEF Next
<1>2. CASE t \in Loops
  <2>1. t \in Busy
    BY <1>1, <1>2 DEF Busy, NothingCancelled
  <2>2. status = "running" /\ want[t] \in {"completed", "failed"}
    BY <1>1, <1>2, <2>1 DEF AloneInv, BusyIsActive, Wishes, UpdatePC
  <2> QED
    BY <1>1, <2>2 DEF Lifecycle!Transition, Lifecycle!valid_transitions
<1>3. CASE t \in Clients
  <2>1. want[t] = "running" /\ status \in {"created", "failed"}
    BY <1>1, <1>3 DEF AloneInv, Wishes, StartIsAlone, UpdatePC, NothingCancelled
  <2> QED
    BY <1>1, <2>1 DEF Lifecycle!Transition, Lifecycle!valid_transitions
<1> QED
  BY <1>2, <1>3, Roles

\* With one caller, no storm and no cancel, the engine implements WorkflowLifecycle: the
\* row's status moves along the transition table only, although the UPDATE does not look
\* at the status that the SELECT validated.
THEOREM StatusFollowsTableTheorem ==
    ASSUME Alone, Calm, NoCancels
    PROVE  Spec => StatusFollowsTable
<1>1. Init => Lifecycle!Init
  BY DEF Init, Lifecycle!Init
<1>2. Init => NothingCancelled
  BY DEF Init, NothingCancelled, Tasks
<1>3. TypeInv /\ NothingCancelled /\ [Next]_vars => NothingCancelled'
  BY NothingCancelledStep
<1>4. TypeInv /\ AloneInv /\ NothingCancelled /\ [Next]_vars => [Lifecycle!Transition]_status
  BY StatusSteps
<1> QED
  BY <1>1, <1>2, <1>3, <1>4, AloneInvariant, PTL DEF Spec, StatusFollowsTable, Lifecycle!Spec
-----------------------------------------------------------------------------
(* Orphans.  Every write of RUNNING comes with a caller that creates a new *)
(* loop, a loop only stops working once it has written another status, or  *)
(* has found one, and who cancels a loop writes CANCELLED himself.  So it  *)
(* takes neither one caller nor calm to keep a running workflow.           *)

\* Where a loop is when it works on the workflow.
WorkPC == {"pending", "dispatch", "items", "watch", "select", "update"}

\* A caller at p, wanting w, is about to create a loop or to write CANCELLED.
Handles(p, w) ==
    \/ p = "accepted" /\ w = "running"
    \/ p \in {"select", "update"} /\ w = "cancelled"

\* A loop never writes RUNNING or CANCELLED, and one that a cancel waits for has not ended.
LoopWishes ==
    /\ \A l \in Loops : pc[l] \in UpdatePC => want[l] \in {"suspended", "completed", "failed"}
    /\ \A l \in cancelled : pc[l] # "idle"

\* What most steps of a loop do.
GoesOn(l) ==
    \E p \in LoopPC \cup {"idle", "select"}, w \in {"none", "completed", "suspended"},
       s \in SUBSET Items :
         Goto(l, p, w, s) /\ (p = "select" => w # "none")

LEMMA InitLoopWishes == Init => LoopWishes
  BY DEF Init, LoopWishes, UpdatePC, Tasks

\* A loop that no cancel waits for moves on.
LEMMA LoopWishesMove ==
    ASSUME TypeInv, LoopWishes, NEW l \in Loops \ cancelled, NEW p, NEW w, Moves(l, p, w),
           cancelled' = cancelled,
           p \in UpdatePC => w \in {"suspended", "completed", "failed"}
    PROVE  LoopWishes'
  BY Roles DEF LoopWishes, Moves, TypeInv, TypeOK

\* A caller moves on.
LEMMA LoopWishesCall ==
    ASSUME TypeInv, LoopWishes, NEW c \in Clients, NEW p, NEW w, Moves(c, p, w),
           cancelled' \subseteq cancelled \cup {l \in Loops : pc[l] # "idle"}
    PROVE  LoopWishes'
  BY Roles DEF LoopWishes, Moves, TypeInv, TypeOK

LEMMA LoopWishesStep ==
    ASSUME TypeInv, LoopWishes, [Next]_vars
    PROVE  LoopWishes'
<1> USE Roles DEF ledgerVars, taskVars, historyVars
<1>1. ASSUME NEW l \in Loops, LoopStep(l) PROVE LoopWishes'
  <2>1. CASE SelectStatus(l)
    <3>1. PICK p \in {"update", "refused"} : Moves(l, p, want[l])
      BY <2>1 DEF SelectStatus, Moves, TypeInv, TypeOK
    <3> QED
      BY <2>1, <3>1, LoopWishesMove DEF SelectStatus, LoopWishes, UpdatePC
  <2>2. CASE UpdateStatus(l)
    <3>1. Moves(l, "accepted", want[l])
      BY <2>2 DEF UpdateStatus, Moves, TypeInv, TypeOK
    <3> QED
      BY <2>2, <3>1, LoopWishesMove DEF UpdateStatus, LoopWishes, UpdatePC
  <2>3. CASE CancelDelivered(l)
    <3>1. Moves(l, "idle", "none") /\ cancelled' = cancelled \ {l}
      BY <2>3, GotoMoves DEF CancelDelivered, End
    <3> QED
      BY <3>1 DEF LoopWishes, Moves, UpdatePC, TypeInv, TypeOK
  <2>4. ASSUME ~SelectStatus(l), ~UpdateStatus(l), ~CancelDelivered(l)
        PROVE  l \notin cancelled /\ cancelled' = cancelled /\ GoesOn(l)
    <3> USE DEF GoesOn
    <3>1. todo[l] \in SUBSET Items /\ PendingItems(item, DependsOn) \in SUBSET Items
      BY DEF TypeInv, TypeOK, PendingItems
    <3>2. CASE QueryPending(l)
      BY <3>1, <3>2 DEF QueryPending, LoopPC
    <3>3. ASSUME NEW i \in Items, DispatchItem(l, i)
          PROVE  l \notin cancelled /\ cancelled' = cancelled /\ GoesOn(l)
      <4>1. todo[l] \ {i} \in SUBSET Items
        BY <3>1
      <4> QED
        BY <3>3, <4>1 DEF DispatchItem, LoopPC
    <3>4. CASE CheckComplete(l) \/ RunWatchdogs(l)
      BY <3>4 DEF CheckComplete, RunWatchdogs, LoopPC
    <3>5. CASE LoopCompletes(l) \/ NotifyCompleted(l) \/ LoopSuspended(l) \/ LoopFailed(l)
      BY <3>5 DEF LoopCompletes, NotifyCompleted, LoopSuspended, LoopFailed, LoopPC, End
    <3> QED
      BY <1>1, <2>4, <3>2, <3>3, <3>4, <3>5 DEF LoopStep
  <2> QED
    BY <2>1, <2>2, <2>3, <2>4, GotoMoves, LoopWishesMove DEF GoesOn, UpdatePC, LoopPC
<1>2. ASSUME NEW c \in Clients, ClientStep(c) \/ ClientCall(c) PROVE LoopWishes'
  <2>1. ASSUME NEW p, NEW w, NEW s, Goto(c, p, w, s),
               cancelled' \subseteq cancelled \cup {l \in Loops : pc[l] # "idle"}
        PROVE  LoopWishes'
    BY <2>1, GotoMoves, LoopWishesCall
  <2>2. CASE SelectStatus(c) \/ UpdateStatus(c)
    <3>1. PICK p \in UpdatePC : Moves(c, p, want[c])
      BY <2>2 DEF SelectStatus, UpdateStatus, Moves, UpdatePC, TypeInv, TypeOK
    <3> QED
      BY <2>2, <3>1, LoopWishesCall DEF SelectStatus, UpdateStatus
  <2>3. ASSUME NEW l \in Loops, SpawnLoop(c, l) PROVE LoopWishes'
    BY <2>3 DEF SpawnLoop, IdleLoops, LoopWishes, UpdatePC, TypeInv, TypeOK
  <2>4. ASSUME NEW i \in Items, CreateWorkItem(c, i) PROVE LoopWishes'
    BY <2>1, <2>4 DEF CreateWorkItem, End
  <2>5. CASE DuplicateWorkItem(c) \/ ClientReturns(c) \/ CancelWorkflow(c)
    BY <2>1, <2>5 DEF DuplicateWorkItem, ClientReturns, CancelWorkflow, End
  <2>6. ASSUME NEW B \in SUBSET Items, StartWorkflow(c, B) \/ AddWorkItems(c, B)
        PROVE  LoopWishes'
    BY <2>1, <2>6 DEF StartWorkflow, AddWorkItems, BeginInserts
  <2>7. ASSUME NEW k \in Kinds, SubmitInterrupt(c, k) PROVE LoopWishes'
    BY <2>1, <2>7 DEF SubmitInterrupt, End
  <2> QED
    BY <1>2, <2>2, <2>3, <2>4, <2>5, <2>6, <2>7 DEF ClientStep, ClientCall
<1>3. CASE Failure
  <2>1. ASSUME NEW l \in Loops, LoopRaises(l) PROVE LoopWishes'
    BY <2>1, GotoMoves, LoopWishesMove DEF LoopRaises, End, UpdatePC
  <2>2. ASSUME NEW c \in Clients, ClientRaises(c) PROVE LoopWishes'
    BY <2>2, GotoMoves, LoopWishesCall DEF ClientRaises, End
  <2>3. ASSUME NEW i \in Items, NEW o \in Outcomes, ReceiptRaises(i, o) PROVE LoopWishes'
    BY <2>3 DEF ReceiptRaises, LoopWishes
  <2>4. CASE Crash
    BY <2>4 DEF Crash, LoopWishes, UpdatePC
  <2> QED
    BY <1>3, <2>1, <2>2, <2>3, <2>4 DEF Failure
<1>4. CASE WorkerStep \/ UNCHANGED vars
  BY <1>4 DEF WorkerStep, SubmitReceipt, ApplyReceipt, UpdateWorkItem, vars, LoopWishes
<1> QED
  BY <1>1, <1>2, <1>3, <1>4 DEF Next

\* A step of one coroutine keeps the workflow, when those that work on it or handle it
\* go on doing so.
LEMMA KeptMoves ==
    ASSUME TypeInv, Kept, NEW t \in Tasks, NEW p, NEW w, Moves(t, p, w), status' = status,
           cancelled' = cancelled,
           t \in Loops /\ status = "running" /\ pc[t] \in WorkPC => p \in WorkPC,
           t \in Clients /\ status = "running" /\ Handles(pc[t], want[t]) => Handles(p, w)
    PROVE  Kept'
<1> USE Roles DEF Moves, WorkPC, Handles
<1> SUFFICES ASSUME status = "running" PROVE Kept'
  BY DEF Kept
<1>1. CASE \E l \in Loops \ cancelled : pc[l] \in WorkPC
  <2>1. PICK l \in Loops \ cancelled : pc[l] \in WorkPC
    BY <1>1
  <2>2. l \in Loops \ cancelled' /\ pc'[l] \in WorkPC
    BY <2>1
  <2> QED
    BY <2>2 DEF Kept
<1>2. CASE \E c \in Clients : Handles(pc[c], want[c])
  <2>1. PICK c \in Clients : Handles(pc[c], want[c])
    BY <1>2
  <2>2. Handles(pc'[c], want'[c])
    BY <2>1
  <2> QED
    BY <2>2 DEF Kept
<1> QED
  BY <1>1, <1>2 DEF Kept

\* A loop's step: it stops working with a write of another status only.
LEMMA KeptLoopStep ==
    ASSUME TypeInv, LoopWishes, Kept, NEW l \in Loops, LoopStep(l)
    PROVE  Kept'
<1> USE Roles DEF ledgerVars, historyVars, UpdatePC
<1>1. ASSUME NEW p \in WorkPC \cup {"idle", "notify"}, NEW w, NEW s, Goto(l, p, w, s),
             UNCHANGED <<status, cancelled>>,
             pc[l] \in WorkPC => p \in WorkPC
      PROVE  Kept'
  BY <1>1, GotoMoves, KeptMoves
<1>2. CASE SelectStatus(l)
  <2>1. want[l] \in {"suspended", "completed", "failed"}
    BY <1>2 DEF SelectStatus, LoopWishes
  <2>2. PICK p \in {"update", "refused"} :
             Moves(l, p, want[l]) /\ (p = "update" <=> want[l] \in valid_transitions[status])
    BY <1>2 DEF SelectStatus, Moves, TypeInv, TypeOK
  <2>3. status = "running" => p = "update"
    BY <2>1, <2>2 DEF valid_transitions
  <2> QED
    BY <1>2, <2>2, <2>3, KeptMoves DEF SelectStatus, WorkPC
<1>3. CASE UpdateStatus(l)
  BY <1>3 DEF UpdateStatus, LoopWishes, Kept
<1>4. CASE QueryPending(l) \/ CheckComplete(l) \/ RunWatchdogs(l)
  BY <1>1, <1>4 DEF QueryPending, CheckComplete, RunWatchdogs, WorkPC
<1>5. ASSUME NEW i \in Items, DispatchItem(l, i) PROVE Kept'
  BY <1>1, <1>5 DEF DispatchItem, WorkPC
<1>6. CASE LoopCompletes(l) \/ NotifyCompleted(l) \/ LoopSuspended(l) \/ LoopFailed(l)
  BY <1>1, <1>6 DEF LoopCompletes, NotifyCompleted, LoopSuspended, LoopFailed, End, WorkPC
<1>7. CASE CancelDelivered(l)
  <2>1. status' # status => status' # "running"
    BY <1>7 DEF CancelDelivered, LoopWishes
  <2>2. CASE status' = status
    <3>1. /\ l \in cancelled /\ cancelled' = cancelled \ {l}
          /\ Moves(l, "idle", "none")
      BY <1>7, GotoMoves DEF CancelDelivered, End
    <3> QED
      BY <2>2, <3>1 DEF Kept, Moves
  <2> QED
    BY <2>1, <2>2 DEF Kept
<1> QED
  BY <1>2, <1>3, <1>4, <1>5, <1>6, <1>7 DEF LoopStep

\* A caller's step: who writes RUNNING creates a loop, and who stops one writes CANCELLED.
LEMMA KeptClientStep ==
    ASSUME TypeInv, LoopWishes, Kept, NEW c \in Clients, ClientStep(c) \/ ClientCall(c)
    PROVE  Kept'
<1> USE Roles DEF ledgerVars, historyVars, UpdatePC
<1>1. ASSUME NEW p, NEW w, NEW s, Goto(c, p, w, s), UNCHANGED <<status, cancelled>>,
             Handles(pc[c], want[c]) => Handles(p, w) \/ status # "running"
      PROVE  Kept'
  BY <1>1, GotoMoves, KeptMoves
<1>2. CASE SelectStatus(c)
  <2>1. PICK p \in {"update", "refused"} :
             Moves(c, p, want[c]) /\ (p = "update" <=> want[c] \in valid_transitions[status])
    BY <1>2 DEF SelectStatus, Moves, TypeInv, TypeOK
  <2>2. status = "running" /\ want[c] = "cancelled" => p = "update"
    BY <2>1 DEF valid_transitions
  <2> QED
    BY <1>2, <2>1, <2>2, KeptMoves DEF SelectStatus, Handles
<1>3. CASE UpdateStatus(c)
  <2>1. status' = "running" => pc'[c] = "accepted" /\ want'[c] = "running"
    BY <1>3 DEF UpdateStatus, TypeInv, TypeOK
  <2> QED
    BY <2>1 DEF Kept
<1>4. ASSUME NEW l \in Loops, SpawnLoop(c, l) PROVE Kept'
  <2>1. pc'[l] = "pending" /\ cancelled' = cancelled /\ l \notin cancelled
    BY <1>4 DEF SpawnLoop, IdleLoops, LoopWishes, TypeInv, TypeOK
  <2> QED
    BY <2>1 DEF Kept
<1>5. ASSUME NEW i \in Items, CreateWorkItem(c, i) PROVE Kept'
  BY <1>1, <1>5 DEF CreateWorkItem, End, Handles
<1>6. CASE DuplicateWorkItem(c)
  BY <1>1, <1>6 DEF DuplicateWorkItem, End, Handles
<1>7. CASE ClientReturns(c)
  BY <1>1, <1>7 DEF ClientReturns, End, Handles
<1>8. ASSUME NEW B \in SUBSET Items, StartWorkflow(c, B) \/ AddWorkItems(c, B) PROVE Kept'
  BY <1>1, <1>8 DEF StartWorkflow, AddWorkItems, BeginInserts, Handles
<1>9. CASE CancelWorkflow(c)
  <2>1. pc'[c] = "select" /\ want'[c] = "cancelled"
    BY <1>9 DEF CancelWorkflow, Goto, TypeInv, TypeOK
  <2> QED
    BY <2>1 DEF Kept
<1>10. ASSUME NEW k \in Kinds, SubmitInterrupt(c, k) PROVE Kept'
  BY <1>1, <1>10 DEF SubmitInterrupt, End, Handles
<1> QED
  BY <1>2, <1>3, <1>4, <1>5, <1>6, <1>7, <1>8, <1>9, <1>10 DEF ClientStep, ClientCall

LEMMA KeptStep ==
    ASSUME TypeInv, LoopWishes, Kept, [Next]_vars, ~Abandons
    PROVE  Kept'
<1>1. ASSUME NEW l \in Loops, LoopRaises(l) PROVE Kept'
  <2>1. Goto(l, "select", "failed", {}) /\ UNCHANGED <<status, cancelled>>
    BY <1>1 DEF LoopRaises, Abandons, ledgerVars
  <2> QED
    BY <2>1, GotoMoves, KeptMoves, Roles DEF WorkPC
<1>2. ASSUME NEW i \in Items, NEW o \in Outcomes, ReceiptRaises(i, o) PROVE Kept'
  BY <1>2 DEF ReceiptRaises, Kept, ledgerVars, taskVars
<1>3. CASE WorkerStep \/ UNCHANGED vars
  BY <1>3 DEF WorkerStep, SubmitReceipt, ApplyReceipt, UpdateWorkItem, vars, ledgerVars,
     taskVars, Kept
<1> QED
  BY <1>1, <1>2, <1>3, KeptLoopStep, KeptClientStep DEF Next, Failure, Abandons

\* Whatever callers, storms, loops and errors overtake each other, a running workflow has
\* a loop that works on it, or a caller about to create one or to write CANCELLED: it is
\* only left to itself by a crash, by a call that breaks off, or by an error in the handler
\* of an error.
THEOREM OrphansAreExplainedTheorem == Spec => OrphansAreExplained
<1>1. TypeInv /\ LoopWishes /\ [Next]_vars => TypeInv' /\ LoopWishes'
  BY TypeInvStep, LoopWishesStep
<1>2. TypeInv /\ LoopWishes /\ [Next]_vars => [Kept /\ ~Kept' => Abandons]_vars
  BY KeptStep
<1> QED
  BY <1>1, <1>2, InitTypeInv, InitLoopWishes, PTL DEF Spec, OrphansAreExplained
=============================================================================

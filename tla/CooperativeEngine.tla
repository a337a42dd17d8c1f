------------------------- MODULE CooperativeEngine -------------------------
(***************************************************************************)
(* Mode A of the orchestrator: core/orchestration/workflow.py over the     *)
(* ledger, for one workflow row (rows of different workflows share no      *)
(* state and _active_workflows is keyed by workflow_id).                   *)
(*                                                                         *)
(* The program is one asyncio process; its coroutines interleave at every  *)
(* await.  A coroutine is either a dispatch loop (an element of Loops, the *)
(* task start_workflow creates) or a caller of the engine's public methods *)
(* (an element of Clients).  pc[t] names the await coroutine t is at, and  *)
(* a step is one await completing: one SQL statement taking effect, plus   *)
(* the Python that runs up to the next await.  update_workflow_status is   *)
(* two awaits, a SELECT ("select") and an UPDATE ("update"), and its       *)
(* result reaches the caller in a third step ("accepted" or "refused").    *)
(*                                                                         *)
(* The rows of receipts, notes and decisions are only read by the          *)
(* watchdogs, which count and time them: their verdict is a choice from    *)
(* Alarms.  Callbacks are external; what matters of them is when they      *)
(* fire, which the history variables record.                               *)
(***************************************************************************)
EXTENDS Ledger, Naturals, FiniteSets

CONSTANTS
    Items,         \* item_ids of the work items
    DependsOn,     \* depends_on: for each item, the items it waits for
    Loops,         \* slots for dispatch-loop tasks; bounds the live ones
    Clients,       \* coroutines calling the engine's methods
    Calls,         \* the methods clients call, a subset of Methods
    Alarms,        \* the interrupts watchdogs may raise, a subset of Kinds
    Outcomes,      \* receipt outcomes workers submit
    AgentMoves,    \* pairs <<from, to>> agents write with update_work_item
    LateReceipts,  \* may a worker answer an item that is already terminal?
    DepsFirst,     \* do drivers list an item after what it depends on?
    MaxFaults,     \* bound on database errors and raising callbacks
    MaxCrashes,    \* bound on crashes of the process
    NoTask         \* "no entry" in _active_workflows

Methods == {"start", "add", "cancel", "alarm", "storm"}

\* storm_detected suspends the workflow, the other interrupt kinds do not.
Kinds == {"alarm", "storm"}

ReceiptOutcomes == {"success", "failure", "partial", "timeout"}

ASSUME ConstantsAssumption ==
    /\ DependsOn \in [Items -> SUBSET Items]
    /\ Loops \cap Clients = {}
    /\ NoTask \notin Loops
    /\ Calls \subseteq Methods
    /\ Alarms \subseteq Kinds
    /\ Outcomes \subseteq ReceiptOutcomes
    /\ AgentMoves \subseteq (ItemStatus \ {"absent"}) \X (ItemStatus \ {"absent"})
    /\ LateReceipts \in BOOLEAN
    /\ DepsFirst \in BOOLEAN
    /\ MaxFaults \in Nat
    /\ MaxCrashes \in Nat

VARIABLES
    status,      \* workflows.status
    item,        \* work_items.status by item_id
    interrupts,  \* kinds with an unresolved row in interrupts
    receipts,    \* receipts stored whose work item is not updated yet
    active,      \* the workflow's entry in _active_workflows
    pc,          \* the await each coroutine is at, "idle" when there is none
    want,        \* the status each coroutine is moving the workflow to
    todo,        \* a loop's items left to dispatch, a client's to insert
    cancelled,   \* loops whose task.cancel() has not reached them yet
    faults,      \* errors so far
    crashes,     \* crashes so far
    dispatched,  \* history: items ever handed to on_work_item_ready
    released,    \* history: items that ever were completed or skipped
    told         \* history: statuses at which on_completed has fired

ledgerVars == <<status, item, interrupts>>
taskVars == <<active, pc, want, todo, cancelled>>
faultVars == <<faults, crashes>>
historyVars == <<dispatched, released, told>>
vars == <<ledgerVars, receipts, taskVars, faultVars, historyVars>>

Tasks == Loops \cup Clients

LoopPC == {"pending", "dispatch", "items", "watch", "notify"}
UpdatePC == {"select", "update", "accepted", "refused"}

TypeOK ==
    /\ status \in WorkflowStatus
    /\ item \in [Items -> ItemStatus]
    /\ interrupts \subseteq Kinds
    /\ receipts \subseteq Items \X Outcomes
    /\ active \in Loops \cup {NoTask}
    /\ pc \in [Tasks -> {"idle", "insert"} \cup LoopPC \cup UpdatePC]
    /\ \A l \in Loops : pc[l] # "insert"
    /\ \A c \in Clients : pc[c] \notin LoopPC
    /\ want \in [Tasks -> WorkflowStatus \cup {"none"}]
    /\ todo \in [Tasks -> SUBSET Items]
    /\ cancelled \subseteq Loops
    /\ faults \in 0 .. MaxFaults
    /\ crashes \in 0 .. MaxCrashes
    /\ dispatched \subseteq Items
    /\ released \subseteq Items
    /\ told \subseteq WorkflowStatus

Init ==
    /\ status = "created"
    /\ item = [i \in Items |-> "absent"]
    /\ interrupts = {}
    /\ receipts = {}
    /\ active = NoTask
    /\ pc = [t \in Tasks |-> "idle"]
    /\ want = [t \in Tasks |-> "none"]
    /\ todo = [t \in Tasks |-> {}]
    /\ cancelled = {}
    /\ faults = 0
    /\ crashes = 0
    /\ dispatched = {}
    /\ released = {}
    /\ told = {}

-----------------------------------------------------------------------------
(* Helpers.                                                                *)

\* Coroutine t moves on to p, wanting w, with the items s left to handle.
Goto(t, p, w, s) ==
    /\ pc' = [pc EXCEPT ![t] = p]
    /\ want' = [want EXCEPT ![t] = w]
    /\ todo' = [todo EXCEPT ![t] = s]

End(t) == Goto(t, "idle", "none", {})

\* The row of item i takes status s.
SetItem(i, s) ==
    /\ item' = [item EXCEPT ![i] = s]
    /\ released' = IF s \in ReleasingStatus THEN released \cup {i} ELSE released

IdleLoops == {l \in Loops : pc[l] = "idle"}

\* Loops that are bound to look for items, and may dispatch, again.
Dispatching == {l \in Loops : pc[l] \in {"pending", "dispatch", "items", "watch"}}

\* Clients inside start_workflow.
Starting == {c \in Clients : pc[c] # "idle" /\ want[c] = "running"}

-----------------------------------------------------------------------------
(* update_workflow_status, for whichever coroutine t calls it.             *)

\* SELECT status and validate the transition against what it returned.
SelectStatus(t) ==
    /\ pc[t] = "select"
    /\ t \notin cancelled
    /\ pc' = [pc EXCEPT ![t] =
                IF want[t] \in valid_transitions[status] THEN "update" ELSE "refused"]
    /\ UNCHANGED <<ledgerVars, receipts, active, want, todo, cancelled, faultVars,
                   historyVars>>

\* UPDATE workflows SET status = want WHERE workflow_id: no status in the WHERE.
UpdateStatus(t) ==
    /\ pc[t] = "update"
    /\ t \notin cancelled
    /\ status' = want[t]
    /\ pc' = [pc EXCEPT ![t] = "accepted"]
    /\ UNCHANGED <<item, interrupts, receipts, active, want, todo, cancelled,
                   faultVars, historyVars>>

-----------------------------------------------------------------------------
(* The public methods.                                                     *)

\* A client starts inserting the batch B; an empty batch goes straight on.
BeginInserts(c, B, w) ==
    /\ pc[c] = "idle"
    /\ DepsFirst => \A i \in B : \A d \in DependsOn[i] :
                        d \in B \/ item[d] # "absent"
    /\ Goto(c, IF B = {} THEN "select" ELSE "insert", w, B)
    /\ UNCHANGED <<ledgerVars, receipts, active, cancelled, faultVars, historyVars>>

\* start_workflow(B).  A slot for the loop is reserved (bound: Loops).
StartWorkflow(c, B) ==
    /\ "start" \in Calls
    /\ Cardinality(IdleLoops) > Cardinality(Starting)
    /\ BeginInserts(c, B, "running")

\* add_work_items(B).
AddWorkItems(c, B) ==
    /\ "add" \in Calls
    /\ B # {}
    /\ BeginInserts(c, B, "none")

\* One create_work_item of the batch; start_workflow then changes the status.
CreateWorkItem(c, i) ==
    /\ pc[c] = "insert"
    /\ i \in todo[c]
    /\ DepsFirst => \A d \in DependsOn[i] : item[d] # "absent"
    /\ item[i] = "absent"
    /\ SetItem(i, "pending")
    /\ IF todo[c] # {i} THEN Goto(c, "insert", want[c], todo[c] \ {i})
       ELSE IF want[c] = "running" THEN Goto(c, "select", "running", {})
       ELSE End(c)
    /\ UNCHANGED <<status, interrupts, receipts, active, cancelled, faultVars,
                   dispatched, told>>

\* The item_id exists: the primary key refuses it and the call raises.
DuplicateWorkItem(c) ==
    /\ pc[c] = "insert"
    /\ \E i \in todo[c] : item[i] # "absent"
    /\ End(c)
    /\ UNCHANGED <<ledgerVars, receipts, active, cancelled, faultVars, historyVars>>

\* Back in start_workflow: the transition succeeded, so a loop is created and
\* replaces whatever entry there was.
SpawnLoop(c, l) ==
    /\ pc[c] = "accepted"
    /\ want[c] = "running"
    /\ l \in IdleLoops
    /\ active' = l
    /\ pc' = [pc EXCEPT ![c] = "idle", ![l] = "pending"]
    /\ want' = [want EXCEPT ![c] = "none"]
    /\ UNCHANGED <<ledgerVars, receipts, todo, cancelled, faultVars, historyVars>>

\* Every other return of update_workflow_status to a client.
ClientReturns(c) ==
    /\ \/ pc[c] = "refused"
       \/ pc[c] = "accepted" /\ want[c] # "running"
    /\ End(c)
    /\ UNCHANGED <<ledgerVars, receipts, active, cancelled, faultVars, historyVars>>

\* Faulty variant: the entry is dropped but the task is left running.
CancelWithoutTask(c) ==
    /\ "cancel" \in Calls
    /\ pc[c] = "idle"
    /\ active' = NoTask
    /\ Goto(c, "select", "cancelled", {})
    /\ UNCHANGED <<ledgerVars, receipts, cancelled, faultVars, historyVars>>

\* cancel_workflow up to its first await.
CancelWorkflow(c) ==
    /\ "cancel" \in Calls
    /\ pc[c] = "idle"
    /\ active' = NoTask
    /\ cancelled' = IF active \in Loops /\ pc[active] # "idle"
                    THEN cancelled \cup {active} ELSE cancelled
    /\ Goto(c, "select", "cancelled", {})
    /\ UNCHANGED <<ledgerVars, receipts, faultVars, historyVars>>

\* Faulty variant: the status is changed without a row that says why.
InterruptUnrecorded(c, k) ==
    /\ k \in Calls \cap Kinds
    /\ pc[c] = "idle"
    /\ IF k = "storm" THEN Goto(c, "select", "suspended", {}) ELSE End(c)
    /\ UNCHANGED <<ledgerVars, receipts, active, cancelled, faultVars, historyVars>>

\* submit_interrupt: the row first, then a storm suspends the workflow.
SubmitInterrupt(c, k) ==
    /\ k \in Calls \cap Kinds
    /\ pc[c] = "idle"
    /\ interrupts' = interrupts \cup {k}
    /\ IF k = "storm" THEN Goto(c, "select", "suspended", {}) ELSE End(c)
    /\ UNCHANGED <<status, item, receipts, active, cancelled, faultVars, historyVars>>

-----------------------------------------------------------------------------
(* Receipts and agents.                                                    *)

\* submit_receipt, first await: a worker that was handed item i answers.  One
\* answer per item is on its way at a time: two overlap only in the order in which
\* they are applied, which two successive ones have too.
SubmitReceipt(i, o) ==
    /\ i \in dispatched
    /\ LateReceipts \/ item[i] \notin terminal_statuses
    /\ \A r \in receipts : r[1] # i
    /\ receipts' = receipts \cup {<<i, o>>}
    /\ UNCHANGED <<ledgerVars, taskVars, faultVars, historyVars>>

\* submit_receipt, second await: update_work_item by outcome, with no guard on
\* the item's status; partial and timeout leave it alone.
ApplyReceipt(i, o) ==
    /\ <<i, o>> \in receipts
    /\ receipts' = receipts \ {<<i, o>>}
    /\ SetItem(i, IF o = "success" THEN "completed"
                  ELSE IF o = "failure" THEN "failed" ELSE item[i])
    /\ UNCHANGED <<status, interrupts, taskVars, faultVars, dispatched, told>>

\* An agent writes a work item's status through the ledger; it starts only on
\* items it was handed.
UpdateWorkItem(i, s) ==
    /\ <<item[i], s>> \in AgentMoves
    /\ s = "in_progress" => i \in dispatched
    /\ SetItem(i, s)
    /\ UNCHANGED <<status, interrupts, receipts, taskVars, faultVars, dispatched, told>>

-----------------------------------------------------------------------------
(* The dispatch loop.                                                      *)

\* Faulty variant: the query forgets the dependencies.
QueryAllPending(l) ==
    /\ pc[l] = "pending"
    /\ l \notin cancelled
    /\ LET ready == {i \in Items : item[i] = "pending"} IN
         Goto(l, IF ready = {} THEN "items" ELSE "dispatch", "none", ready)
    /\ UNCHANGED <<ledgerVars, receipts, active, cancelled, faultVars, historyVars>>

\* 1. get_pending_work_items.
QueryPending(l) ==
    /\ pc[l] = "pending"
    /\ l \notin cancelled
    /\ LET ready == PendingItems(item, DependsOn) IN
         Goto(l, IF ready = {} THEN "items" ELSE "dispatch", "none", ready)
    /\ UNCHANGED <<ledgerVars, receipts, active, cancelled, faultVars, historyVars>>

\* One on_work_item_ready callback, in an order that is left open.
DispatchItem(l, i) ==
    /\ pc[l] = "dispatch"
    /\ l \notin cancelled
    /\ i \in todo[l]
    /\ dispatched' = dispatched \cup {i}
    /\ Goto(l, IF todo[l] = {i} THEN "items" ELSE "dispatch", "none", todo[l] \ {i})
    /\ UNCHANGED <<ledgerVars, receipts, active, cancelled, faultVars, released, told>>

\* Faulty variant: only completed items count as resolved.
CheckAllCompleted(l) ==
    /\ pc[l] = "items"
    /\ l \notin cancelled
    /\ IF \A i \in Items : item[i] \in {"absent", "completed"}
       THEN Goto(l, "select", "completed", {})
       ELSE Goto(l, "watch", "none", {})
    /\ UNCHANGED <<ledgerVars, receipts, active, cancelled, faultVars, historyVars>>

\* 2. get_work_items, and _complete_workflow when nothing is left to do.
CheckComplete(l) ==
    /\ pc[l] = "items"
    /\ l \notin cancelled
    /\ IF IsComplete(item) THEN Goto(l, "select", "completed", {})
                           ELSE Goto(l, "watch", "none", {})
    /\ UNCHANGED <<ledgerVars, receipts, active, cancelled, faultVars, historyVars>>

\* 3. _run_watchdogs, whose alarm goes through submit_interrupt.  4 and 5, the
\* query for interrupts and the two sleeps, only repeat callbacks: whatever the
\* query returns, the next iteration starts with 1.
RunWatchdogs(l) ==
    /\ pc[l] = "watch"
    /\ l \notin cancelled
    /\ \/ /\ Goto(l, "pending", "none", {})
          /\ UNCHANGED interrupts
       \/ \E k \in Alarms :
            /\ interrupts' = interrupts \cup {k}
            /\ IF k = "storm" THEN Goto(l, "select", "suspended", {})
                              ELSE Goto(l, "pending", "none", {})
    /\ UNCHANGED <<status, item, receipts, active, cancelled, faultVars, historyVars>>

\* Faulty variant: the completion is announced without writing it.
CompleteUnwritten(l) ==
    /\ pc[l] \in {"select", "accepted", "refused"}
    /\ want[l] = "completed"
    /\ l \notin cancelled
    /\ active' = NoTask
    /\ Goto(l, "notify", "none", {})
    /\ UNCHANGED <<ledgerVars, receipts, cancelled, faultVars, historyVars>>

\* _complete_workflow after the status: its result is not looked at.
LoopCompletes(l) ==
    /\ pc[l] \in {"accepted", "refused"}
    /\ want[l] = "completed"
    /\ l \notin cancelled
    /\ active' = NoTask
    /\ Goto(l, "notify", "none", {})
    /\ UNCHANGED <<ledgerVars, receipts, cancelled, faultVars, historyVars>>

\* get_workflow and on_completed; the loop returns.
NotifyCompleted(l) ==
    /\ pc[l] = "notify"
    /\ l \notin cancelled
    /\ told' = told \cup {status}
    /\ End(l)
    /\ UNCHANGED <<ledgerVars, receipts, active, cancelled, faultVars, dispatched, released>>

\* A storm's status change is over: the loop goes on, whatever the status is.
LoopSuspended(l) ==
    /\ pc[l] \in {"accepted", "refused"}
    /\ want[l] = "suspended"
    /\ l \notin cancelled
    /\ Goto(l, "pending", "none", {})
    /\ UNCHANGED <<ledgerVars, receipts, active, cancelled, faultVars, historyVars>>

\* The handler of an exception is over: on_failed, and the entry stays.
LoopFailed(l) ==
    /\ pc[l] \in {"accepted", "refused"}
    /\ want[l] = "failed"
    /\ l \notin cancelled
    /\ End(l)
    /\ UNCHANGED <<ledgerVars, receipts, active, cancelled, faultVars, historyVars>>

\* CancelledError reaches the loop's await.  An UPDATE already sent may land.
CancelDelivered(l) ==
    /\ l \in cancelled
    /\ \/ UNCHANGED status
       \/ pc[l] = "update" /\ status' = want[l]
    /\ End(l)
    /\ cancelled' = cancelled \ {l}
    /\ UNCHANGED <<item, interrupts, receipts, active, faultVars, historyVars>>

-----------------------------------------------------------------------------
(* Failures.                                                               *)

\* Faulty variant: the handler fails the row without asking the table.
LoopRaisesUnguarded(l) ==
    /\ faults < MaxFaults
    /\ pc[l] # "idle"
    /\ l \notin cancelled
    /\ faults' = faults + 1
    /\ Goto(l, "update", "failed", {})
    /\ UNCHANGED <<ledgerVars, receipts, active, cancelled, crashes, historyVars>>

\* An await of the loop raises (the database, a callback).  The handler moves
\* the workflow to FAILED; an exception in the handler ends the task.
LoopRaises(l) ==
    /\ faults < MaxFaults
    /\ pc[l] # "idle"
    /\ l \notin cancelled
    /\ faults' = faults + 1
    /\ IF want[l] = "failed" THEN End(l) ELSE Goto(l, "select", "failed", {})
    /\ UNCHANGED <<ledgerVars, receipts, active, cancelled, crashes, historyVars>>

\* An await of a client's call raises, and the exception leaves the engine.
ClientRaises(c) ==
    /\ faults < MaxFaults
    /\ pc[c] # "idle"
    /\ faults' = faults + 1
    /\ End(c)
    /\ UNCHANGED <<ledgerVars, receipts, active, cancelled, crashes, historyVars>>

\* submit_receipt fails after the receipt is stored: the item never hears of it.
ReceiptRaises(i, o) ==
    /\ faults < MaxFaults
    /\ <<i, o>> \in receipts
    /\ faults' = faults + 1
    /\ receipts' = receipts \ {<<i, o>>}
    /\ UNCHANGED <<ledgerVars, taskVars, crashes, historyVars>>

\* The process dies and starts again: only the ledger survives, and nothing
\* restarts the loops of the workflows it holds.
Crash ==
    /\ crashes < MaxCrashes
    /\ crashes' = crashes + 1
    /\ receipts' = {}
    /\ active' = NoTask
    /\ pc' = [t \in Tasks |-> "idle"]
    /\ want' = [t \in Tasks |-> "none"]
    /\ todo' = [t \in Tasks |-> {}]
    /\ cancelled' = {}
    /\ UNCHANGED <<ledgerVars, faults, historyVars>>

-----------------------------------------------------------------------------
(* The specification.                                                      *)

LoopStep(l) ==
    \/ SelectStatus(l)
    \/ UpdateStatus(l)
    \/ QueryPending(l)
    \/ \E i \in Items : DispatchItem(l, i)
    \/ CheckComplete(l)
    \/ RunWatchdogs(l)
    \/ LoopCompletes(l)
    \/ NotifyCompleted(l)
    \/ LoopSuspended(l)
    \/ LoopFailed(l)
    \/ CancelDelivered(l)

\* What a client does once it is inside a call.
ClientStep(c) ==
    \/ SelectStatus(c)
    \/ UpdateStatus(c)
    \/ \E i \in Items : CreateWorkItem(c, i)
    \/ DuplicateWorkItem(c)
    \/ \E l \in Loops : SpawnLoop(c, l)
    \/ ClientReturns(c)

ClientCall(c) ==
    \/ \E B \in SUBSET Items : StartWorkflow(c, B) \/ AddWorkItems(c, B)
    \/ CancelWorkflow(c)
    \/ \E k \in Kinds : SubmitInterrupt(c, k)

WorkerStep ==
    \E i \in Items :
        \/ \E o \in Outcomes : SubmitReceipt(i, o) \/ ApplyReceipt(i, o)
        \/ \E s \in ItemStatus : UpdateWorkItem(i, s)

Failure ==
    \/ \E l \in Loops : LoopRaises(l)
    \/ \E c \in Clients : ClientRaises(c)
    \/ \E i \in Items, o \in Outcomes : ReceiptRaises(i, o)
    \/ Crash

Next ==
    \/ \E l \in Loops : LoopStep(l)
    \/ \E c \in Clients : ClientStep(c) \/ ClientCall(c)
    \/ WorkerStep
    \/ Failure

Spec == Init /\ [][Next]_vars

\* The event loop runs every ready coroutine, so a loop or a call that can take
\* its next step eventually does.  Workers are assumed to answer: an item they
\* were handed eventually gets a receipt that settles it, however many partial ones
\* come before, and a stored receipt is applied.  Nobody is obliged to call a
\* method, and nothing is obliged to fail.
Fairness ==
    /\ \A l \in Loops : WF_vars(LoopStep(l))
    /\ \A c \in Clients : WF_vars(ClientStep(c))
    /\ \A i \in Items :
        /\ SF_vars(\E o \in Outcomes \cap {"success", "failure"} : SubmitReceipt(i, o))
        /\ WF_vars(\E o \in Outcomes : ApplyReceipt(i, o))

FairSpec == Spec /\ Fairness

-----------------------------------------------------------------------------
(* Properties.                                                             *)

\* The specification implements the ledger's promise: the row's status only moves
\* along the transition table.  update_workflow_status reads and writes in two
\* statements, so this needs a workflow whose writers do not overlap.
Lifecycle == INSTANCE WorkflowLifecycle

StatusFollowsTable == Lifecycle!Spec

\* The workflow is COMPLETED or CANCELLED, and no UPDATE that was validated earlier
\* is still on its way.
Final == status \in FinalStatus /\ \A t \in Tasks : pc[t] # "update"

\* From then on nothing changes the status, or even gets an UPDATE past the
\* validation: not a storm the watchdogs find, not a restart, not an exception in the
\* loop, although the UPDATE itself does not look at the row's status.
FinalSticks == [][Final => (Final' /\ status' = status)]_vars

\* on_work_item_ready is never fired for an item before each of its dependencies
\* has been completed or skipped at some time (a late failure receipt may have
\* flipped it since), however queries, callbacks and inserts interleave.
DependenciesFirst ==
    \A i \in dispatched : DependsOn[i] \subseteq released

\* A workflow is SUSPENDED only with an unresolved storm on record to say why,
\* even when the process dies between the two writes of submit_interrupt.
SuspendedIsExplained == status = "suspended" => "storm" \in interrupts

\* Two loops never work on the workflow at once: a restart after a failure finds
\* the old loop past its last dispatch.
OneLoop == Cardinality(Dispatching \ cancelled) <= 1

\* When no call is in progress, a cancelled workflow has no loop that would go on
\* dispatching: cancel_workflow found the loop through _active_workflows.
CancelledIsStopped ==
    (status = "cancelled" /\ \A c \in Clients : pc[c] = "idle")
        => Dispatching \subseteq cancelled

\* on_completed only ever sees a workflow whose row says COMPLETED.
AnnouncedIsCompleted == told \subseteq {"completed"}

\* If the row says RUNNING there is a loop that queries, dispatches or is about to write
\* how the workflow ended, or a caller about to create one or to write CANCELLED.
Kept ==
    status = "running" =>
        \/ \E l \in Loops \ cancelled :
             pc[l] \in {"pending", "dispatch", "items", "watch", "select", "update"}
        \/ \E c \in Clients :
             \/ pc[c] = "accepted" /\ want[c] = "running"
             \/ pc[c] \in {"select", "update"} /\ want[c] = "cancelled"

\* The process dies, a call breaks off, or the handler of a loop's exception fails.
Abandons ==
    \/ Crash
    \/ \E c \in Clients : ClientRaises(c)
    \/ \E l \in Loops : want[l] = "failed" /\ LoopRaises(l)

\* A running workflow is left without anybody who would end it by such a failure only,
\* and never by callers, storms and loops that overtake each other.
OrphansAreExplained == [][Kept /\ ~Kept' => Abandons]_vars

\* Nothing the loop can do moves the workflow on: a pending item waits for one
\* that failed, or there is no item to work on.
Wedged ==
    \/ \A i \in Items : item[i] = "absent"
    \/ \E i \in Items : /\ item[i] = "pending"
                        /\ \E d \in DependsOn[i] : item[d] = "failed"

\* A running workflow with a loop ends, or gets stuck in the one way the loop does
\* not detect: an item behind a failed dependency is never dispatched or failed.
RunningEnds ==
    (status = "running" /\ Dispatching # {}) ~> (status # "running" \/ Wedged)
=============================================================================

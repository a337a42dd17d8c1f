----------------------------- MODULE Watchdogs -----------------------------
(***************************************************************************)
(* The watchdogs of core/orchestration/watchdogs as                        *)
(* CooperativeEngine._run_watchdogs asks them, for one running workflow.   *)
(* Module CooperativeEngine takes their verdict for a choice; here it is   *)
(* computed from the notes, receipts and items in the ledger, each of      *)
(* which is read by a query of its own while agents go on writing.         *)
(*                                                                         *)
(* Time is counted in units in which agents and loop are not told apart.   *)
(* Tokens are counted against the one of the two budgets that is nearer to *)
(* its end.  The novelty watchdog, which module Discussion computes, may   *)
(* say either when there are enough notes.                                 *)
(***************************************************************************)
EXTENDS Integers, Sequences, FiniteSets, Functions

CONSTANTS
    Items,         \* work items of the workflow
    Reports,       \* outcomes and tokens a receipt may report
    Budget,        \* TokenBudgetWatchdog.max_tokens
    WarnPct,       \* TokenBudgetWatchdog.warn_pct, in percent
    MinNotes,      \* NoveltyWatchdog.min_notes_before_check
    Window,        \* VelocityWatchdog.window_seconds
    MaxNotes,      \* its max_notes_per_minute, in a window
    MaxReceipts,   \* its max_receipts_per_minute, in a window
    Timeout,       \* ReceiptWatchdog.timeout_seconds
    MaxClock,      \* bound on time
    NoteLimit,     \* bound on notes
    ReceiptLimit   \* bound on receipts

WatchdogsAssumption ==
    /\ Reports \subseteq {"success", "failure", "partial"} \X Nat
    /\ Budget \in Nat \ {0}
    /\ WarnPct \in 0 .. 100
    /\ {MinNotes, Window, MaxNotes, MaxReceipts, Timeout} \subseteq Nat
    /\ {MaxClock, NoteLimit, ReceiptLimit} \subseteq Nat

VARIABLES
    clock,       \* now
    notes,       \* created_at of the swarm notes, in their order
    receipts,    \* the receipts: target, outcome, tokens, created_at
    item,        \* status of each item and its started_at
    applying,    \* receipts that are stored and whose items are not yet updated
    loop,        \* where _run_watchdogs is and what it has read
    suspended,   \* has a storm suspended the workflow?
    interrupts,  \* the interrupts on record: kind and item
    latest,      \* history: the latest of them, when it was raised and its round begun
    looked       \* history: when the items were last read

vars == <<clock, notes, receipts, item, applying, loop, suspended, interrupts, latest,
          looked>>

Asleep == [at |-> "asleep", notes |-> <<>>, receipts |-> <<>>, absent |-> {}, begun |-> 0]

TypeOK ==
    /\ clock \in 0 .. MaxClock
    /\ \A i \in DOMAIN notes : notes[i] \in 0 .. clock
    /\ \A i \in DOMAIN receipts : receipts[i].at \in 0 .. clock
    /\ item \in [Items -> [status : {"pending", "in_progress", "completed", "failed"},
                           started : 0 .. MaxClock]]
    /\ applying \subseteq DOMAIN receipts
    /\ loop.at \in {"asleep", "receipts", "budget", "items", "absent"}
    /\ suspended \in BOOLEAN

Init ==
    /\ clock = 0
    /\ notes = <<>>
    /\ receipts = <<>>
    /\ item = [i \in Items |-> [status |-> "pending", started |-> 0]]
    /\ applying = {}
    /\ loop = Asleep
    /\ suspended = FALSE
    /\ interrupts = {}
    /\ latest = [kind |-> "none", about |-> "none", begun |-> 0, at |-> 0]
    /\ looked = 0

-----------------------------------------------------------------------------
(* Time and agents.                                                        *)

Tick ==
    /\ clock < MaxClock
    /\ clock' = clock + 1
    /\ UNCHANGED <<notes, receipts, item, applying, loop, suspended, interrupts, latest, looked>>

\* add_swarm_note.
AddNote ==
    /\ Len(notes) < NoteLimit
    /\ notes' = Append(notes, clock)

SubmitNote ==
    /\ AddNote
    /\ UNCHANGED <<clock, receipts, item, applying, loop, suspended, interrupts, latest, looked>>

Set(i, status) == item' = [item EXCEPT ![i].status = status]

\* An agent takes an item: started_at.
TakeItem(i) ==
    /\ item[i].status = "pending"
    /\ item' = [item EXCEPT ![i] = [status |-> "in_progress", started |-> clock]]
    /\ UNCHANGED <<clock, notes, receipts, applying, loop, suspended, interrupts, latest, looked>>

\* submit_receipt: the receipt first, which may be a late or a second one.
AddReceipt(i, report) ==
    /\ item[i].status # "pending"
    /\ Len(receipts) < ReceiptLimit
    /\ receipts' = Append(receipts, [target |-> i, outcome |-> report[1], tokens |-> report[2],
                                     at |-> clock])
    /\ applying' = applying \cup {Len(receipts) + 1}
    /\ UNCHANGED <<clock, notes, item, loop, suspended, interrupts, latest, looked>>

\* Then the item, or for a partial result a note.
ApplyReceipt(r) ==
    /\ r \in applying
    /\ applying' = applying \ {r}
    /\ \/ /\ receipts[r].outcome = "success"
          /\ Set(receipts[r].target, "completed")
          /\ UNCHANGED notes
       \/ /\ receipts[r].outcome = "failure"
          /\ Set(receipts[r].target, "failed")
          /\ UNCHANGED notes
       \/ /\ receipts[r].outcome = "partial"
          /\ AddNote
          /\ UNCHANGED item
    /\ UNCHANGED <<clock, receipts, loop, suspended, interrupts, latest, looked>>

-----------------------------------------------------------------------------
(* The verdicts.                                                           *)

\* TokenBudgetWatchdog.check: a warning and an excess are both velocity_high.
OverBudget(rs) ==
    100 * SumFunction([i \in DOMAIN rs |-> rs[i].tokens]) >= WarnPct * Budget

Recent(times) == Cardinality({i \in DOMAIN times : times[i] > clock - Window})

\* VelocityWatchdog.check.
Storm(ns, rs) ==
    \/ Recent(ns) > MaxNotes
    \/ Recent([i \in DOMAIN rs |-> rs[i].at]) > MaxReceipts

\* ReceiptWatchdog.check_work_items.
Overdue(i) == item[i].status = "in_progress" /\ item[i].started < clock - Timeout

\* Faulty variant: only an outcome counts as an answer.
AbsentUntilDone(rs) ==
    {i \in Items : Overdue(i) /\ \A r \in DOMAIN rs : rs[r].target = i =>
                                                      rs[r].outcome = "partial"}

Absent(rs) == {i \in Items : Overdue(i) /\ \A r \in DOMAIN rs : rs[r].target # i}

-----------------------------------------------------------------------------
(* _run_watchdogs.                                                         *)

\* add_interrupt; about is the item or none.
AddInterrupt(kind, about) ==
    /\ interrupts' = interrupts \cup {<<kind, about>>}
    /\ latest' = [kind |-> kind, about |-> about, begun |-> loop.begun, at |-> clock]

Terminal == \A i \in Items : item[i].status \in {"completed", "failed"}

\* The loop has dispatched and not found the workflow complete; the notes are read.
ReadNotes ==
    /\ loop = Asleep
    /\ ~Terminal
    /\ loop' = [Asleep EXCEPT !.at = "receipts", !.notes = notes, !.begun = clock]
    /\ UNCHANGED <<clock, notes, receipts, item, applying, suspended, interrupts, latest, looked>>

ReadReceipts ==
    /\ loop.at = "receipts"
    /\ loop' = [loop EXCEPT !.at = "budget", !.receipts = receipts]
    /\ UNCHANGED <<clock, notes, receipts, item, applying, suspended, interrupts, latest, looked>>

\* Three watchdogs without an await between them: the first that speaks ends the round.
Evaluate ==
    /\ loop.at = "budget"
    /\ \E novelty \in IF Len(loop.notes) >= MinNotes THEN BOOLEAN ELSE {FALSE} :
         LET kind == IF OverBudget(loop.receipts) THEN "velocity_high"
                     ELSE IF novelty THEN "novelty_low"
                     ELSE IF Storm(loop.notes, loop.receipts) THEN "storm_detected"
                     ELSE "none"
         IN  IF kind = "none" THEN /\ loop' = [loop EXCEPT !.at = "items", !.notes = <<>>]
                                  /\ UNCHANGED <<interrupts, latest, suspended>>
             ELSE /\ AddInterrupt(kind, "none")
                  /\ suspended' = (suspended \/ kind = "storm_detected")
                  /\ loop' = Asleep
    /\ UNCHANGED <<clock, notes, receipts, item, applying, looked>>

\* The items are read and compared with the receipts that were read before.
ReadItems ==
    /\ loop.at = "items"
    /\ LET absent == Absent(loop.receipts)
       IN  loop' = IF absent = {} THEN Asleep
                   ELSE [loop EXCEPT !.at = "absent", !.absent = absent, !.receipts = <<>>]
    /\ looked' = clock
    /\ UNCHANGED <<clock, notes, receipts, item, applying, suspended, interrupts, latest>>

\* One interrupt after the other.
SubmitAbsent ==
    /\ loop.at = "absent"
    /\ \E i \in loop.absent :
         /\ AddInterrupt("receipt_absent", i)
         /\ loop' = IF loop.absent = {i} THEN Asleep ELSE [loop EXCEPT !.absent = @ \ {i}]
    /\ UNCHANGED <<clock, notes, receipts, item, applying, suspended, looked>>

-----------------------------------------------------------------------------
AgentStep ==
    \/ SubmitNote
    \/ \E i \in Items : TakeItem(i)
    \/ \E i \in Items, report \in Reports : AddReceipt(i, report)
    \/ \E r \in applying : ApplyReceipt(r)

LoopStep == ReadNotes \/ ReadReceipts \/ Evaluate \/ ReadItems \/ SubmitAbsent

Next == Tick \/ AgentStep \/ LoopStep

Spec == Init /\ [][Next]_vars

-----------------------------------------------------------------------------
(* Properties.                                                             *)

Within(times, a) == {i \in DOMAIN times : a.at - Window < times[i] /\ times[i] <= a.at}

Times == [r \in DOMAIN receipts |-> receipts[r].at]

Answered(i, before) == \E r \in DOMAIN receipts :
                          receipts[r].target = i /\ receipts[r].at < before

\* What an interrupt says is true of the time it is raised, although notes,
\* receipts and items are read one after the other and written meanwhile: a storm had as
\* many notes or receipts in its window, the budget was used up to the warning, and an
\* absent receipt was overdue and had not been there when the round began (one that comes
\* later in the round and has not reached its item yet is called absent).  And an item that
\* was overdue when items were last read, and has no receipt to this day, is on record or
\* about to be.
AlarmsAreTrue ==
    /\ latest.kind = "storm_detected" => \/ Cardinality(Within(notes, latest)) > MaxNotes
                                         \/ Cardinality(Within(Times, latest)) > MaxReceipts
    /\ latest.kind = "velocity_high" =>
         \E n \in 0 .. Len(receipts) : /\ \A r \in 1 .. n : receipts[r].at <= latest.at
                                       /\ OverBudget(SubSeq(receipts, 1, n))
    /\ latest.kind = "receipt_absent" => /\ item[latest.about].started + Timeout < latest.at
                                         /\ ~Answered(latest.about, latest.begun)
    /\ \A i \in Items :
         /\ item[i].status = "in_progress" /\ item[i].started + Timeout < looked
         /\ ~Answered(i, clock + 1)
         => i \in loop.absent \/ <<"receipt_absent", i>> \in interrupts
=============================================================================

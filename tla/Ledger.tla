------------------------------- MODULE Ledger -------------------------------
(***************************************************************************)
(* The rules of the orchestration ledger (core/orchestration/ledger.py):   *)
(* the closed sets of statuses, the transition table that                  *)
(* update_workflow_status validates against, and the two queries that the  *)
(* engines base their decisions on.  The ledger is a Postgres database;    *)
(* every operator here is what ONE statement computes from the rows it     *)
(* sees, so that the engines' modules decide where the awaits fall.        *)
(***************************************************************************)

WorkflowStatus ==
    {"created", "running", "suspended", "completed", "failed", "cancelled"}

\* Faulty variant: starting a running workflow again is allowed.
restartable_transitions ==
    [created   |-> {"running", "cancelled"},
     running   |-> {"running", "suspended", "completed", "failed", "cancelled"},
     suspended |-> {"running", "cancelled"},
     completed |-> {},
     failed    |-> {"running"},
     cancelled |-> {}]

\* The table of update_workflow_status, keyed by the status its SELECT read.
valid_transitions ==
    [created   |-> {"running", "cancelled"},
     running   |-> {"suspended", "completed", "failed", "cancelled"},
     suspended |-> {"running", "cancelled"},
     completed |-> {},
     failed    |-> {"running"},
     cancelled |-> {}]

\* The statuses nothing may leave.
FinalStatus == {s \in WorkflowStatus : valid_transitions[s] = {}}

\* "assigned" and "in_progress" are treated alike by every query and are one
\* status here; "absent" is an item_id with no row.
ItemStatus ==
    {"absent", "pending", "in_progress", "blocked", "completed", "failed",
     "skipped"}

terminal_statuses == {"completed", "failed", "skipped"}

\* The dependency statuses that do not hold an item back.
ReleasingStatus == {"completed", "skipped"}

\* get_pending_work_items: the NOT EXISTS joins work_items, so a dependency
\* with no row holds nothing back.
PendingItems(item, dependsOn) ==
    {i \in DOMAIN item :
        /\ item[i] = "pending"
        /\ \A d \in dependsOn[i] : item[d] \in ReleasingStatus \cup {"absent"}}

\* What _dispatch_loop calls complete, given the rows of get_work_items.
IsComplete(item) ==
    LET nonBlocked == {i \in DOMAIN item : item[i] \notin {"absent", "blocked"}}
    IN  /\ nonBlocked # {}
        /\ \A i \in nonBlocked : item[i] \in terminal_statuses
=============================================================================

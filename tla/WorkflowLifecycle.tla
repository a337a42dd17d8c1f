------------------------- MODULE WorkflowLifecycle -------------------------
(***************************************************************************)
(* What the ledger promises of one workflow row: its status is guarded, so *)
(* it only ever moves along the transition table.  The engines' modules    *)
(* are checked against this specification.                                 *)
(***************************************************************************)
EXTENDS Ledger

VARIABLE status

Init == status = "created"

Transition == \E s \in valid_transitions[status] : status' = s

Spec == Init /\ [][Transition]_status
=============================================================================

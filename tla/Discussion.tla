----------------------------- MODULE Discussion -----------------------------
(***************************************************************************)
(* Mode B of the orchestrator: core/orchestration/discussion.py over the   *)
(* ledger and the novelty watchdog, for one workflow row.                  *)
(*                                                                         *)
(* As in CooperativeEngine, a coroutine is a loop (the task that           *)
(* start_discussion creates) or a client of the public methods, at[t] is   *)
(* the await it is at, and update_workflow_status is a SELECT ("select"),  *)
(* an UPDATE ("update") and its return ("accepted" or "refused").  Agents  *)
(* claim, attack and repair in single statements, except that an attack    *)
(* updates the claim first and inserts its critique later.                 *)
(*                                                                         *)
(* Notes are kept as get_swarm_notes returns them, the newest first, and   *)
(* only as far as its LIMIT reaches.  Rates need a clock: the velocity     *)
(* watchdog's verdict is a choice.                                         *)
(***************************************************************************)
EXTENDS Ledger, Integers, Sequences, FiniteSets

CONSTANTS
    Claims,          \* claim_ids
    Critiques,       \* contents of critiques
    Loops,           \* slots for discussion tasks; bounds the live ones
    Clients,         \* coroutines calling start, synthesis and cancel
    Verdicts,        \* claim statuses written straight through the ledger
    MaxRounds,       \* max_rounds
    ConvergencePct,  \* convergence_threshold, in percent
    NoteLimit,       \* the limit of get_swarm_notes
    WindowSize,      \* NoveltyWatchdog.window_size
    MinNotes,        \* NoveltyWatchdog.min_notes_before_check
    MinNoveltyPct,   \* NoveltyWatchdog.min_novelty_ratio, in percent
    Storms,          \* may the velocity watchdog find a storm?
    MaxAttacks,      \* bound on attacks
    MaxCalls,        \* bound on calls of start, synthesis and cancel
    MaxFaults,       \* bound on database errors, raising callbacks and crashes
    NoTask           \* "no entry" in _active

ClaimStatus == {"absent", "claimed", "attacked", "repaired", "accepted", "rejected"}

Phases == {"claim", "attack", "repair", "synthesize"}

ASSUME DiscussionAssumption ==
    /\ Loops \cap Clients = {}
    /\ NoTask \notin Loops
    /\ Critiques \cap (Phases \X (0 .. MaxRounds)) = {}
    /\ Verdicts \subseteq ClaimStatus \ {"absent"}
    /\ {MaxRounds, NoteLimit, WindowSize, MinNotes} \subseteq Nat \ {0}
    /\ {ConvergencePct, MinNoveltyPct} \subseteq 0 .. 100
    /\ Storms \in BOOLEAN
    /\ {MaxAttacks, MaxCalls, MaxFaults} \subseteq Nat

VARIABLES
    status,      \* workflows.status
    claim,       \* claims.status by claim_id
    notes,       \* contents of swarm_notes, newest first, up to NoteLimit
    interrupts,  \* kinds with an unresolved row in interrupts
    final,       \* does a decision_packet hold a final synthesis?
    active,      \* the workflow's entry in _active
    at,          \* the await each coroutine is at, "idle" when there is none
    want,        \* the status each coroutine is moving the workflow to
    phase,       \* phase and round each loop is in
    pending,     \* critiques whose claim is updated and note is not inserted
    cancelled,   \* loops whose task.cancel() has not reached them yet
    spent,       \* attacks, calls and faults so far
    raised       \* history: kinds of interrupts ever inserted

rowVars == <<status, claim, notes, interrupts, final>>
taskVars == <<active, at, want, phase, pending, cancelled>>
vars == <<rowVars, taskVars, spent, raised>>

Tasks == Loops \cup Clients

Kinds == {"novelty_low", "storm_detected"}

UpdateAwaits == {"select", "update", "accepted", "refused"}
LoopAwaits == {"emit", "sleep", "converge", "watch", "interrupts", "decide"}

Contents == Critiques \cup Phases \X (0 .. MaxRounds)

Limits == [attacks |-> MaxAttacks, calls |-> MaxCalls, faults |-> MaxFaults]

TypeOK ==
    /\ status \in WorkflowStatus
    /\ claim \in [Claims -> ClaimStatus]
    /\ notes \in Seq(Contents)
    /\ interrupts \subseteq Kinds
    /\ final \in BOOLEAN
    /\ active \in Loops \cup {NoTask}
    /\ at \in [Tasks -> {"idle"} \cup UpdateAwaits \cup LoopAwaits]
    /\ want \in [Tasks -> WorkflowStatus \cup {"none"}]
    /\ phase \in [Loops -> Phases \X (0 .. MaxRounds)]
    /\ pending \subseteq Critiques
    /\ cancelled \subseteq Loops
    /\ spent \in [DOMAIN Limits -> Nat]
    /\ raised \subseteq Kinds

Init ==
    /\ status = "created"
    /\ claim = [k \in Claims |-> "absent"]
    /\ notes = <<>>
    /\ interrupts = {}
    /\ final = FALSE
    /\ active = NoTask
    /\ at = [t \in Tasks |-> "idle"]
    /\ want = [t \in Tasks |-> "none"]
    /\ phase = [l \in Loops |-> <<"claim", 0>>]
    /\ pending = {}
    /\ cancelled = {}
    /\ spent = [b \in DOMAIN Limits |-> 0]
    /\ raised = {}

-----------------------------------------------------------------------------
(* Helpers.                                                                *)

\* Coroutine t moves on to await a, wanting status w.
Goto(t, a, w) ==
    /\ at' = [at EXCEPT ![t] = a]
    /\ want' = [want EXCEPT ![t] = w]

End(t) == Goto(t, "idle", "none")

\* A loop's coroutine ends, and its local variables with it.
EndLoop(l) == End(l) /\ phase' = [phase EXCEPT ![l] = <<"claim", 0>>]

Runs(t, a) == at[t] = a /\ t \notin cancelled

Spend(b) == spent[b] < Limits[b] /\ spent' = [spent EXCEPT ![b] = @ + 1]

\* The rows get_swarm_notes sees once x is inserted.
NewestFirst(x) ==
    <<x>> \o SubSeq(notes, 1, IF Len(notes) < NoteLimit THEN Len(notes) ELSE NoteLimit - 1)

\* claims whose status counts as stable.
Stable == {k \in Claims : claim[k] \in {"accepted", "repaired"}}

Claimed == {k \in Claims : claim[k] # "absent"}

\* NoveltyWatchdog.check of the notes ns, as they come from get_swarm_notes: the
\* window is the end of the list.
NoveltyLow(ns) ==
    LET recent == SubSeq(ns, IF Len(ns) > WindowSize THEN Len(ns) - WindowSize + 1
                             ELSE 1, Len(ns))
    IN  /\ Len(ns) >= MinNotes
        /\ 100 * Cardinality({recent[i] : i \in DOMAIN recent})
             < MinNoveltyPct * Len(recent)

-----------------------------------------------------------------------------
(* update_workflow_status, for whichever coroutine t calls it.             *)

SelectStatus(t) ==
    /\ Runs(t, "select")
    /\ Goto(t, IF want[t] \in valid_transitions[status] THEN "update" ELSE "refused",
            want[t])
    /\ UNCHANGED <<rowVars, active, phase, pending, cancelled, spent, raised>>

UpdateStatus(t) ==
    /\ Runs(t, "update")
    /\ status' = want[t]
    /\ Goto(t, "accepted", want[t])
    /\ UNCHANGED <<claim, notes, interrupts, final, active, phase, pending,
                   cancelled, spent, raised>>

-----------------------------------------------------------------------------
(* The public methods.                                                     *)

\* start_discussion.  A slot for the loop is reserved (bound: Loops).
StartDiscussion(c) ==
    /\ at[c] = "idle"
    /\ Cardinality({l \in Loops : at[l] = "idle"})
         > Cardinality({d \in Clients : want[d] = "running"})
    /\ Spend("calls")
    /\ Goto(c, "select", "running")
    /\ UNCHANGED <<rowVars, active, phase, pending, cancelled, raised>>

\* The transition was accepted: the loop is created and entered in _active.
SpawnLoop(c, l) ==
    /\ at[c] = "accepted"
    /\ want[c] = "running"
    /\ at[l] = "idle"
    /\ active' = l
    /\ at' = [at EXCEPT ![c] = "idle", ![l] = "emit"]
    /\ want' = [want EXCEPT ![c] = "none"]
    /\ phase' = [phase EXCEPT ![l] = <<"claim", 0>>]
    /\ UNCHANGED <<rowVars, pending, cancelled, spent, raised>>

\* Faulty variant: the status first, then the decision that explains it.
SynthesisUnrecorded(c) ==
    /\ at[c] = "idle"
    /\ Spend("calls")
    /\ Goto(c, "select", "completed")
    /\ UNCHANGED <<rowVars, active, phase, pending, cancelled, raised>>

\* submit_synthesis: the decision packet, then the status.
SubmitSynthesis(c) ==
    /\ at[c] = "idle"
    /\ Spend("calls")
    /\ status # "created"
    /\ final' = TRUE
    /\ Goto(c, "select", "completed")
    /\ UNCHANGED <<status, claim, notes, interrupts, active, phase, pending, cancelled,
                   raised>>

\* Back in submit_synthesis, whatever update_workflow_status returned: the entry
\* is dropped, the loop, if it still runs, is left running, and on_completed fires.
SynthesisReturns(c) ==
    /\ at[c] \in {"accepted", "refused"}
    /\ want[c] = "completed"
    /\ active' = NoTask
    /\ End(c)
    /\ UNCHANGED <<rowVars, phase, pending, cancelled, spent, raised>>

\* Faulty variant: the entry is dropped but the task is left running.
CancelWithoutTask(c) ==
    /\ at[c] = "idle"
    /\ Spend("calls")
    /\ active' = NoTask
    /\ Goto(c, "select", "cancelled")
    /\ UNCHANGED <<rowVars, phase, pending, cancelled, raised>>

\* cancel_discussion up to its first await.
CancelDiscussion(c) ==
    /\ at[c] = "idle"
    /\ Spend("calls")
    /\ active' = NoTask
    /\ cancelled' = IF active # NoTask /\ at[active] # "idle"
                    THEN cancelled \cup {active} ELSE cancelled
    /\ Goto(c, "select", "cancelled")
    /\ UNCHANGED <<rowVars, phase, pending, raised>>

\* The other returns of update_workflow_status to a client.
ClientReturns(c) ==
    /\ \/ at[c] = "refused" /\ want[c] # "completed"
       \/ at[c] = "accepted" /\ want[c] = "cancelled"
    /\ End(c)
    /\ UNCHANGED <<rowVars, active, phase, pending, cancelled, spent, raised>>

-----------------------------------------------------------------------------
(* Agents and humans.                                                      *)

SetClaim(k, s) ==
    /\ claim' = [claim EXCEPT ![k] = s]
    /\ UNCHANGED <<status, notes, interrupts, final, active, at, want, phase,
                   cancelled, raised>>

\* submit_claim: a new row, claimed by default.
SubmitClaim(k) ==
    /\ claim[k] = "absent"
    /\ SetClaim(k, "claimed")
    /\ UNCHANGED <<pending, spent>>

\* submit_attack, first statement: no look at the claim's status.
SubmitAttack(k, x) ==
    /\ claim[k] # "absent"
    /\ x \notin pending
    /\ Spend("attacks")
    /\ pending' = pending \cup {x}
    /\ SetClaim(k, "attacked")

\* submit_attack, second statement.
AddCritique(x) ==
    /\ x \in pending
    /\ pending' = pending \ {x}
    /\ notes' = NewestFirst(x)
    /\ UNCHANGED <<status, claim, interrupts, final, active, at, want, phase,
                   cancelled, spent, raised>>

\* submit_repair: an agent that saw the claim attacked revises it, later.
SubmitRepair(k) ==
    /\ claim[k] # "absent"
    /\ spent.attacks > 0
    /\ SetClaim(k, "repaired")
    /\ UNCHANGED <<pending, spent>>

\* Ledger.update_claim_status, called directly.
UpdateClaimStatus(k, s) ==
    /\ claim[k] # "absent"
    /\ s \in Verdicts
    /\ SetClaim(k, s)
    /\ UNCHANGED <<pending, spent>>

\* Ledger.resolve_interrupt, of the last unresolved row of a kind.
ResolveInterrupt(i) ==
    /\ i \in interrupts
    /\ interrupts' = interrupts \ {i}
    /\ UNCHANGED <<status, claim, notes, final, taskVars, spent, raised>>

-----------------------------------------------------------------------------
(* The discussion loop.                                                    *)

\* The loop goes on to announce phase p of round r.
Enter(l, p, r) ==
    /\ phase' = [phase EXCEPT ![l] = <<p, r>>]
    /\ Goto(l, "emit", "none")

\* _emit_phase: the callback, then the note of the system.
EmitPhase(l) ==
    /\ Runs(l, "emit")
    /\ notes' = NewestFirst(phase[l])
    /\ Goto(l, IF phase[l][1] = "synthesize" THEN "decide" ELSE "sleep", "none")
    /\ UNCHANGED <<status, claim, interrupts, final, active, phase, pending,
                   cancelled, spent, raised>>

\* The time-out of a phase is over.
PhaseOver(l) ==
    /\ Runs(l, "sleep")
    /\ CASE phase[l][1] = "claim"  -> Enter(l, "attack", 1)
         [] phase[l][1] = "attack" -> Goto(l, "converge", "none") /\ UNCHANGED phase
         [] phase[l][1] = "repair" -> Goto(l, "watch", "none") /\ UNCHANGED phase
    /\ UNCHANGED <<rowVars, active, pending, cancelled, spent, raised>>

\* _check_convergence: by status alone; no claims are no convergence.
Converged ==
    /\ Claimed # {}
    /\ 100 * Cardinality(Stable) >= ConvergencePct * Cardinality(Claimed)

CheckConvergence(l) ==
    /\ Runs(l, "converge")
    /\ IF Converged THEN Enter(l, "synthesize", MaxRounds)
                    ELSE Enter(l, "repair", phase[l][2])
    /\ UNCHANGED <<rowVars, active, pending, cancelled, spent, raised>>

\* _run_watchdogs: one interrupt at most, novelty before velocity.
RunWatchdogs(l) ==
    /\ Runs(l, "watch")
    /\ \E found \in IF NoveltyLow(notes) THEN {{"novelty_low"}}
                    ELSE IF Storms THEN {{}, {"storm_detected"}} ELSE {{}} :
         /\ interrupts' = interrupts \cup found
         /\ raised' = raised \cup found
    /\ Goto(l, "interrupts", "none")
    /\ UNCHANGED <<status, claim, notes, final, active, phase, pending, cancelled,
                   spent>>

\* Faulty variant: the last round is followed by another one.
CheckInterruptsForEver(l) ==
    /\ Runs(l, "interrupts")
    /\ IF interrupts # {} THEN Goto(l, "select", "suspended") /\ UNCHANGED phase
                          ELSE Enter(l, "attack", phase[l][2])
    /\ UNCHANGED <<rowVars, active, pending, cancelled, spent, raised>>

\* get_unresolved_interrupts, and what follows the last round.
CheckInterrupts(l) ==
    /\ Runs(l, "interrupts")
    /\ IF interrupts # {} THEN Goto(l, "select", "suspended") /\ UNCHANGED phase
       ELSE IF phase[l][2] < MaxRounds THEN Enter(l, "attack", phase[l][2] + 1)
       ELSE Enter(l, "synthesize", MaxRounds)
    /\ UNCHANGED <<rowVars, active, pending, cancelled, spent, raised>>

\* The synthesis-needed decision, whose row no code reads: the loop is done.
AskForSynthesis(l) ==
    /\ Runs(l, "decide")
    /\ EndLoop(l)
    /\ UNCHANGED <<rowVars, active, pending, cancelled, spent, raised>>

\* Suspended, or failed by the handler: the task ends, its entry stays.
LoopReturns(l) ==
    /\ at[l] \in {"accepted", "refused"}
    /\ l \notin cancelled
    /\ EndLoop(l)
    /\ UNCHANGED <<rowVars, active, pending, cancelled, spent, raised>>

\* CancelledError reaches the loop's await.  An UPDATE already sent may land.
CancelDelivered(l) ==
    /\ l \in cancelled
    /\ \/ UNCHANGED status
       \/ at[l] = "update" /\ status' = want[l]
    /\ EndLoop(l)
    /\ cancelled' = cancelled \ {l}
    /\ UNCHANGED <<claim, notes, interrupts, final, active, pending, spent,
                   raised>>

-----------------------------------------------------------------------------
(* Failures.                                                               *)

\* An await of the loop raises: the handler moves the workflow to FAILED, and an
\* exception in the handler ends the task.
LoopRaises(l) ==
    /\ at[l] # "idle"
    /\ l \notin cancelled
    /\ Spend("faults")
    /\ IF want[l] = "failed" THEN End(l) ELSE Goto(l, "select", "failed")
    /\ phase' = [phase EXCEPT ![l] = <<"claim", 0>>]
    /\ UNCHANGED <<rowVars, active, pending, cancelled, raised>>

\* An await of a client's call raises, and the exception leaves the engine.
ClientRaises(c) ==
    /\ at[c] # "idle"
    /\ Spend("faults")
    /\ End(c)
    /\ UNCHANGED <<rowVars, active, phase, pending, cancelled, raised>>

\* The critique of an attack is not recorded; its claim stays attacked.
CritiqueLost(x) ==
    /\ x \in pending
    /\ Spend("faults")
    /\ pending' = pending \ {x}
    /\ UNCHANGED <<rowVars, active, at, want, phase, cancelled, raised>>

\* The process dies: only the ledger survives.
Crash ==
    /\ Spend("faults")
    /\ active' = NoTask
    /\ at' = [t \in Tasks |-> "idle"]
    /\ want' = [t \in Tasks |-> "none"]
    /\ phase' = [l \in Loops |-> <<"claim", 0>>]
    /\ pending' = {}
    /\ cancelled' = {}
    /\ UNCHANGED <<rowVars, raised>>

-----------------------------------------------------------------------------
LoopStep(l) ==
    \/ SelectStatus(l) \/ UpdateStatus(l)
    \/ EmitPhase(l) \/ PhaseOver(l) \/ CheckConvergence(l)
    \/ RunWatchdogs(l) \/ CheckInterrupts(l) \/ AskForSynthesis(l)
    \/ LoopReturns(l) \/ CancelDelivered(l)

ClientStep(c) ==
    \/ SelectStatus(c) \/ UpdateStatus(c)
    \/ \E l \in Loops : SpawnLoop(c, l)
    \/ SynthesisReturns(c) \/ ClientReturns(c)

ClientCall(c) == StartDiscussion(c) \/ SubmitSynthesis(c) \/ CancelDiscussion(c)

AgentStep ==
    \/ \E k \in Claims :
         \/ SubmitClaim(k) \/ SubmitRepair(k)
         \/ \E x \in Critiques : SubmitAttack(k, x)
         \/ \E s \in Verdicts : UpdateClaimStatus(k, s)
    \/ \E x \in Critiques : AddCritique(x)
    \/ \E i \in Kinds : ResolveInterrupt(i)

Failure ==
    \/ \E l \in Loops : LoopRaises(l)
    \/ \E c \in Clients : ClientRaises(c)
    \/ \E x \in Critiques : CritiqueLost(x)
    \/ Crash

Next ==
    \/ \E l \in Loops : LoopStep(l)
    \/ \E c \in Clients : ClientStep(c) \/ ClientCall(c)
    \/ AgentStep
    \/ Failure

Spec == Init /\ [][Next]_vars

\* The event loop runs every ready coroutine and every sleep ends; nobody is
\* obliged to claim, attack, repair, resolve, synthesize or fail.
FairSpec == Spec /\ \A l \in Loops : WF_vars(LoopStep(l))

-----------------------------------------------------------------------------
(* Properties.                                                             *)

\* Loops that will announce a phase or ask for the synthesis.
Leading == {l \in Loops : at[l] \in LoopAwaits} \ cancelled

\* Errors and suspensions have not come together: a loop that raises after its UPDATE to
\* SUSPENDED has landed fails the run that was started since, beside whose loop a third
\* may then be started.
Undisturbed == raised = {} \/ spent.faults = 0

\* A workflow never has two loops leading it, as long as calls of start_discussion
\* do not overlap: every way back to RUNNING goes through a status (FAILED, SUSPENDED)
\* that the old loop wrote when it had stopped leading.
OneDiscussion == Undisturbed => Cardinality(Leading) <= 1

\* Cancelling is final: once a discussion is CANCELLED and cancel_discussion has
\* returned, no loop will announce another phase, although submit_synthesis drops
\* the entry by which cancel_discussion would find the loop.  Of two loops that lead,
\* it would find only the later one.
CancelledIsQuiet ==
    (Undisturbed /\ status = "cancelled" /\ \A c \in Clients : at[c] = "idle") => Leading = {}

\* A discussion is COMPLETED only with the synthesis it was completed by on record,
\* whatever fails or crashes between the two writes.
CompletedIsSynthesized == status = "completed" => final

\* If the row says RUNNING there is a loop that leads the discussion or is about to write
\* why it stopped, or a caller about to create one or to write CANCELLED.
Kept ==
    status = "running" =>
        \/ \E l \in Loops \ cancelled : at[l] \in LoopAwaits \cup {"select", "update"}
        \/ \E c \in Clients :
             \/ at[c] = "accepted" /\ want[c] = "running"
             \/ at[c] \in {"select", "update"} /\ want[c] = "cancelled"

\* The loop has asked for the synthesis, the process dies, a call breaks off, or the
\* handler of a loop's exception fails.
Abandons ==
    \/ \E l \in Loops : AskForSynthesis(l)
    \/ Crash
    \/ \E c \in Clients : ClientRaises(c)
    \/ \E l \in Loops : want[l] = "failed" /\ LoopRaises(l)

\* A running discussion is left without a loop when it waits for its synthesis, or by
\* such a failure, and never by callers and loops that overtake each other.
OrphansAreExplained == [][Kept /\ ~Kept' => Abandons]_vars

\* Every loop ends: it is cancelled, fails, suspends the workflow or asks for the
\* synthesis after at most max_rounds rounds, whatever the agents do or fail to do.
LoopEnds == \A l \in Loops : at[l] # "idle" ~> at[l] = "idle"
=============================================================================

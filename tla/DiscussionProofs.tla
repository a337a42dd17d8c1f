-------------------------- MODULE DiscussionProofs --------------------------
(***************************************************************************)
(* Proofs about Discussion for any claims, critiques, rounds, numbers of   *)
(* loops and clients, and any bounds.                                      *)
(***************************************************************************)
EXTENDS Discussion, FiniteSetTheorems, SequenceTheorems, TLAPS

-----------------------------------------------------------------------------
(* Type correctness.  A loop sleeps in the first three phases only, and    *)
(* who is inside update_workflow_status wants a status.                    *)

Sound ==
    /\ \A t \in Tasks : at[t] \in UpdateAwaits => want[t] \in WorkflowStatus
    /\ \A l \in Loops : at[l] = "sleep" => phase[l][1] # "synthesize"
    /\ \A c \in Clients : at[c] \notin LoopAwaits

TypeInv == TypeOK /\ Sound

\* Which coroutines are loops, and which are callers.
LEMMA Roles ==
    /\ \A l \in Loops : l \in Tasks /\ l \notin Clients /\ l # NoTask
    /\ \A c \in Clients : c \in Tasks /\ c \notin Loops
    /\ Tasks = Loops \cup Clients
  BY DiscussionAssumption DEF DiscussionAssumption, Tasks

\* What a step that moves coroutine t to a, wanting w, does to the others: nothing.
Moves(t, a, w) ==
    \A u \in Tasks : /\ at'[u] = IF u = t THEN a ELSE at[u]
                     /\ want'[u] = IF u = t THEN w ELSE want[u]

LEMMA GotoMoves ==
    ASSUME TypeOK, NEW t \in Tasks, NEW a, NEW w, Goto(t, a, w)
    PROVE  Moves(t, a, w)
  BY DEF Goto, Moves, TypeOK

\* The bounds are numbers, and there is a round.
LEMMA Bounds ==
    /\ MaxRounds \in Nat \ {0} /\ NoteLimit \in Nat \ {0}
    /\ \A p \in Phases, r \in 0 .. MaxRounds : <<p, r>> \in Phases \X (0 .. MaxRounds)
    /\ "claim" \in Phases /\ 0 \in 0 .. MaxRounds
    /\ DOMAIN Limits = {"attacks", "calls", "faults"}
  BY DiscussionAssumption DEF DiscussionAssumption, Phases, Limits

LEMMA InitTypeInv == Init => TypeInv
<1> SUFFICES ASSUME Init PROVE TypeInv
  OBVIOUS
<1>1. phase \in [Loops -> Phases \X (0 .. MaxRounds)] /\ \A l \in Loops : phase[l][1] = "claim"
  BY Bounds DEF Init
<1>2. notes \in Seq(Contents)
  BY EmptySeq DEF Init
<1>3. spent \in [DOMAIN Limits -> Nat]
  BY DEF Init
<1> QED
  BY <1>1, <1>2, <1>3 DEF Init, TypeInv, TypeOK, Sound, Tasks, UpdateAwaits, LoopAwaits,
     WorkflowStatus, ClaimStatus

LEMMA SpendTyped ==
    ASSUME spent \in [DOMAIN Limits -> Nat], NEW b \in DOMAIN Limits, Spend(b)
    PROVE  spent' \in [DOMAIN Limits -> Nat]
  BY DEF Spend

\* The newest NoteLimit notes are notes.
LEMMA NewestTyped ==
    ASSUME TypeOK, NEW x \in Contents
    PROVE  NewestFirst(x) \in Seq(Contents)
<1> DEFINE n == IF Len(notes) < NoteLimit THEN Len(notes) ELSE NoteLimit - 1
<1>1. notes \in Seq(Contents) /\ Len(notes) \in Nat /\ NoteLimit \in Nat \ {0}
  BY DiscussionAssumption DEF DiscussionAssumption, TypeOK
<1>2. n \in Nat /\ n <= Len(notes)
  BY <1>1
<1>3. SubSeq(notes, 1, n) \in Seq(Contents)
  BY <1>1, <1>2, SubSeqProperties
<1> HIDE DEF n
<1>4. <<x>> \o SubSeq(notes, 1, n) \in Seq(Contents)
  BY <1>3
<1> QED
  BY <1>4 DEF NewestFirst, n

\* A coroutine moves on within its own awaits; the rest of the task variables is typed.
LEMMA MoveTyped ==
    ASSUME TypeInv, NEW t \in Tasks, NEW a, NEW w, Goto(t, a, w),
           a \in {"idle"} \cup UpdateAwaits \cup LoopAwaits,
           w \in WorkflowStatus \cup {"none"},
           a \in UpdateAwaits => w \in WorkflowStatus,
           t \in Clients => a \notin LoopAwaits,
           phase' \in [Loops -> Phases \X (0 .. MaxRounds)],
           \A l \in Loops : at'[l] = "sleep" => phase'[l][1] # "synthesize",
           status' \in WorkflowStatus, claim' = claim, notes' \in Seq(Contents),
           interrupts' \subseteq Kinds, final' \in BOOLEAN, active' \in Loops \cup {NoTask},
           pending' \subseteq Critiques, cancelled' \subseteq Loops,
           spent' \in [DOMAIN Limits -> Nat], raised' \subseteq Kinds
    PROVE  TypeInv'
  BY DEF Goto, TypeInv, TypeOK, Sound, Tasks

\* The agents leave the coroutines alone.
LEMMA AgentTyped ==
    ASSUME TypeInv, AgentStep
    PROVE  TypeInv'
<1> USE DEF rowVars, taskVars
<1>1. ASSUME NEW k \in Claims, NEW s \in ClaimStatus, SetClaim(k, s),
             pending' \subseteq Critiques, spent' \in [DOMAIN Limits -> Nat]
      PROVE  TypeInv'
  BY <1>1 DEF SetClaim, TypeInv, TypeOK, Sound
<1>2. ASSUME NEW k \in Claims, SubmitClaim(k) \/ SubmitRepair(k) PROVE TypeInv'
  BY <1>1, <1>2 DEF SubmitClaim, SubmitRepair, ClaimStatus, TypeInv, TypeOK
<1>3. ASSUME NEW k \in Claims, NEW x \in Critiques, SubmitAttack(k, x) PROVE TypeInv'
  <2>1. spent' \in [DOMAIN Limits -> Nat]
    BY <1>3, SpendTyped, Bounds DEF SubmitAttack, TypeInv, TypeOK
  <2> QED
    BY <1>1, <1>3, <2>1 DEF SubmitAttack, ClaimStatus, TypeInv, TypeOK
<1>4. ASSUME NEW k \in Claims, NEW s \in Verdicts, UpdateClaimStatus(k, s) PROVE TypeInv'
  <2>1. s \in ClaimStatus
    BY DiscussionAssumption DEF DiscussionAssumption
  <2> QED
    BY <1>1, <1>4, <2>1 DEF UpdateClaimStatus, TypeInv, TypeOK
<1>5. ASSUME NEW x \in Critiques, AddCritique(x) PROVE TypeInv'
  <2>1. notes' \in Seq(Contents)
    BY <1>5, NewestTyped DEF AddCritique, Contents, TypeInv
  <2> QED
    BY <1>5, <2>1 DEF AddCritique, TypeInv, TypeOK, Sound
<1>6. ASSUME NEW i \in Kinds, ResolveInterrupt(i) PROVE TypeInv'
  BY <1>6 DEF ResolveInterrupt, TypeInv, TypeOK, Sound
<1> QED
  BY <1>2, <1>3, <1>4, <1>5, <1>6 DEF AgentStep

LEMMA UpdateTyped ==
    ASSUME TypeInv, NEW t \in Tasks, SelectStatus(t) \/ UpdateStatus(t)
    PROVE  TypeInv'
<1> USE DEF rowVars
<1>1. want[t] \in WorkflowStatus
  BY DEF SelectStatus, UpdateStatus, Runs, TypeInv, Sound, UpdateAwaits
<1>2. PICK a \in {"update", "refused", "accepted"} : Goto(t, a, want[t])
  BY DEF SelectStatus, UpdateStatus
<1>3. a \in UpdateAwaits /\ a \notin LoopAwaits
  BY DEF UpdateAwaits, LoopAwaits
<1>4. \A l \in Loops : at'[l] = "sleep" => phase'[l][1] # "synthesize"
  BY <1>2, Roles DEF SelectStatus, UpdateStatus, Goto, TypeInv, TypeOK, Sound
<1> QED
  BY <1>1, <1>2, <1>3, <1>4, MoveTyped DEF SelectStatus, UpdateStatus, TypeInv, TypeOK

LEMMA LoopTyped ==
    ASSUME TypeInv, NEW l \in Loops, LoopStep(l)
    PROVE  TypeInv'
<1> USE Roles, Bounds DEF rowVars, TypeInv
<1> l \in Tasks /\ l \notin Clients
  OBVIOUS
<1>1. phase \in [Loops -> Phases \X (0 .. MaxRounds)] /\ phase[l] \in Phases \X (0 .. MaxRounds)
  BY DEF TypeOK
\* A loop that moves on and changes no row but the status.
<1>2. ASSUME NEW a \in {"idle"} \cup UpdateAwaits \cup LoopAwaits,
           NEW w \in WorkflowStatus \cup {"none"},
             Goto(l, a, w), a \in UpdateAwaits => w \in WorkflowStatus, a # "sleep",
             NEW ph \in Phases \X (0 .. MaxRounds), phase' = [phase EXCEPT ![l] = ph],
             UNCHANGED <<status, claim, notes, final, active, pending, spent>>,
             interrupts' \subseteq Kinds, raised' \subseteq Kinds, cancelled' = cancelled
      PROVE  TypeInv'
  <2>1. \A m \in Loops : at'[m] = "sleep" => phase'[m][1] # "synthesize"
    BY <1>1, <1>2 DEF Goto, TypeOK, Sound
  <2>2. phase' \in [Loops -> Phases \X (0 .. MaxRounds)]
    BY <1>1, <1>2
  <2> QED
    BY <1>2, <2>1, <2>2, MoveTyped DEF TypeOK
<1>3. ASSUME NEW p \in Phases, NEW r \in 0 .. MaxRounds, Enter(l, p, r),
             UNCHANGED <<rowVars, active, pending, cancelled, spent, raised>>
      PROVE  TypeInv'
  BY <1>2, <1>3 DEF Enter, LoopAwaits, UpdateAwaits, TypeOK
<1>4. ASSUME NEW a \in {"idle"} \cup UpdateAwaits \cup LoopAwaits,
           NEW w \in WorkflowStatus \cup {"none"},
             Goto(l, a, w), a \in UpdateAwaits => w \in WorkflowStatus, a # "sleep", phase' = phase,
             UNCHANGED <<status, claim, notes, final, active, pending, cancelled, spent>>,
             interrupts' \subseteq Kinds, raised' \subseteq Kinds
      PROVE  TypeInv'
  <2>1. phase' = [phase EXCEPT ![l] = phase[l]]
    BY <1>1, <1>4
  <2> QED
    BY <1>1, <1>2, <1>4, <2>1
<1>5. CASE SelectStatus(l) \/ UpdateStatus(l)
  BY <1>5, UpdateTyped
<1>6. CASE EmitPhase(l)
  <2>1. notes' \in Seq(Contents)
    BY <1>1, <1>6, NewestTyped DEF EmitPhase, Contents
  <2>2. PICK a \in {"decide", "sleep"} : /\ Goto(l, a, "none")
                                         /\ a = "sleep" => phase[l][1] # "synthesize"
    BY <1>6 DEF EmitPhase
  <2>3. a \in LoopAwaits /\ a \notin UpdateAwaits
    BY DEF LoopAwaits, UpdateAwaits
  <2>4. \A m \in Loops : at'[m] = "sleep" => phase'[m][1] # "synthesize"
    BY <1>6, <2>2 DEF EmitPhase, Goto, TypeOK, Sound
  <2> QED
    BY <1>6, <2>1, <2>2, <2>3, <2>4, MoveTyped DEF EmitPhase, TypeOK
<1>7. CASE PhaseOver(l)
  <2>1. phase[l][1] \in {"claim", "attack", "repair"}
    BY <1>1, <1>7 DEF PhaseOver, Runs, Sound, Phases
  <2>2. CASE phase[l][1] = "claim"
    <3>1. Enter(l, "attack", 1) /\ 1 \in 0 .. MaxRounds /\ "attack" \in Phases
      BY <1>7, <2>2 DEF PhaseOver, Phases
    <3> QED
      BY <1>3, <1>7, <3>1 DEF PhaseOver
  <2>3. CASE phase[l][1] # "claim"
    <3>1. PICK a \in {"converge", "watch"} : Goto(l, a, "none") /\ phase' = phase
      BY <1>7, <2>1, <2>3 DEF PhaseOver
    <3> QED
      BY <1>4, <1>7, <3>1 DEF PhaseOver, LoopAwaits, UpdateAwaits, TypeOK
  <2> QED
    BY <2>2, <2>3
<1>8. CASE CheckConvergence(l)
  <2>1. phase[l][2] \in 0 .. MaxRounds /\ MaxRounds \in 0 .. MaxRounds
    BY <1>1
  <2> QED
    BY <1>3, <1>8, <2>1 DEF CheckConvergence, Phases
<1>9. CASE RunWatchdogs(l)
  <2>1. PICK found \in SUBSET Kinds :
          interrupts' = interrupts \cup found /\ raised' = raised \cup found
    BY <1>9 DEF RunWatchdogs, Kinds
  <2>2. interrupts' \subseteq Kinds /\ raised' \subseteq Kinds
    BY <2>1 DEF TypeOK
  <2> QED
    BY <1>4, <1>9, <2>2 DEF RunWatchdogs, LoopAwaits, UpdateAwaits
<1>10. CASE CheckInterrupts(l)
  <2>1. CASE Goto(l, "select", "suspended") /\ UNCHANGED phase
    BY <1>4, <1>10, <2>1 DEF CheckInterrupts, LoopAwaits, UpdateAwaits, WorkflowStatus, TypeOK
  <2>2. CASE phase[l][2] < MaxRounds /\ Enter(l, "attack", phase[l][2] + 1)
    <3>1. phase[l][2] + 1 \in 0 .. MaxRounds /\ "attack" \in Phases
      BY <1>1, <2>2 DEF Phases
    <3> QED
      BY <1>3, <1>10, <2>2, <3>1 DEF CheckInterrupts
  <2>3. CASE Enter(l, "synthesize", MaxRounds)
    BY <1>3, <1>10, <2>3 DEF CheckInterrupts, Phases
  <2> QED
    BY <1>10, <2>1, <2>2, <2>3 DEF CheckInterrupts
<1>11. CASE AskForSynthesis(l) \/ LoopReturns(l)
  BY <1>2, <1>11 DEF AskForSynthesis, LoopReturns, EndLoop, End, UpdateAwaits, LoopAwaits, TypeOK
<1>12. CASE CancelDelivered(l)
  <2>1. Goto(l, "idle", "none") /\ phase' = [phase EXCEPT ![l] = <<"claim", 0>>]
    BY <1>12 DEF CancelDelivered, EndLoop, End
  <2>2. status' \in WorkflowStatus
    BY <1>12 DEF CancelDelivered, TypeOK, Sound, UpdateAwaits
  <2>3. \A m \in Loops : at'[m] = "sleep" => phase'[m][1] # "synthesize"
    BY <1>1, <2>1 DEF Goto, TypeOK, Sound
  <2>4. phase' \in [Loops -> Phases \X (0 .. MaxRounds)]
    BY <1>1, <2>1
  <2>5. cancelled' \subseteq Loops
    BY <1>12 DEF CancelDelivered, TypeOK
  <2> QED
    BY <1>12, <2>1, <2>2, <2>3, <2>4, <2>5, MoveTyped
    DEF CancelDelivered, TypeOK, UpdateAwaits, LoopAwaits
<1> QED
  BY <1>5, <1>6, <1>7, <1>8, <1>9, <1>10, <1>11, <1>12 DEF LoopStep

LEMMA ClientTyped ==
    ASSUME TypeInv, NEW c \in Clients, ClientStep(c) \/ ClientCall(c)
    PROVE  TypeInv'
<1> USE Roles, Bounds DEF rowVars, TypeInv
<1> c \in Tasks /\ c \notin Loops
  OBVIOUS
\* A caller that moves on; the phases of the loops are theirs.
<1>1. ASSUME NEW a \in {"idle"} \cup UpdateAwaits, NEW w \in WorkflowStatus \cup {"none"},
             Goto(c, a, w), a \in UpdateAwaits => w \in WorkflowStatus,
             UNCHANGED <<status, claim, notes, interrupts, phase, pending, raised>>,
             final' \in BOOLEAN, active' \in Loops \cup {NoTask}, cancelled' \subseteq Loops,
             spent' \in [DOMAIN Limits -> Nat]
      PROVE  TypeInv'
  <2>1. \A l \in Loops : at'[l] = "sleep" => phase'[l][1] # "synthesize"
    BY <1>1 DEF Goto, TypeOK, Sound
  <2>2. a \notin LoopAwaits
    BY DEF UpdateAwaits, LoopAwaits
  <2> QED
    BY <1>1, <2>1, <2>2, MoveTyped DEF TypeOK
<1>2. CASE SelectStatus(c) \/ UpdateStatus(c)
  BY <1>2, UpdateTyped
<1>3. ASSUME NEW l \in Loops, SpawnLoop(c, l) PROVE TypeInv'
  <2>1. phase' \in [Loops -> Phases \X (0 .. MaxRounds)] /\ phase'[l] = <<"claim", 0>>
    BY <1>3 DEF SpawnLoop, TypeOK
  <2>2. \A m \in Loops : at'[m] = "sleep" => phase'[m][1] # "synthesize"
    BY <1>3, <2>1 DEF SpawnLoop, TypeOK, Sound
  <2> QED
    BY <1>3, <2>1, <2>2 DEF SpawnLoop, TypeOK, Sound, UpdateAwaits, LoopAwaits
<1>4. CASE SynthesisReturns(c) \/ ClientReturns(c)
  BY <1>1, <1>4 DEF SynthesisReturns, ClientReturns, End, UpdateAwaits, TypeOK
<1>5. CASE ClientCall(c)
  <2>1. spent' \in [DOMAIN Limits -> Nat]
    BY <1>5, SpendTyped DEF ClientCall, StartDiscussion, SubmitSynthesis, CancelDiscussion, TypeOK
  <2>2. active' \in Loops \cup {NoTask} /\ cancelled' \subseteq Loops
    BY <1>5 DEF ClientCall, StartDiscussion, SubmitSynthesis, CancelDiscussion, TypeOK
  <2> QED
    BY <1>1, <1>5, <2>1, <2>2 DEF ClientCall, StartDiscussion, SubmitSynthesis, CancelDiscussion,
       UpdateAwaits, WorkflowStatus, TypeOK
<1> QED
  BY <1>2, <1>3, <1>4, <1>5 DEF ClientStep

LEMMA FailureTyped ==
    ASSUME TypeInv, Failure
    PROVE  TypeInv'
<1> USE Roles, Bounds DEF rowVars, TypeInv
<1>1. spent' \in [DOMAIN Limits -> Nat]
  BY SpendTyped DEF Failure, LoopRaises, ClientRaises, CritiqueLost, Crash, TypeOK
<1>2. ASSUME NEW l \in Loops, LoopRaises(l) PROVE TypeInv'
  <2>1. PICK a \in {"idle", "select"}, w \in {"none", "failed"} :
          Goto(l, a, w) /\ (a = "select" => w = "failed")
    BY <1>2 DEF LoopRaises, End
  <2>2. phase' \in [Loops -> Phases \X (0 .. MaxRounds)] /\ phase'[l] = <<"claim", 0>>
    BY <1>2 DEF LoopRaises, TypeOK
  <2>3. \A m \in Loops : at'[m] = "sleep" => phase'[m][1] # "synthesize"
    BY <1>2, <2>1, <2>2 DEF LoopRaises, Goto, TypeOK, Sound
  <2> QED
    BY <1>1, <1>2, <2>1, <2>2, <2>3, MoveTyped
    DEF LoopRaises, TypeOK, UpdateAwaits, LoopAwaits, WorkflowStatus
<1>3. ASSUME NEW c \in Clients, ClientRaises(c) PROVE TypeInv'
  <2>1. \A l \in Loops : at'[l] = "sleep" => phase'[l][1] # "synthesize"
    BY <1>3 DEF ClientRaises, End, Goto, TypeOK, Sound
  <2> QED
    BY <1>1, <1>3, <2>1, MoveTyped DEF ClientRaises, End, TypeOK, UpdateAwaits, LoopAwaits
<1>4. ASSUME NEW x \in Critiques, CritiqueLost(x) PROVE TypeInv'
  BY <1>1, <1>4 DEF CritiqueLost, TypeOK, Sound
<1>5. CASE Crash
  <2>1. phase' \in [Loops -> Phases \X (0 .. MaxRounds)]
    BY <1>5 DEF Crash
  <2> QED
    BY <1>1, <1>5, <2>1 DEF Crash, TypeOK, Sound, UpdateAwaits, LoopAwaits
<1> QED
  BY <1>2, <1>3, <1>4, <1>5 DEF Failure

LEMMA TypeInvStep == TypeInv /\ [Next]_vars => TypeInv'
<1>1. UNCHANGED vars /\ TypeInv => TypeInv'
  BY DEF vars, rowVars, taskVars, TypeInv, TypeOK, Sound
<1> QED
  BY <1>1, LoopTyped, ClientTyped, AgentTyped, FailureTyped DEF Next

\* Every variable keeps its type, whatever the constants are.
THEOREM TypeCorrect == Spec => []TypeOK
<1>1. TypeInv => TypeOK
  BY DEF TypeInv
<1> QED
  BY <1>1, InitTypeInv, TypeInvStep, PTL DEF Spec

-----------------------------------------------------------------------------
(* Who may still change the row.  A busy loop leads, or is about to write  *)
(* its last status; a cancelled one may have an UPDATE on its way.  There  *)
(* is at most one such loop, and while it is there nothing that would let  *)
(* another one start is in the row, or past its validation.                *)

Alone == \A c, d \in Clients : c = d

Busy == {l \in Loops \ cancelled : at[l] \in LoopAwaits \cup {"select", "update"}}

\* Loops whose next write is not stopped by anybody.
Writers == Busy \cup {l \in cancelled : at[l] = "update"}

\* What coroutines ask for; no loop asks twice.
Wishes ==
    /\ \A l \in Loops : at[l] \in UpdateAwaits => want[l] \in {"suspended", "failed"}
    /\ \A c \in Clients :
         /\ at[c] \notin LoopAwaits
         /\ at[c] \in UpdateAwaits => want[c] \in {"running", "completed", "cancelled"}
    /\ \A l \in Loops : want[l] = "suspended" => raised # {}
    /\ interrupts \subseteq raised

WritersWork ==
    /\ \A l, m \in Writers : l = m
    /\ Writers # {} => status \in {"running", "completed", "cancelled"}
    /\ \A l \in Busy : status = "completed" \/ (status = "running" /\ active = l)

ClientsWait ==
    \A c \in Clients :
        /\ at[c] = "update" /\ want[c] = "running" =>
              status \in {"created", "failed", "suspended"}
        /\ at[c] = "accepted" /\ want[c] = "running" => status = "running" /\ Writers = {}
        /\ at[c] = "select" /\ want[c] = "cancelled" => active = NoTask
        /\ at[c] = "update" /\ want[c] = "cancelled" => active = NoTask /\ Busy = {}
        /\ at[c] \in {"accepted", "refused"} /\ want[c] = "completed" => status # "running"

AloneInv == Wishes /\ (Undisturbed => WritersWork /\ ClientsWait)

LEMMA InitAloneInv == Init => AloneInv
  BY Roles
  DEF Init, AloneInv, Wishes, WritersWork, ClientsWait, Busy, Writers, UpdateAwaits, LoopAwaits

\* Interrupts and errors are never forgotten.
LEMMA UndisturbedBefore == TypeInv /\ [Next]_vars /\ Undisturbed' => Undisturbed
<1> SUFFICES ASSUME TypeInv, [Next]_vars
             PROVE  /\ raised \subseteq raised'
                    /\ spent.faults # 0 => spent'.faults # 0
  BY DEF Undisturbed
<1> USE DEF rowVars, taskVars
<1>1. spent \in [{"attacks", "calls", "faults"} -> Nat]
  BY Bounds DEF TypeInv, TypeOK
<1>2. \A b \in {"attacks", "calls", "faults"} : Spend(b) => (spent.faults # 0 => spent'.faults # 0)
  BY <1>1 DEF Spend
<1>3. CASE UNCHANGED vars
  BY <1>3 DEF vars
<1>4. ASSUME NEW l \in Loops, LoopStep(l) PROVE raised \subseteq raised' /\ spent' = spent
  BY <1>4 DEF LoopStep, SelectStatus, UpdateStatus, EmitPhase, PhaseOver, CheckConvergence,
     RunWatchdogs, CheckInterrupts, AskForSynthesis, LoopReturns, CancelDelivered
<1>5. ASSUME NEW c \in Clients, ClientStep(c) PROVE raised' = raised /\ spent' = spent
  BY <1>5 DEF ClientStep, SelectStatus, UpdateStatus, SpawnLoop, SynthesisReturns, ClientReturns
<1>6. ASSUME NEW c \in Clients, ClientCall(c) PROVE raised' = raised /\ Spend("calls")
  BY <1>6 DEF ClientCall, StartDiscussion, SubmitSynthesis, CancelDiscussion
<1>7. ASSUME AgentStep PROVE raised' = raised /\ (spent' = spent \/ Spend("attacks"))
  BY <1>7 DEF AgentStep, SubmitClaim, SubmitAttack, AddCritique, SubmitRepair,
     UpdateClaimStatus, ResolveInterrupt, SetClaim
<1>8. ASSUME Failure PROVE raised' = raised /\ Spend("faults")
  BY <1>8 DEF Failure, LoopRaises, ClientRaises, CritiqueLost, Crash
<1> QED
  BY <1>2, <1>3, <1>4, <1>5, <1>6, <1>7, <1>8 DEF Next

\* A loop moves on without a write.
LEMMA AloneLoopMoves ==
    ASSUME TypeInv, AloneInv, Undisturbed' => Undisturbed,
           NEW l \in Loops \ cancelled, NEW a, NEW w, Moves(l, a, w), UNCHANGED <<status,
              active, cancelled>>,
           raised \subseteq raised', interrupts' \subseteq raised',
           a # "update", a \in UpdateAwaits => w \in {"suspended", "failed"},
           w = "suspended" => raised' # {},
           Undisturbed' /\ a \in LoopAwaits \cup {"select"} => l \in Busy
    PROVE  AloneInv'
<1> USE Roles DEF Moves
<1>1. Wishes'
  BY DEF AloneInv, Wishes
<1>2. ASSUME Undisturbed' PROVE WritersWork' /\ ClientsWait'
  <2>1. WritersWork /\ ClientsWait
    BY <1>2 DEF AloneInv
  <2>2. Busy' \subseteq Busy /\ Writers' \subseteq Writers
    BY <1>2 DEF Busy, Writers, TypeInv, TypeOK
  <2>3. WritersWork'
    BY <2>1, <2>2 DEF WritersWork
  <2>4. ClientsWait'
    BY <2>1, <2>2 DEF ClientsWait
  <2> QED
    BY <2>3, <2>4
<1> QED
  BY <1>1, <1>2 DEF AloneInv

\* A caller moves on without being validated; only its return drops the entry, when
\* there is no loop that would rely on it.
LEMMA AloneClientMoves ==
    ASSUME TypeInv, AloneInv, Undisturbed' => Undisturbed,
           NEW c \in Clients, NEW a, NEW w, Moves(c, a, w), UNCHANGED <<status, cancelled,
              interrupts, raised>>,
           a \in {"idle", "select", "refused"},
           a \in UpdateAwaits => w \in {"running", "completed", "cancelled"},
           a = "select" => w # "cancelled",
           a = "refused" /\ w = "completed" => status # "running",
           active' = active \/ (active' = NoTask /\ status # "running")
    PROVE  AloneInv'
<1> USE Roles DEF Moves
<1>1. Wishes'
  BY DEF AloneInv, Wishes, LoopAwaits
<1>2. ASSUME Undisturbed' PROVE WritersWork' /\ ClientsWait'
  <2>1. WritersWork /\ ClientsWait
    BY <1>2 DEF AloneInv
  <2>2. Busy' = Busy /\ Writers' = Writers
    BY DEF Busy, Writers, TypeInv, TypeOK
  <2>3. WritersWork'
    BY <2>1, <2>2 DEF WritersWork
  <2>4. ClientsWait'
    BY <2>1, <2>2 DEF ClientsWait
  <2> QED
    BY <2>3, <2>4
<1> QED
  BY <1>1, <1>2 DEF AloneInv

\* Validation changes nothing about who may write the row.
LEMMA AloneSelects ==
    ASSUME TypeInv, AloneInv, NEW t \in Tasks, SelectStatus(t)
    PROVE  AloneInv'
<1> USE Roles
<1>1. PICK a \in {"update", "refused"} :
        /\ Moves(t, a, want[t])
        /\ a = "update" <=> want[t] \in valid_transitions[status]
  BY GotoMoves DEF SelectStatus, TypeInv
<1>2. UNCHANGED <<status, active, cancelled, interrupts, raised, spent>> /\ Runs(t, "select")
  BY DEF SelectStatus, rowVars
<1>3. Undisturbed' = Undisturbed
  BY <1>2 DEF Undisturbed
<1>4. ASSUME t \in Loops PROVE AloneInv'
  <2>1. t \in Busy /\ want[t] \in {"suspended", "failed"} /\ (want[t] = "suspended" => raised # {})
    BY <1>2, <1>4 DEF Busy, Runs, AloneInv, Wishes, UpdateAwaits
  <2>2. CASE a = "refused"
    BY <1>1, <1>2, <1>3, <1>4, <2>1, <2>2, AloneLoopMoves DEF Busy, AloneInv, Wishes, LoopAwaits
  <2>3. CASE a = "update"
    <3>1. Wishes'
      BY <1>1, <1>2, <1>4, <2>1, <2>3 DEF AloneInv, Wishes, Moves
    <3>2. Busy' = Busy /\ Writers' = Writers
      BY <1>1, <1>2, <1>4, <2>1, <2>3 DEF Busy, Writers, Moves, Runs, TypeInv, TypeOK
    <3>3. WritersWork /\ ClientsWait => WritersWork' /\ ClientsWait'
      BY <1>1, <1>2, <1>4, <3>2 DEF WritersWork, ClientsWait, Moves
    <3> QED
      BY <1>3, <3>1, <3>3 DEF AloneInv
  <2> QED
    BY <2>2, <2>3
<1>5. ASSUME t \in Clients PROVE AloneInv'
  <2>1. at[t] = "select" /\ want[t] \in {"running", "completed", "cancelled"}
    BY <1>2, <1>5 DEF Runs, AloneInv, Wishes, UpdateAwaits
  <2>2. CASE a = "refused"
    <3>1. want[t] = "completed" => status # "running"
      BY <1>1, <2>2 DEF valid_transitions
    <3> QED
      BY <1>1, <1>2, <1>3, <1>5, <2>1, <2>2, <3>1, AloneClientMoves
  <2>3. CASE a = "update"
    <3>1. /\ want[t] = "running" => status \in {"created", "failed", "suspended"}
          /\ want[t] = "cancelled" => status # "completed"
      <4>1. status \in WorkflowStatus /\ want[t] \in valid_transitions[status]
        BY <1>1, <2>3 DEF TypeInv, TypeOK
      <4> QED
        BY <2>1, <4>1 DEF valid_transitions, WorkflowStatus
    <3>2. Wishes'
      BY <1>1, <1>2, <1>5, <2>1, <2>3 DEF AloneInv, Wishes, Moves, LoopAwaits
    <3>3. Busy' = Busy /\ Writers' = Writers
      <4>1. cancelled \subseteq Loops /\ \A m \in Loops : at'[m] = at[m]
        BY <1>1, <1>5 DEF Moves, TypeInv, TypeOK
      <4> QED
        BY <1>2, <4>1 DEF Writers, Busy
    <3>4. WritersWork => WritersWork'
      BY <1>2, <3>3 DEF WritersWork
    <3>5. WritersWork /\ ClientsWait => ClientsWait'
      <4> SUFFICES ASSUME WritersWork, ClientsWait PROVE ClientsWait'
        OBVIOUS
      <4>1. want[t] = "cancelled" => active = NoTask /\ Busy = {}
        BY <1>5, <2>1, <3>1 DEF WritersWork, ClientsWait, Busy
      <4> QED
        BY <1>1, <1>2, <2>3, <3>1, <3>3, <4>1 DEF ClientsWait, Moves
    <3> QED
      BY <1>3, <3>2, <3>4, <3>5 DEF AloneInv
  <2> QED
    BY <2>2, <2>3
<1> QED
  BY <1>4, <1>5

\* The one writer's UPDATE: no writer is left.
LEMMA AloneLoopUpdates ==
    ASSUME TypeInv, AloneInv, NEW l \in Loops, UpdateStatus(l)
    PROVE  AloneInv'
<1> USE Roles
<1>1. Moves(l, "accepted", want[l]) /\ status' = want[l]
  BY GotoMoves DEF UpdateStatus, TypeInv
<1>2. UNCHANGED <<active, cancelled, interrupts, raised, spent>> /\ l \in Busy /\ at[l] = "update"
  BY DEF UpdateStatus, Runs, Busy
<1>3. want[l] \in {"suspended", "failed"} /\ Wishes'
  BY <1>1, <1>2 DEF AloneInv, Wishes, Moves, UpdateAwaits
<1>4. ASSUME Undisturbed, WritersWork, ClientsWait PROVE WritersWork' /\ ClientsWait'
  <2>1. Writers = {l} /\ status # "created" /\ status # "failed" /\ status # "suspended"
    BY <1>2, <1>4 DEF Writers, WritersWork
  <2>2. Writers' = {} /\ Busy' = {}
    <3>1. cancelled \subseteq Loops /\ \A m \in Loops \ {l} : at'[m] = at[m]
      BY <1>1 DEF Moves, TypeInv, TypeOK
    <3> QED
      BY <1>1, <1>2, <2>1, <3>1 DEF Writers, Busy, Moves, LoopAwaits
  <2>3. WritersWork'
    BY <2>2 DEF WritersWork
  <2>4. ClientsWait'
    BY <1>1, <1>2, <1>3, <1>4, <2>1, <2>2 DEF ClientsWait, Moves
  <2> QED
    BY <2>3, <2>4
<1> QED
  BY <1>2, <1>3, <1>4 DEF AloneInv, Undisturbed

\* The caller's UPDATE: when it starts, there is no writer; when it completes, whoever
\* leads goes on without another start; when it cancels, nobody leads.
LEMMA AloneClientUpdates ==
    ASSUME TypeInv, AloneInv, Alone, NEW c \in Clients, UpdateStatus(c)
    PROVE  AloneInv'
<1> USE Roles
<1>1. Moves(c, "accepted", want[c]) /\ status' = want[c]
  BY GotoMoves DEF UpdateStatus, TypeInv
<1>2. UNCHANGED <<active, cancelled, interrupts, raised, spent>> /\ at[c] = "update"
  BY DEF UpdateStatus, Runs
<1>3. want[c] \in {"running", "completed", "cancelled"} /\ Wishes'
  BY <1>1, <1>2 DEF AloneInv, Wishes, Moves, UpdateAwaits, LoopAwaits
<1>4. ASSUME WritersWork, ClientsWait PROVE WritersWork' /\ ClientsWait'
  <2>1. Busy' = Busy /\ Writers' = Writers
    <3>1. cancelled \subseteq Loops /\ \A m \in Loops : at'[m] = at[m]
      BY <1>1 DEF Moves, TypeInv, TypeOK
    <3> QED
      BY <1>2, <3>1 DEF Writers, Busy
  <2>2. want[c] = "running" => Writers = {} /\ Busy = {}
    BY <1>2, <1>4 DEF WritersWork, ClientsWait, Writers
  <2>3. want[c] = "cancelled" => Busy = {}
    BY <1>2, <1>4 DEF ClientsWait
  <2>4. WritersWork'
    BY <1>1, <1>2, <1>3, <1>4, <2>1, <2>2, <2>3 DEF WritersWork
  <2>5. \A d \in Clients : d = c
    BY DEF Alone
  <2>6. ClientsWait'
    BY <1>1, <1>3, <2>1, <2>2, <2>5 DEF ClientsWait, Moves
  <2> QED
    BY <2>4, <2>6
<1> QED
  BY <1>2, <1>3, <1>4 DEF AloneInv, Undisturbed

\* start_discussion creates a loop: the only writer.
LEMMA AloneSpawn ==
    ASSUME TypeInv, AloneInv, Alone, NEW c \in Clients, NEW l \in Loops, SpawnLoop(c, l)
    PROVE  AloneInv'
<1> USE Roles
<1>1. /\ at[c] = "accepted" /\ want[c] = "running" /\ at[l] = "idle" /\ active' = l
      /\ UNCHANGED <<status, cancelled, interrupts, raised, spent>>
      /\ \A u \in Tasks \ {c, l} : at'[u] = at[u] /\ want'[u] = want[u]
      /\ at'[c] = "idle" /\ at'[l] = "emit" /\ want'[l] = want[l]
  BY DEF SpawnLoop, rowVars, TypeInv, TypeOK
<1>2. Wishes'
  BY <1>1 DEF AloneInv, Wishes, UpdateAwaits, LoopAwaits
<1>3. ASSUME WritersWork, ClientsWait PROVE WritersWork' /\ ClientsWait'
  <2>1. status = "running" /\ Writers = {} /\ Busy = {}
    BY <1>1, <1>3 DEF ClientsWait, Writers
  <2>2. Writers' \subseteq {l} /\ Busy' \subseteq {l}
    <3>1. cancelled \subseteq Loops /\ \A m \in Loops \ {l} : at'[m] = at[m]
      BY <1>1 DEF TypeInv, TypeOK
    <3> QED
      BY <1>1, <2>1, <3>1 DEF Writers, Busy
  <2>3. WritersWork'
    BY <1>1, <2>1, <2>2 DEF WritersWork
  <2>4. \A d \in Clients : at'[d] = "idle"
    BY <1>1 DEF Alone
  <2> QED
    BY <2>3, <2>4 DEF ClientsWait
<1> QED
  BY <1>1, <1>2, <1>3 DEF AloneInv, Undisturbed

\* cancel_discussion: if the workflow runs, the loop that leads it is in the entry.
LEMMA AloneCancel ==
    ASSUME TypeInv, AloneInv, Alone, NEW c \in Clients, CancelDiscussion(c)
    PROVE  AloneInv'
<1> USE Roles
<1>1. Moves(c, "select", "cancelled")
  BY GotoMoves DEF CancelDiscussion, TypeInv
<1>2. /\ UNCHANGED <<status, interrupts, raised>> /\ active' = NoTask /\ at[c] = "idle"
      /\ spent'.faults = spent.faults
  BY DEF CancelDiscussion, rowVars, Spend, TypeInv, TypeOK
<1>3. /\ cancelled' \in {cancelled, cancelled \cup {active}} /\ cancelled' \subseteq Loops
      /\ active \in Loops /\ at[active] # "idle" => active \in cancelled'
  BY DEF CancelDiscussion, TypeInv, TypeOK
<1>4. Wishes'
  BY <1>1, <1>2 DEF AloneInv, Wishes, Moves, UpdateAwaits, LoopAwaits
<1>5. ASSUME WritersWork, ClientsWait PROVE WritersWork' /\ ClientsWait'
  <2>1. Busy' \subseteq Busy \ {active}
    BY <1>1, <1>3 DEF Busy, Moves, LoopAwaits
  <2>2. Writers' \subseteq Writers
    BY <1>1, <1>3 DEF Writers, Busy, Moves, LoopAwaits, TypeInv, TypeOK
  <2>3. WritersWork'
    BY <1>2, <1>5, <2>1, <2>2 DEF WritersWork
  <2>4. \A d \in Clients : d = c
    BY DEF Alone
  <2>5. ClientsWait'
    BY <1>1, <1>2, <2>4 DEF ClientsWait, Moves
  <2> QED
    BY <2>3, <2>5
<1> QED
  BY <1>2, <1>4, <1>5 DEF AloneInv, Undisturbed

\* The cancellation reaches a loop; the UPDATE that may land was the only one.
LEMMA AloneDelivered ==
    ASSUME TypeInv, AloneInv, NEW l \in Loops, CancelDelivered(l)
    PROVE  AloneInv'
<1> USE Roles
<1>1. Moves(l, "idle", "none")
  BY GotoMoves DEF CancelDelivered, EndLoop, End, TypeInv
<1>2. UNCHANGED <<active, interrupts, raised,
   spent>> /\ cancelled' = cancelled \ {l} /\ l \in cancelled
  BY DEF CancelDelivered
<1>3. Wishes'
  BY <1>1, <1>2 DEF AloneInv, Wishes, Moves, UpdateAwaits
<1>4. Busy' = Busy /\ Writers' = Writers \ {l}
  BY <1>1, <1>2 DEF Busy, Writers, Moves, LoopAwaits, TypeInv, TypeOK
<1>5. CASE status' = status
  <2>1. WritersWork /\ ClientsWait => WritersWork' /\ ClientsWait'
    BY <1>1, <1>2, <1>4, <1>5 DEF WritersWork, ClientsWait, Moves
  <2> QED
    BY <1>2, <1>3, <2>1 DEF AloneInv, Undisturbed
<1>6. CASE at[l] = "update" /\ status' = want[l]
  <2>1. want[l] \in {"suspended", "failed"}
    BY <1>6 DEF AloneInv, Wishes, UpdateAwaits
  <2>2. ASSUME WritersWork, ClientsWait PROVE WritersWork' /\ ClientsWait'
    <3>1. Writers = {l} /\ Busy = {} /\ status \notin {"created", "failed", "suspended"}
      BY <1>2, <1>6, <2>2 DEF WritersWork, Writers, Busy
    <3>2. WritersWork'
      BY <1>4, <3>1 DEF WritersWork
    <3>3. ClientsWait'
      BY <1>1, <1>2, <1>4, <1>6, <2>1, <2>2, <3>1 DEF ClientsWait, Moves
    <3> QED
      BY <3>2, <3>3
  <2> QED
    BY <1>2, <1>3, <2>2 DEF AloneInv, Undisturbed
<1> QED
  BY <1>5, <1>6 DEF CancelDelivered

LEMMA AloneLoopStep ==
    ASSUME TypeInv, AloneInv, [Next]_vars, NEW l \in Loops, LoopStep(l)
    PROVE  AloneInv'
<1> USE Roles DEF rowVars
<1>1. Undisturbed' => Undisturbed
  BY UndisturbedBefore
<1>2. interrupts \subseteq raised
  BY DEF AloneInv, Wishes
\* From one await of the discussion to the next.
<1>3. ASSUME NEW a \in LoopAwaits \cup {"select", "idle"}, NEW w \in {"none", "suspended"},
             l \notin cancelled, at[l] \in LoopAwaits, Goto(l, a, w),
             UNCHANGED <<status, active, cancelled>>, raised \subseteq raised',
                interrupts' \subseteq raised',
             (w = "suspended") <=> (a = "select"), w = "suspended" => raised' # {}
      PROVE  AloneInv'
  BY <1>1, <1>3, GotoMoves, AloneLoopMoves DEF Busy, UpdateAwaits, LoopAwaits, TypeInv
<1>4. CASE SelectStatus(l) \/ UpdateStatus(l)
  BY <1>4, AloneSelects, AloneLoopUpdates
<1>5. CASE EmitPhase(l)
  BY <1>2, <1>3, <1>5 DEF EmitPhase, Runs, LoopAwaits
<1>6. CASE PhaseOver(l)
  <2>1. phase[l][1] \in {"claim", "attack", "repair"}
    BY <1>6 DEF PhaseOver, Runs, TypeInv, TypeOK, Sound, Phases
  <2>2. PICK a \in {"emit", "converge", "watch"} : Goto(l, a, "none")
    BY <1>6, <2>1 DEF PhaseOver, Enter
  <2> QED
    BY <1>2, <1>3, <1>6, <2>2 DEF PhaseOver, Runs, LoopAwaits
<1>7. CASE CheckConvergence(l)
  BY <1>2, <1>3, <1>7 DEF CheckConvergence, Enter, Runs, LoopAwaits
<1>8. CASE RunWatchdogs(l)
  <2>1. raised \subseteq raised' /\ interrupts' \subseteq raised'
    BY <1>2, <1>8 DEF RunWatchdogs
  <2> QED
    BY <1>3, <1>8, <2>1 DEF RunWatchdogs, Runs, LoopAwaits
<1>9. CASE CheckInterrupts(l)
  <2>1. CASE interrupts # {}
    BY <1>2, <1>3, <1>9, <2>1 DEF CheckInterrupts, Runs, LoopAwaits
  <2>2. CASE interrupts = {}
    BY <1>2, <1>3, <1>9, <2>2 DEF CheckInterrupts, Enter, Runs, LoopAwaits
  <2> QED
    BY <2>1, <2>2
<1>10. CASE AskForSynthesis(l)
  BY <1>2, <1>3, <1>10 DEF AskForSynthesis, EndLoop, End, Runs, LoopAwaits
<1>11. CASE LoopReturns(l)
  BY <1>1, <1>2, <1>11, GotoMoves, AloneLoopMoves DEF LoopReturns, EndLoop, End, UpdateAwaits,
     LoopAwaits, TypeInv
<1>12. CASE CancelDelivered(l)
  BY <1>12, AloneDelivered
<1> QED
  BY <1>4, <1>5, <1>6, <1>7, <1>8, <1>9, <1>10, <1>11, <1>12 DEF LoopStep

LEMMA AloneClientStep ==
    ASSUME TypeInv, AloneInv, Alone, [Next]_vars, NEW c \in Clients, ClientStep(c) \/ ClientCall(c)
    PROVE  AloneInv'
<1> USE Roles DEF rowVars, TypeInv
<1>1. Undisturbed' => Undisturbed
  BY UndisturbedBefore
<1>2. CASE SelectStatus(c) \/ UpdateStatus(c)
  BY <1>2, AloneSelects, AloneClientUpdates
<1>3. ASSUME NEW l \in Loops, SpawnLoop(c, l) PROVE AloneInv'
  BY <1>3, AloneSpawn
<1>4. CASE SynthesisReturns(c)
  <2>1. Moves(c, "idle", "none") /\ active' = NoTask
    BY <1>4, GotoMoves DEF SynthesisReturns, End
  <2>2. CASE Undisturbed
    <3>1. status # "running"
      BY <1>4, <2>2 DEF SynthesisReturns, AloneInv, ClientsWait
    <3> QED
      BY <1>1, <1>4, <2>1, <3>1, AloneClientMoves DEF SynthesisReturns, UpdateAwaits
  <2>3. CASE ~Undisturbed
    BY <1>1, <1>4, <2>1, <2>3
    DEF SynthesisReturns, AloneInv, Wishes, Moves, UpdateAwaits, LoopAwaits
  <2> QED
    BY <2>2, <2>3
<1>5. CASE ClientReturns(c)
  BY <1>1, <1>5, GotoMoves, AloneClientMoves DEF ClientReturns, End, UpdateAwaits
<1>6. CASE StartDiscussion(c) \/ SubmitSynthesis(c)
  BY <1>1, <1>6, GotoMoves, AloneClientMoves DEF StartDiscussion, SubmitSynthesis
<1>7. CASE CancelDiscussion(c)
  BY <1>7, AloneCancel
<1> QED
  BY <1>2, <1>3, <1>4, <1>5, <1>6, <1>7 DEF ClientStep, ClientCall

\* What an error changes: a loop that has not asked for a status yet asks for FAILED.
LEMMA AloneFailure ==
    ASSUME TypeInv, AloneInv, [Next]_vars, Failure
    PROVE  AloneInv'
<1> USE Roles DEF rowVars, TypeInv
<1>1. Undisturbed' => Undisturbed
  BY UndisturbedBefore
<1>2. Undisturbed' => raised' = {}
  <2>1. Spend("faults")
    BY DEF Failure, LoopRaises, ClientRaises, CritiqueLost, Crash
  <2>2. spent \in [{"attacks", "calls", "faults"} -> Nat]
    BY Bounds DEF TypeOK
  <2>3. spent'.faults # 0
    BY <2>1, <2>2 DEF Spend
  <2> QED
    BY <2>3 DEF Undisturbed
<1>3. ASSUME NEW l \in Loops, LoopRaises(l) PROVE AloneInv'
  <2>1. l \notin cancelled /\ at[l] # "idle" /\ UNCHANGED <<status, active, cancelled,
     interrupts, raised>>
    BY <1>3 DEF LoopRaises
  <2>2. interrupts \subseteq raised
    BY DEF AloneInv, Wishes
  <2>3. CASE want[l] = "failed"
    BY <1>1, <1>3, <2>1, <2>2, <2>3, GotoMoves, AloneLoopMoves
    DEF LoopRaises, End, UpdateAwaits, LoopAwaits
  <2>4. CASE want[l] # "failed"
    <3>1. Undisturbed' => l \in Busy
      BY <1>2, <2>1, <2>4 DEF Busy, AloneInv, Wishes, TypeOK
    <3> QED
      BY <1>1, <1>3, <2>1, <2>2, <2>4, <3>1, GotoMoves, AloneLoopMoves DEF LoopRaises
  <2> QED
    BY <2>3, <2>4
<1>4. ASSUME NEW c \in Clients, ClientRaises(c) PROVE AloneInv'
  BY <1>1, <1>4, GotoMoves, AloneClientMoves DEF ClientRaises, End, UpdateAwaits
<1>5. ASSUME NEW x \in Critiques, CritiqueLost(x) PROVE AloneInv'
  <2>1. UNCHANGED <<status, active, at, want, cancelled, interrupts, raised>>
    BY <1>5 DEF CritiqueLost
  <2>2. Busy' = Busy /\ Writers' = Writers
    BY <2>1 DEF Busy, Writers
  <2> QED
    BY <1>1, <2>1, <2>2 DEF AloneInv, Wishes, WritersWork, ClientsWait
<1>6. CASE Crash
  <2>1. /\ \A t \in Tasks : at'[t] = "idle" /\ want'[t] = "none"
        /\ cancelled' = {} /\ UNCHANGED <<interrupts, raised>>
    BY <1>6 DEF Crash
  <2>2. Busy' = {} /\ Writers' = {}
    BY <2>1 DEF Busy, Writers, LoopAwaits
  <2> QED
    BY <2>1, <2>2 DEF AloneInv, Wishes, WritersWork, ClientsWait, UpdateAwaits, LoopAwaits
<1> QED
  BY <1>3, <1>4, <1>5, <1>6 DEF Failure

LEMMA AloneInvStep ==
    ASSUME Alone, TypeInv, AloneInv, [Next]_vars
    PROVE  AloneInv'
<1> USE DEF rowVars, taskVars
<1>1. CASE AgentStep \/ UNCHANGED vars
  <2>1. UNCHANGED <<status, active, at, want, cancelled,
     raised>> /\ interrupts' \subseteq interrupts
    BY <1>1 DEF vars, AgentStep, SubmitClaim, SubmitAttack, AddCritique, SubmitRepair,
       UpdateClaimStatus, ResolveInterrupt, SetClaim
  <2>2. Busy' = Busy /\ Writers' = Writers
    BY <2>1 DEF Busy, Writers
  <2> QED
    BY <2>1, <2>2, UndisturbedBefore DEF AloneInv, Wishes, WritersWork, ClientsWait
<1> QED
  BY <1>1, AloneLoopStep, AloneClientStep, AloneFailure DEF Next

LEMMA AloneInvariant ==
    ASSUME Alone
    PROVE  Spec => [](TypeInv /\ AloneInv)
<1>1. TypeInv /\ AloneInv /\ [Next]_vars => TypeInv' /\ AloneInv'
  BY TypeInvStep, AloneInvStep
<1> QED
  BY <1>1, InitTypeInv, InitAloneInv, PTL DEF Spec

\* With one caller, a discussion never has two loops leading it, unless both an interrupt
\* and an error have occurred: whatever agents, watchdogs, cancels and restarts do.
THEOREM OneDiscussionTheorem ==
    ASSUME Alone
    PROVE  Spec => []OneDiscussion
<1>1. AloneInv => OneDiscussion
  <2> SUFFICES ASSUME AloneInv, Undisturbed PROVE Cardinality(Leading) <= 1
    BY DEF OneDiscussion
  <2>1. Leading \subseteq Writers
    BY DEF Leading, Writers, Busy
  <2>2. \A l, m \in Leading : l = m
    BY <2>1 DEF AloneInv, WritersWork
  <2>3. Leading = {} \/ \E l \in Leading : Leading = {l}
    BY <2>2
  <2>4. Cardinality({}) = 0 /\ \A l \in Leading : Cardinality({l}) = 1
    BY FS_EmptySet, FS_Singleton
  <2>5. Cardinality(Leading) \in {0, 1}
    BY <2>3, <2>4
  <2> QED
    BY <2>5
<1> QED
  BY <1>1, AloneInvariant, PTL

\* With one caller, and unless both an interrupt and an error have occurred, no loop
\* announces another phase of a cancelled discussion once cancel_discussion has returned.
THEOREM CancelledIsQuietTheorem ==
    ASSUME Alone
    PROVE  Spec => []CancelledIsQuiet
<1>1. AloneInv => CancelledIsQuiet
  BY DEF CancelledIsQuiet, Leading, Busy, AloneInv, WritersWork
<1> QED
  BY <1>1, AloneInvariant, PTL

-----------------------------------------------------------------------------
(* A completed discussion has its synthesis: whoever wants COMPLETED has   *)
(* recorded the decision before, and decisions stay.                       *)

SynthesisInv ==
    /\ CompletedIsSynthesized
    /\ \A t \in Tasks : want[t] = "completed" => final

LEMMA SynthesisStep ==
    ASSUME TypeInv, SynthesisInv, [Next]_vars
    PROVE  SynthesisInv'
<1> USE Roles DEF rowVars, taskVars, TypeInv, SynthesisInv, CompletedIsSynthesized
\* Moving on with another wish, or the same.
<1>1. ASSUME NEW t \in Tasks, NEW a, NEW w, Goto(t, a, w), w \in {"completed"} => final',
             final => final', status' = "completed" => status = "completed"
      PROVE  SynthesisInv'
  BY <1>1, GotoMoves DEF Moves
<1>2. ASSUME NEW t \in Tasks, SelectStatus(t) \/ UpdateStatus(t) PROVE SynthesisInv'
  BY <1>2, GotoMoves DEF SelectStatus, UpdateStatus, Moves
<1>3. ASSUME NEW l \in Loops, LoopStep(l) PROVE SynthesisInv'
  <2>1. CASE SelectStatus(l) \/ UpdateStatus(l)
    BY <1>2, <2>1
  <2>2. CASE EmitPhase(l) \/ CheckConvergence(l) \/ RunWatchdogs(l) \/ CheckInterrupts(l)
             \/ AskForSynthesis(l) \/ LoopReturns(l)
    BY <1>1, <2>2 DEF EmitPhase, CheckConvergence, RunWatchdogs, CheckInterrupts,
       AskForSynthesis, LoopReturns, EndLoop, End, Enter
  <2>3. CASE PhaseOver(l)
    <3>1. phase[l][1] \in {"claim", "attack", "repair"}
      BY <2>3 DEF PhaseOver, Runs, TypeOK, Sound, Phases
    <3>2. PICK a : Goto(l, a, "none")
      BY <2>3, <3>1 DEF PhaseOver, Enter
    <3> QED
      BY <1>1, <2>3, <3>2 DEF PhaseOver
  <2>4. CASE CancelDelivered(l)
    <3>1. Moves(l, "idle", "none") /\ final' = final
      BY <2>4, GotoMoves DEF CancelDelivered, EndLoop, End
    <3>2. status' = status \/ status' = want[l]
      BY <2>4 DEF CancelDelivered
    <3> QED
      BY <3>1, <3>2 DEF Moves
  <2> QED
    BY <1>3, <2>1, <2>2, <2>3, <2>4 DEF LoopStep
<1>4. ASSUME NEW c \in Clients, ClientStep(c) \/ ClientCall(c) PROVE SynthesisInv'
  <2>1. CASE SelectStatus(c) \/ UpdateStatus(c)
    BY <1>2, <2>1
  <2>2. ASSUME NEW l \in Loops, SpawnLoop(c, l) PROVE SynthesisInv'
    BY <2>2 DEF SpawnLoop, TypeOK
  <2>3. CASE SynthesisReturns(c) \/ ClientReturns(c) \/ ClientCall(c)
    BY <1>1, <2>3 DEF SynthesisReturns, ClientReturns, End, ClientCall, StartDiscussion,
       SubmitSynthesis, CancelDiscussion
  <2> QED
    BY <1>4, <2>1, <2>2, <2>3 DEF ClientStep
<1>5. CASE AgentStep \/ UNCHANGED vars
  BY <1>5 DEF vars, AgentStep, SubmitClaim, SubmitAttack, AddCritique, SubmitRepair,
     UpdateClaimStatus, ResolveInterrupt, SetClaim
<1>6. CASE Failure
  <2>1. ASSUME NEW t \in Tasks, LoopRaises(t) \/ ClientRaises(t) PROVE SynthesisInv'
    BY <1>1, <2>1 DEF LoopRaises, ClientRaises, End
  <2>2. CASE Crash \/ \E x \in Critiques : CritiqueLost(x)
    BY <2>2 DEF CritiqueLost, Crash
  <2> QED
    BY <1>6, <2>1, <2>2 DEF Failure
<1> QED
  BY <1>3, <1>4, <1>5, <1>6 DEF Next

\* A discussion is COMPLETED only with a final synthesis on record, for any number of
\* callers, and whatever fails or crashes between the two writes.
THEOREM CompletedIsSynthesizedTheorem == Spec => []CompletedIsSynthesized
<1>1. Init => SynthesisInv
  BY DEF Init, SynthesisInv, CompletedIsSynthesized
<1>2. TypeInv /\ SynthesisInv /\ [Next]_vars => TypeInv' /\ SynthesisInv'
  BY TypeInvStep, SynthesisStep
<1>3. SynthesisInv => CompletedIsSynthesized
  BY DEF SynthesisInv
<1> QED
  BY <1>1, <1>2, <1>3, InitTypeInv, PTL DEF Spec
-----------------------------------------------------------------------------
(* Orphans.  As in the engine, every write of RUNNING comes with a caller  *)
(* that creates a new loop, and a loop stops with a write of its own, for  *)
(* any number of callers; but it also stops to wait for the synthesis.     *)

\* Where a loop is when it leads or is about to write.
WorkAwaits == LoopAwaits \cup {"select", "update"}

\* A caller at await a, wanting w, is about to create a loop or to write CANCELLED.
Handles(a, w) ==
    \/ a = "accepted" /\ w = "running"
    \/ a \in {"select", "update"} /\ w = "cancelled"

\* A loop writes SUSPENDED or FAILED only, and one that a cancel waits for has not ended.
LoopWishes ==
    /\ \A l \in Loops : at[l] \in UpdateAwaits => want[l] \in {"suspended", "failed"}
    /\ \A l \in cancelled : at[l] # "idle"

LEMMA InitLoopWishes == Init => LoopWishes
  BY DEF Init, LoopWishes, UpdateAwaits, Tasks

\* A loop that no cancel waits for moves on.
LEMMA LoopWishesMove ==
    ASSUME TypeInv, LoopWishes, NEW l \in Loops \ cancelled, NEW a, NEW w, Moves(l, a, w),
           cancelled' = cancelled,
           a \in UpdateAwaits => w \in {"suspended", "failed"}
    PROVE  LoopWishes'
  BY Roles DEF LoopWishes, Moves, TypeInv, TypeOK

\* A caller moves on.
LEMMA LoopWishesCall ==
    ASSUME TypeInv, LoopWishes, NEW c \in Clients, NEW a, NEW w, Moves(c, a, w),
           cancelled' \subseteq cancelled \cup {l \in Loops : at[l] # "idle"}
    PROVE  LoopWishes'
  BY Roles DEF LoopWishes, Moves, TypeInv, TypeOK

\* A step of one coroutine keeps the discussion, when those that lead it or handle it
\* go on doing so.
LEMMA KeptMoves ==
    ASSUME TypeInv, Kept, NEW t \in Tasks, NEW a, NEW w, Moves(t, a, w), status' = status,
           cancelled' = cancelled,
           t \in Loops /\ status = "running" /\ at[t] \in WorkAwaits => a \in WorkAwaits,
           t \in Clients /\ status = "running" /\ Handles(at[t], want[t]) => Handles(a, w)
    PROVE  Kept'
<1> USE Roles DEF Moves, WorkAwaits, Handles
<1> SUFFICES ASSUME status = "running" PROVE Kept'
  BY DEF Kept
<1>1. CASE \E l \in Loops \ cancelled : at[l] \in WorkAwaits
  <2>1. PICK l \in Loops \ cancelled : at[l] \in WorkAwaits
    BY <1>1
  <2>2. l \in Loops \ cancelled' /\ at'[l] \in WorkAwaits
    BY <2>1
  <2> QED
    BY <2>2 DEF Kept
<1>2. CASE \E c \in Clients : Handles(at[c], want[c])
  <2>1. PICK c \in Clients : Handles(at[c], want[c])
    BY <1>2
  <2>2. Handles(at'[c], want'[c])
    BY <2>1
  <2> QED
    BY <2>2 DEF Kept
<1> QED
  BY <1>1, <1>2 DEF Kept

\* A loop's step: it stops leading with a write of another status, or to wait for the
\* synthesis.
LEMMA KeptLoopStep ==
    ASSUME TypeInv, LoopWishes, NEW l \in Loops, LoopStep(l)
    PROVE  LoopWishes' /\ (Kept /\ ~AskForSynthesis(l) => Kept')
<1> USE Roles DEF rowVars, TypeInv
<1>1. ASSUME NEW a \in WorkAwaits \cup {"idle"}, NEW w \in {"none", "suspended"},
             l \notin cancelled, Goto(l, a, w), UNCHANGED <<status, cancelled>>,
             a \in UpdateAwaits => w = "suspended",
             at[l] \in WorkAwaits /\ ~AskForSynthesis(l) => a \in WorkAwaits
      PROVE  LoopWishes' /\ (Kept /\ ~AskForSynthesis(l) => Kept')
  BY <1>1, GotoMoves, KeptMoves, LoopWishesMove
<1> USE DEF WorkAwaits, LoopAwaits, UpdateAwaits
<1>2. CASE SelectStatus(l)
  <2>1. want[l] \in {"suspended", "failed"} /\ l \notin cancelled
    BY <1>2 DEF SelectStatus, Runs, LoopWishes
  <2>2. PICK a \in {"update", "refused"} :
             Moves(l, a, want[l]) /\ (a = "update" <=> want[l] \in valid_transitions[status])
    BY <1>2, GotoMoves DEF SelectStatus
  <2>3. status = "running" => a = "update"
    BY <2>1, <2>2 DEF valid_transitions
  <2> QED
    BY <1>2, <2>1, <2>2, <2>3, KeptMoves, LoopWishesMove DEF SelectStatus
<1>3. CASE UpdateStatus(l)
  <2>1. want[l] \in {"suspended", "failed"} /\ l \notin cancelled
    BY <1>3 DEF UpdateStatus, Runs, LoopWishes
  <2>2. Moves(l, "accepted", want[l]) /\ cancelled' = cancelled /\ status' = want[l]
    BY <1>3, GotoMoves DEF UpdateStatus
  <2> QED
    BY <2>1, <2>2, LoopWishesMove DEF Kept
<1>4. CASE EmitPhase(l) \/ RunWatchdogs(l)
  BY <1>1, <1>4 DEF EmitPhase, RunWatchdogs, Runs
<1>5. CASE PhaseOver(l)
  <2>1. phase[l][1] \in {"claim", "attack", "repair"}
    BY <1>5 DEF PhaseOver, Runs, TypeOK, Sound, Phases
  <2>2. PICK a \in {"emit", "converge", "watch"} : Goto(l, a, "none")
    BY <1>5, <2>1 DEF PhaseOver, Enter
  <2> QED
    BY <1>1, <1>5, <2>2 DEF PhaseOver, Runs
<1>6. CASE CheckConvergence(l)
  BY <1>1, <1>6 DEF CheckConvergence, Enter, Runs
<1>7. CASE CheckInterrupts(l)
  <2>1. CASE interrupts # {}
    BY <1>1, <1>7, <2>1 DEF CheckInterrupts, Runs
  <2>2. CASE interrupts = {}
    BY <1>1, <1>7, <2>2 DEF CheckInterrupts, Enter, Runs
  <2> QED
    BY <2>1, <2>2
<1>8. CASE AskForSynthesis(l)
  <2>1. Goto(l, "idle", "none") /\ l \notin cancelled /\ UNCHANGED <<status, cancelled>>
    BY <1>8 DEF AskForSynthesis, EndLoop, End, Runs
  <2> QED
    BY <1>1, <1>8, <2>1
<1>9. CASE LoopReturns(l)
  BY <1>1, <1>9 DEF LoopReturns, EndLoop, End
<1>10. CASE CancelDelivered(l)
  <2>1. /\ l \in cancelled /\ cancelled' = cancelled \ {l}
        /\ Moves(l, "idle", "none")
    BY <1>10, GotoMoves DEF CancelDelivered, EndLoop, End
  <2>2. LoopWishes'
    BY <2>1 DEF LoopWishes, Moves, TypeOK
  <2>3. status' # status => status' # "running"
    BY <1>10 DEF CancelDelivered, LoopWishes
  <2>4. status' = status /\ Kept => Kept'
    BY <2>1 DEF Kept, Moves
  <2> QED
    BY <2>2, <2>3, <2>4 DEF Kept
<1> QED
  BY <1>2, <1>3, <1>4, <1>5, <1>6, <1>7, <1>8, <1>9, <1>10 DEF LoopStep

\* A caller's step: who writes RUNNING creates a loop, and who stops one writes CANCELLED.
LEMMA KeptClientStep ==
    ASSUME TypeInv, LoopWishes, NEW c \in Clients, ClientStep(c) \/ ClientCall(c)
    PROVE  LoopWishes' /\ (Kept => Kept')
<1> USE Roles DEF rowVars, TypeInv
<1>1. ASSUME NEW a, NEW w, Goto(c, a, w), UNCHANGED <<status, cancelled>>,
             Handles(at[c], want[c]) => Handles(a, w) \/ status # "running"
      PROVE  LoopWishes' /\ (Kept => Kept')
  BY <1>1, GotoMoves, KeptMoves, LoopWishesCall
<1>2. CASE SelectStatus(c)
  <2>1. PICK a \in {"update", "refused"} :
             Goto(c, a, want[c]) /\ (a = "update" <=> want[c] \in valid_transitions[status])
    BY <1>2 DEF SelectStatus
  <2>2. status = "running" /\ want[c] = "cancelled" => a = "update"
    BY <2>1 DEF valid_transitions
  <2> QED
    BY <1>1, <1>2, <2>1, <2>2 DEF SelectStatus, Runs, Handles
<1>3. CASE UpdateStatus(c)
  <2>1. Moves(c, "accepted", want[c]) /\ cancelled' = cancelled /\ status' = want[c]
    BY <1>3, GotoMoves DEF UpdateStatus
  <2> QED
    BY <2>1, LoopWishesCall DEF Kept, Moves
<1>4. ASSUME NEW l \in Loops, SpawnLoop(c, l) PROVE LoopWishes' /\ Kept'
  <2>1. at'[l] = "emit" /\ cancelled' = cancelled /\ l \notin cancelled
    BY <1>4 DEF SpawnLoop, LoopWishes, TypeOK
  <2>2. LoopWishes'
    BY <1>4 DEF SpawnLoop, LoopWishes, UpdateAwaits, TypeOK
  <2> QED
    BY <2>1, <2>2 DEF Kept, LoopAwaits
<1>5. CASE SynthesisReturns(c) \/ ClientReturns(c)
  BY <1>1, <1>5 DEF SynthesisReturns, ClientReturns, End, Handles
<1>6. CASE StartDiscussion(c) \/ SubmitSynthesis(c)
  BY <1>1, <1>6 DEF StartDiscussion, SubmitSynthesis, Handles
<1>7. CASE CancelDiscussion(c)
  <2>1. Moves(c, "select", "cancelled")
    BY <1>7, GotoMoves DEF CancelDiscussion
  <2>2. cancelled' \subseteq cancelled \cup {l \in Loops : at[l] # "idle"}
    BY <1>7 DEF CancelDiscussion, TypeOK
  <2> QED
    BY <2>1, <2>2, LoopWishesCall DEF Kept, Moves
<1> QED
  BY <1>2, <1>3, <1>4, <1>5, <1>6, <1>7 DEF ClientStep, ClientCall

LEMMA KeptStep ==
    ASSUME TypeInv, LoopWishes, [Next]_vars
    PROVE  LoopWishes' /\ (Kept /\ ~Abandons => Kept')
<1> USE Roles DEF rowVars, taskVars, TypeInv
<1>1. ASSUME NEW l \in Loops, LoopRaises(l) PROVE LoopWishes' /\ (Kept /\ ~Abandons => Kept')
  <2>1. l \notin cancelled /\ UNCHANGED <<status, cancelled>>
    BY <1>1 DEF LoopRaises
  <2>2. CASE want[l] = "failed"
    <3>1. Goto(l, "idle", "none") /\ Abandons
      BY <1>1, <2>2 DEF LoopRaises, End, Abandons
    <3> QED
      BY <2>1, <3>1, GotoMoves, LoopWishesMove DEF UpdateAwaits
  <2>3. CASE want[l] # "failed"
    <3>1. Goto(l, "select", "failed")
      BY <1>1, <2>3 DEF LoopRaises
    <3> QED
      BY <2>1, <3>1, GotoMoves, LoopWishesMove, KeptMoves DEF WorkAwaits
  <2> QED
    BY <2>2, <2>3
<1>2. ASSUME NEW c \in Clients, ClientRaises(c) PROVE LoopWishes' /\ Abandons
  <2>1. Goto(c, "idle", "none") /\ cancelled' = cancelled
    BY <1>2 DEF ClientRaises, End
  <2> QED
    BY <1>2, <2>1, GotoMoves, LoopWishesCall DEF Abandons
<1>3. CASE Crash
  BY <1>3 DEF Crash, LoopWishes, UpdateAwaits, Abandons, Tasks
<1>4. CASE AgentStep \/ (\E x \in Critiques : CritiqueLost(x)) \/ UNCHANGED vars
  BY <1>4 DEF AgentStep, CritiqueLost, vars, SubmitClaim, SubmitAttack, AddCritique,
     SubmitRepair, UpdateClaimStatus, ResolveInterrupt, SetClaim, LoopWishes, Kept
<1>5. ASSUME NEW l \in Loops, LoopStep(l) PROVE LoopWishes' /\ (Kept /\ ~Abandons => Kept')
  BY <1>5, KeptLoopStep DEF Abandons
<1> QED
  BY <1>1, <1>2, <1>3, <1>4, <1>5, KeptClientStep DEF Next, Failure

\* Whatever callers, loops, interrupts and errors overtake each other, a running discussion
\* has a loop that leads it, or a caller about to create one or to write CANCELLED, until
\* its loop waits for the synthesis: else it is only left to itself by a crash, by a call
\* that breaks off, or by an error in the handler of an error.
THEOREM OrphansAreExplainedTheorem == Spec => OrphansAreExplained
<1>1. TypeInv /\ LoopWishes /\ [Next]_vars => TypeInv' /\ LoopWishes'
  BY TypeInvStep, KeptStep
<1>2. TypeInv /\ LoopWishes /\ [Next]_vars => [Kept /\ ~Kept' => Abandons]_vars
  BY KeptStep
<1> QED
  BY <1>1, <1>2, InitTypeInv, InitLoopWishes, PTL DEF Spec, OrphansAreExplained
=============================================================================

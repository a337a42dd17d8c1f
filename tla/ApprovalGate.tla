---------------------------- MODULE ApprovalGate ----------------------------
(***************************************************************************)
(* core/approval/gate.py: evaluate() on behalf of callers that each have   *)
(* one request at a time.  The risk is looked up when evaluate begins; the *)
(* only await is the callback that asks a human.  The callback belongs to  *)
(* whoever builds the gate: it answers, raises, or does not return.        *)
(***************************************************************************)
EXTENDS Integers

CONSTANTS
    Callers,        \* coroutines that call evaluate
    Agents,         \* agent_ids
    Tools,          \* tool names
    HasCallback,    \* was the gate built with an approval_callback?
    MaxFaults,      \* bound on exceptions
    MaxOverrides    \* bound on changes of the overrides

ASSUME GateAssumption ==
    HasCallback \in BOOLEAN /\ MaxFaults \in Nat /\ MaxOverrides \in Nat

Risks == {"low", "medium", "high", "critical"}

VARIABLES
    risk_overrides, \* for (agent, tool) the overriding risk, or "none"
    overridden,     \* changes of the overrides so far
    faults,         \* exceptions so far
    risk,           \* the effective risk of each caller's request
    verdict,        \* its outcome
    said            \* history: what the human said to it

gateVars == <<risk_overrides, overridden, faults, risk, verdict, said>>

GateTypeOK ==
    /\ risk_overrides \in [Agents \X Tools -> Risks \cup {"none"}]
    /\ overridden \in 0 .. MaxOverrides
    /\ faults \in 0 .. MaxFaults
    /\ risk \in [Callers -> Risks \cup {"none"}]
    /\ verdict \in [Callers -> {"none", "pending", "approved", "denied", "error"}]
    /\ said \in [Callers -> {"nothing", "yes", "no"}]

GateInit ==
    /\ risk_overrides = [k \in Agents \X Tools |-> "none"]
    /\ overridden = 0
    /\ faults = 0
    /\ risk = [c \in Callers |-> "none"]
    /\ verdict = [c \in Callers |-> "none"]
    /\ said = [c \in Callers |-> "nothing"]

Fault == faults < MaxFaults /\ faults' = faults + 1

-----------------------------------------------------------------------------
(* Overrides.                                                              *)

OverrideRisk(a, t, r) ==
    /\ overridden < MaxOverrides
    /\ overridden' = overridden + 1
    /\ risk_overrides' = [risk_overrides EXCEPT ![<<a, t>>] = r]
    /\ UNCHANGED <<faults, risk, verdict, said>>

ClearRiskOverride(a, t) ==
    /\ overridden < MaxOverrides
    /\ overridden' = overridden + 1
    /\ risk_overrides' = [risk_overrides EXCEPT ![<<a, t>>] = "none"]
    /\ UNCHANGED <<faults, risk, verdict, said>>

-----------------------------------------------------------------------------
(* evaluate, and _human_approve up to its await and after it.              *)

EffectiveRisk(a, t, declared) ==
    IF risk_overrides[<<a, t>>] = "none" THEN declared ELSE risk_overrides[<<a, t>>]

\* What evaluate comes to without waiting: "pending" is the callback's await.
Decision(r) ==
    CASE r \in {"low", "medium"}                     -> "approved"
      [] r \in {"high", "critical"} /\ HasCallback   -> "pending"
      [] r \in {"high", "critical"} /\ ~HasCallback  -> "denied"

Evaluate(c, r) ==
    /\ risk' = [risk EXCEPT ![c] = r]
    /\ verdict' = [verdict EXCEPT ![c] = Decision(r)]
    /\ said' = [said EXCEPT ![c] = "nothing"]

\* The callback returns True or False.
HumanAnswers(c, answer) ==
    /\ verdict[c] = "pending"
    /\ said' = [said EXCEPT ![c] = answer]
    /\ verdict' = [verdict EXCEPT ![c] = IF answer = "yes" THEN "approved" ELSE "denied"]
    /\ UNCHANGED <<risk_overrides, overridden, faults, risk>>

\* Faulty variant: silence is consent.
TimesOutApproving(c) ==
    /\ verdict[c] = "pending"
    /\ risk[c] = "high"
    /\ verdict' = [verdict EXCEPT ![c] = "approved"]
    /\ UNCHANGED <<risk_overrides, overridden, faults, risk, said>>

\* Faulty variant: the time-out of the two policies is exchanged.
TimesOutCritical(c) ==
    /\ verdict[c] = "pending"
    /\ risk[c] = "critical"
    /\ verdict' = [verdict EXCEPT ![c] = "denied"]
    /\ UNCHANGED <<risk_overrides, overridden, faults, risk, said>>

\* anyio.fail_after(HIGH_RISK_TIMEOUT_SECONDS) cancels the callback.
TimesOut(c) ==
    /\ verdict[c] = "pending"
    /\ risk[c] = "high"
    /\ verdict' = [verdict EXCEPT ![c] = "denied"]
    /\ UNCHANGED <<risk_overrides, overridden, faults, risk, said>>

\* A TimeoutError that the callback itself raises is taken for the time-out.
CallbackTimesOut(c) ==
    /\ verdict[c] = "pending"
    /\ Fault
    /\ verdict' = [verdict EXCEPT ![c] = "denied"]
    /\ UNCHANGED <<risk_overrides, overridden, risk, said>>

\* evaluate returns to a caller that waited.
Decides(c) ==
    \/ \E answer \in {"yes", "no"} : HumanAnswers(c, answer)
    \/ TimesOut(c)
    \/ CallbackTimesOut(c)

\* The callback raises anything else, and evaluate an ApprovalError.
CallbackRaises(c) ==
    /\ verdict[c] = "pending"
    /\ Fault
    /\ UNCHANGED <<risk_overrides, overridden>>
=============================================================================

--------------------------- MODULE ToolCallsProofs ---------------------------
(***************************************************************************)
(* What holds of tool calls for any pipelines, requests and bounds.  The   *)
(* proofs are layered: first the types with what the await of a caller     *)
(* says about its verdict and its plan, then approvals and answers.        *)
(***************************************************************************)
EXTENDS ToolCalls, FiniteSetTheorems, TLAPS

-----------------------------------------------------------------------------
(* The first layer.                                                        *)

\* The pipelines are loaded while loops exist.
LoadedInv ==
    /\ runner = "off" => \A p \in Pipelines : pc[p] = "none"
    /\ runner # "off" => steps \in Configs

\* What the await of a loop says about the gate and about what is left of its run.
AwaitInv(p) ==
    /\ pc[p] = "human" => verdict[p] = "pending"
    /\ pc[p] \in {"audit", "event"} => verdict[p] \in {"approved", "denied"}
    /\ pc[p] = "handler" => verdict[p] = "approved"
    /\ pc[p] \in Busy => plan[p] # <<>>
    /\ pc[p] = "complete" => plan[p] = <<>>
    /\ pc[p] \in Busy => \A n \in DOMAIN plan[p] : plan[p][n] \in Registered(steps[p])

\* What the await of a request says about the gate.
RequestInv(r) ==
    /\ rpc[r] = "human" => verdict[r] = "pending"
    /\ rpc[r] = "audit" => verdict[r] \in {"approved", "denied"}
    /\ rpc[r] \in {"event", "handler"} => verdict[r] = "approved"

\* Nothing is approved but by its risk or by a yes.
ApprovedInv(c) ==
    verdict[c] = "approved" => risk[c] \in {"low", "medium"} \/ said[c] = "yes"

Shape ==
    /\ TypeOK
    /\ LoadedInv
    /\ \A p \in Pipelines : AwaitInv(p)
    /\ \A r \in Requests : RequestInv(r)
    /\ \A c \in Callers : ApprovedInv(c)

-----------------------------------------------------------------------------
(* Facts about the operators.                                              *)

LEMMA DecisionFacts ==
    ASSUME NEW r \in Risks
    PROVE  /\ Decision(r) \in {"approved", "pending", "denied"}
           /\ Decision(r) = "approved" => r \in {"low", "medium"}
  BY GateAssumption DEF Decision, Risks

LEMMA EffectiveRiskType ==
    ASSUME TypeOK, NEW c \in Callers, NEW t \in DOMAIN DeclaredRisk
    PROVE  EffectiveRisk(AgentOf[c], t, DeclaredRisk[t]) \in Risks
  <1>1. t \in Tools /\ AgentOf[c] \in Agents /\ DeclaredRisk[t] \in Risks
    BY RunnerAssumption
  <1>2. <<AgentOf[c], t>> \in Agents \X Tools
    BY <1>1
  <1>3. risk_overrides[<<AgentOf[c], t>>] \in Risks \cup {"none"}
    BY <1>2 DEF TypeOK, GateTypeOK
  <1> QED
    BY <1>1, <1>3 DEF EffectiveRisk

\* The steps of a pipeline, and their positions.
LEMMA StepsType ==
    ASSUME NEW config \in Configs, NEW p \in Pipelines
    PROVE  /\ config[p] \in Seq(StepsOn(Tools))
           /\ DistinctTools(config[p])
           /\ DOMAIN config[p] = 1 .. Len(config[p])
           /\ Len(config[p]) \in Nat
           /\ Registered(config[p]) \subseteq 1 .. Len(config[p])
           /\ IsFiniteSet(Registered(config[p]))
           /\ Cardinality(Registered(config[p])) \in Nat
  <1>1. config[p] \in Seq(StepsOn(Tools)) /\ DistinctTools(config[p])
    BY RunnerAssumption
  <1>2. DOMAIN config[p] = 1 .. Len(config[p]) /\ Len(config[p]) \in Nat
    BY <1>1
  <1>3. Registered(config[p]) \subseteq 1 .. Len(config[p])
    BY <1>2 DEF Registered
  <1>4. IsFiniteSet(Registered(config[p]))
    <2>1. IsFiniteSet(1 .. Len(config[p]))
      BY <1>2, FS_Interval
    <2> QED
      BY <2>1, <1>3, FS_Subset
  <1> QED
    BY <1>1, <1>2, <1>3, <1>4, FS_CardinalityType

\* A plan is a sequence of positions of registered steps.
LEMMA PlanType ==
    ASSUME NEW config \in Configs, NEW p \in Pipelines, NEW o \in Plans[config[p]]
    PROVE  /\ o \in PlansOf(config[p])
           /\ o \in Seq(Nat)
           /\ Len(o) = Cardinality(Registered(config[p]))
           /\ DOMAIN o = 1 .. Len(o)
           /\ \A n \in DOMAIN o : o[n] \in Registered(config[p])
  <1> DEFINE R == Registered(config[p])
             k == Cardinality(R)
  <1>1. o \in PlansOf(config[p])
    BY DEF Plans
  <1>2. o \in [1 .. k -> R]
    BY <1>1 DEF PlansOf
  <1>3. k \in Nat /\ R \subseteq Nat
    BY StepsType
  <1> HIDE DEF k, R
  <1>4. o \in Seq(Nat) /\ Len(o) = k /\ DOMAIN o = 1 .. Len(o) /\ \A n \in DOMAIN o : o[n] \in R
    <2>1. o \in [1 .. k -> Nat] /\ DOMAIN o = 1 .. k
      BY <1>2, <1>3
    <2>2. o \in Seq(Nat)
      BY <2>1, <1>3
    <2>3. Len(o) = k
      BY <2>1, <2>2, <1>3
    <2> QED
      BY <1>2, <2>1, <2>2, <2>3
  <1> QED
    BY <1>1, <1>4 DEF k, R

-----------------------------------------------------------------------------
(* Taking the next step of a run.                                          *)

LEMMA ProceedFacts ==
    ASSUME TypeOK, NEW p \in Pipelines, NEW rest \in Seq(Nat), Proceed(p, rest),
           \A n \in DOMAIN rest : rest[n] \in Registered(steps[p])
    PROVE  /\ plan' = [plan EXCEPT ![p] = rest]
           /\ attempt' = [attempt EXCEPT ![p] = 1]
           /\ \E k \in Busy \cup {"complete"} :
                /\ pc' = [pc EXCEPT ![p] = k]
                /\ (k = "complete") <=> (rest = <<>>)
                /\ k = "human" => verdict'[p] = "pending"
                /\ k \in {"audit", "event"} => verdict'[p] \in {"approved", "denied"}
                /\ k = "handler" => verdict'[p] = "approved"
           /\ risk' \in [Callers -> Risks \cup {"none"}]
           /\ verdict' \in [Callers -> {"none", "pending", "approved", "denied", "error"}]
           /\ said' \in [Callers -> {"nothing", "yes", "no"}]
           /\ \A c \in Callers : c # p =>
                risk'[c] = risk[c] /\ verdict'[c] = verdict[c] /\ said'[c] = said[c]
           /\ ApprovedInv(p) => ApprovedInv(p)'
           /\ UNCHANGED <<risk_overrides, overridden, runner, starts, steps>>
  <1>1. p \in Callers
    BY RunnerAssumption
  <1>2. CASE rest = <<>>
    BY <1>1, <1>2 DEF Proceed, TypeOK, GateTypeOK, RunnerTypeOK, ApprovedInv, Busy
  <1>3. CASE rest # <<>>
    <2> DEFINE t == steps[p][Head(rest)].tool
               k == EffectiveRisk(AgentOf[p], t, DeclaredRisk[t])
    <2>1. Head(rest) = rest[1] /\ 1 \in DOMAIN rest
      BY <1>3
    <2>2. t \in DOMAIN DeclaredRisk
      BY <2>1 DEF Registered
    <2>3. k \in Risks
      BY <2>2, <1>1, EffectiveRiskType
    <2>4. /\ Evaluate(p, k)
          /\ pc' = [pc EXCEPT ![p] = AfterGate(t, Decision(k))]
      BY <1>3 DEF Proceed
    <2>5. /\ Decision(k) \in {"approved", "pending", "denied"}
          /\ Decision(k) = "approved" => k \in {"low", "medium"}
      BY <2>3, DecisionFacts
    <2> HIDE DEF k, t
    <2>6. /\ risk' = [risk EXCEPT ![p] = k]
          /\ verdict' = [verdict EXCEPT ![p] = Decision(k)]
          /\ said' = [said EXCEPT ![p] = "nothing"]
      BY <2>4 DEF Evaluate
    <2>7. verdict'[p] = Decision(k) /\ risk'[p] = k
      BY <2>6, <1>1 DEF TypeOK, GateTypeOK
    <2>8. /\ AfterGate(t, Decision(k)) \in Busy
          /\ AfterGate(t, Decision(k)) = "human" => Decision(k) = "pending"
          /\ AfterGate(t, Decision(k)) \in {"audit", "event"} => Decision(k) \in {"approved", "denied"}
          /\ AfterGate(t, Decision(k)) = "handler" => Decision(k) = "approved"
      BY <2>5 DEF AfterGate, AfterAudit, Busy
    <2>9. /\ risk' \in [Callers -> Risks \cup {"none"}]
          /\ verdict' \in [Callers -> {"none", "pending", "approved", "denied", "error"}]
          /\ said' \in [Callers -> {"nothing", "yes", "no"}]
          /\ \A c \in Callers : c # p =>
                risk'[c] = risk[c] /\ verdict'[c] = verdict[c] /\ said'[c] = said[c]
      BY <2>3, <2>5, <2>6 DEF TypeOK, GateTypeOK
    <2>10. ApprovedInv(p)'
      BY <2>5, <2>7 DEF ApprovedInv
    <2>11. \E a \in Busy \cup {"complete"} :
                /\ pc' = [pc EXCEPT ![p] = a]
                /\ (a = "complete") <=> (rest = <<>>)
                /\ a = "human" => verdict'[p] = "pending"
                /\ a \in {"audit", "event"} => verdict'[p] \in {"approved", "denied"}
                /\ a = "handler" => verdict'[p] = "approved"
      <3> DEFINE a == AfterGate(t, Decision(k))
      <3>1. a \in Busy \cup {"complete"} /\ a # "complete"
        BY <2>8 DEF Busy
      <3>2. /\ pc' = [pc EXCEPT ![p] = a]
            /\ (a = "complete") <=> (rest = <<>>)
            /\ a = "human" => verdict'[p] = "pending"
            /\ a \in {"audit", "event"} => verdict'[p] \in {"approved", "denied"}
            /\ a = "handler" => verdict'[p] = "approved"
        BY <3>1, <1>3, <2>4, <2>7, <2>8
      <3> QED
        BY <3>1, <3>2
    <2>12. /\ plan' = [plan EXCEPT ![p] = rest]
           /\ attempt' = [attempt EXCEPT ![p] = 1]
           /\ UNCHANGED <<risk_overrides, overridden, runner, starts, steps>>
      BY DEF Proceed
    <2> QED
      BY <2>9, <2>10, <2>11, <2>12
  <1> QED
    BY <1>2, <1>3

-----------------------------------------------------------------------------
(* The first layer is inductive: a step touches one caller.                *)

LEMMA OthersOfPipeline ==
    ASSUME Shape, NEW p \in Pipelines, steps' = steps, rpc' = rpc,
           \A q \in Pipelines : q # p => pc'[q] = pc[q] /\ plan'[q] = plan[q],
           \A c \in Callers : c # p =>
                risk'[c] = risk[c] /\ verdict'[c] = verdict[c] /\ said'[c] = said[c],
           AwaitInv(p)', ApprovedInv(p)'
    PROVE  /\ \A q \in Pipelines : AwaitInv(q)'
           /\ \A r \in Requests : RequestInv(r)'
           /\ \A c \in Callers : ApprovedInv(c)'
  <1>1. \A q \in Pipelines : q # p => verdict'[q] = verdict[q]
    BY RunnerAssumption
  <1>2. \A q \in Pipelines : q # p => AwaitInv(q)'
    BY <1>1 DEF Shape, AwaitInv, Registered
  <1>3. \A r \in Requests : verdict'[r] = verdict[r]
    BY RequestsAssumption
  <1>4. \A r \in Requests : RequestInv(r)'
    BY <1>3 DEF Shape, RequestInv
  <1>5. \A c \in Callers : c # p => ApprovedInv(c)'
    BY DEF Shape, ApprovedInv
  <1> QED
    BY <1>2, <1>4, <1>5

LEMMA ProceedShape ==
    ASSUME Shape, NEW p \in Pipelines, NEW rest \in Seq(Nat), Proceed(p, rest),
           \A n \in DOMAIN rest : rest[n] \in Registered(steps[p]),
           runner = "on", UNCHANGED requestVars,
           faults' \in 0 .. MaxFaults, runs' \in 0 .. MaxRuns,
           ended' \in [Pipelines -> SUBSET Nat], ran' \in [Pipelines -> SUBSET Nat],
           good' \in [Pipelines -> SUBSET Nat], told' \in [Pipelines -> SUBSET Report]
    PROVE  Shape'
  <1>1. TypeOK /\ ApprovedInv(p)
    BY RunnerAssumption DEF Shape
  <1>2. /\ plan' = [plan EXCEPT ![p] = rest]
        /\ attempt' = [attempt EXCEPT ![p] = 1]
        /\ risk' \in [Callers -> Risks \cup {"none"}]
        /\ verdict' \in [Callers -> {"none", "pending", "approved", "denied", "error"}]
        /\ said' \in [Callers -> {"nothing", "yes", "no"}]
        /\ \A c \in Callers : c # p =>
                risk'[c] = risk[c] /\ verdict'[c] = verdict[c] /\ said'[c] = said[c]
        /\ ApprovedInv(p)'
        /\ UNCHANGED <<risk_overrides, overridden, runner, starts, steps>>
    BY <1>1, ProceedFacts
  <1>3. PICK k \in Busy \cup {"complete"} :
            /\ pc' = [pc EXCEPT ![p] = k]
            /\ (k = "complete") <=> (rest = <<>>)
            /\ k = "human" => verdict'[p] = "pending"
            /\ k \in {"audit", "event"} => verdict'[p] \in {"approved", "denied"}
            /\ k = "handler" => verdict'[p] = "approved"
    BY <1>1, ProceedFacts
  <1>4. /\ pc' \in [Pipelines -> Busy \cup {"none", "wait", "complete"}]
        /\ plan' \in [Pipelines -> Seq(Nat)]
        /\ attempt' \in [Pipelines -> 1 .. MaxAttempts]
    BY <1>1, <1>2, <1>3, RunnerAssumption DEF TypeOK, RunnerTypeOK
  <1>5. TypeOK'
    BY <1>1, <1>2, <1>4 DEF TypeOK, GateTypeOK, RunnerTypeOK, requestVars
  <1>6. LoadedInv'
    BY <1>2 DEF Shape, LoadedInv
  <1>7. pc'[p] = k /\ plan'[p] = rest
    BY <1>1, <1>2, <1>3 DEF TypeOK, RunnerTypeOK
  <1>8. AwaitInv(p)'
    BY <1>2, <1>3, <1>7 DEF AwaitInv, Busy, Registered
  <1>9. /\ \A q \in Pipelines : q # p => pc'[q] = pc[q] /\ plan'[q] = plan[q]
        /\ steps' = steps /\ rpc' = rpc
    BY <1>1, <1>2, <1>3 DEF TypeOK, RunnerTypeOK, requestVars
  <1> QED
    BY <1>2, <1>5, <1>6, <1>8, <1>9, OthersOfPipeline DEF Shape

\* What is left of a run stays a list of registered steps when one is taken off.
LEMMA RestType ==
    ASSUME Shape, NEW p \in Pipelines, pc[p] \in Busy
    PROVE  /\ plan[p] \in Seq(Nat) /\ plan[p] # <<>>
           /\ Tail(plan[p]) \in Seq(Nat)
           /\ \A n \in DOMAIN Tail(plan[p]) : Tail(plan[p])[n] \in Registered(steps[p])
           /\ Current(p) = plan[p][1]
           /\ Current(p) \in Nat /\ Current(p) \in Registered(steps[p])
  <1>1. /\ plan[p] \in Seq(Nat) /\ plan[p] # <<>>
        /\ \A n \in DOMAIN plan[p] : plan[p][n] \in Registered(steps[p])
    BY DEF Shape, TypeOK, RunnerTypeOK, AwaitInv
  <1> DEFINE s == plan[p]
             R == Registered(steps[p])
  <1> HIDE DEF s, R
  <1>2. s \in Seq(Nat) /\ s # <<>> /\ \A n \in DOMAIN s : s[n] \in R
    BY <1>1 DEF s, R
  <1>3. /\ Tail(s) \in Seq(Nat) /\ Head(s) = s[1] /\ 1 \in DOMAIN s
        /\ \A n \in DOMAIN Tail(s) : Tail(s)[n] = s[n + 1] /\ n + 1 \in DOMAIN s
    BY <1>2
  <1>4. Head(s) \in Nat /\ Head(s) \in R
    BY <1>2, <1>3
  <1> QED
    BY <1>2, <1>3, <1>4 DEF s, R, Current

\* A step of a loop that leaves the gate and the rest of its run alone.
LEMMA StayShape ==
    ASSUME Shape, NEW p \in Pipelines, runner # "off",
           UNCHANGED <<risk_overrides, overridden, risk, verdict, said,
                       runner, starts, runs, steps, plan, requestVars>>,
           NEW k \in Busy \cup {"none", "wait", "complete"}, pc' = [pc EXCEPT ![p] = k],
           k \in Busy => pc[p] \in Busy,
           k = "complete" => pc[p] = "complete",
           k = "human" => verdict[p] = "pending",
           k \in {"audit", "event"} => verdict[p] \in {"approved", "denied"},
           k = "handler" => verdict[p] = "approved",
           faults' \in 0 .. MaxFaults, attempt' \in [Pipelines -> 1 .. MaxAttempts],
           ended' \in [Pipelines -> SUBSET Nat], ran' \in [Pipelines -> SUBSET Nat],
           good' \in [Pipelines -> SUBSET Nat], told' \in [Pipelines -> SUBSET Report]
    PROVE  Shape'
  <1>1. TypeOK /\ ApprovedInv(p) /\ AwaitInv(p)
    BY RunnerAssumption DEF Shape
  <1>2. TypeOK'
    BY <1>1 DEF TypeOK, GateTypeOK, RunnerTypeOK, requestVars
  <1>3. LoadedInv'
    BY DEF Shape, LoadedInv
  <1>4. pc'[p] = k
    BY <1>1 DEF TypeOK, RunnerTypeOK
  <1>5. AwaitInv(p)'
    BY <1>1, <1>4 DEF AwaitInv, Busy, Registered
  <1>6. ApprovedInv(p)'
    BY <1>1 DEF ApprovedInv
  <1>7. /\ \A q \in Pipelines : q # p => pc'[q] = pc[q] /\ plan'[q] = plan[q]
        /\ \A c \in Callers : c # p =>
                risk'[c] = risk[c] /\ verdict'[c] = verdict[c] /\ said'[c] = said[c]
        /\ steps' = steps /\ rpc' = rpc
    BY <1>1 DEF TypeOK, RunnerTypeOK, requestVars
  <1> QED
    BY <1>2, <1>3, <1>5, <1>6, <1>7, OthersOfPipeline DEF Shape

\* Exceptions stay within their bound.
LEMMA FaultType ==
    ASSUME TypeOK, Fault
    PROVE  faults' \in 0 .. MaxFaults
  BY GateAssumption DEF TypeOK, GateTypeOK, Fault

\* An answer of the gate to a caller that waits.
LEMMA DecidesFacts ==
    ASSUME TypeOK, NEW c \in Callers, Decides(c)
    PROVE  /\ verdict[c] = "pending"
           /\ verdict' \in [Callers -> {"none", "pending", "approved", "denied", "error"}]
           /\ said' \in [Callers -> {"nothing", "yes", "no"}]
           /\ faults' \in 0 .. MaxFaults
           /\ verdict'[c] \in {"approved", "denied"}
           /\ ApprovedInv(c)'
           /\ \A d \in Callers : d # c => verdict'[d] = verdict[d] /\ said'[d] = said[d]
           /\ UNCHANGED <<risk_overrides, overridden, risk>>
  <1> USE DEF TypeOK, GateTypeOK, ApprovedInv
  <1>1. CASE \E answer_ \in {"yes", "no"} : HumanAnswers(c, answer_)
    BY <1>1 DEF HumanAnswers
  <1>2. CASE TimesOut(c)
    BY <1>2 DEF TimesOut
  <1>3. CASE CallbackTimesOut(c)
    BY <1>3, FaultType DEF CallbackTimesOut
  <1> QED
    BY <1>1, <1>2, <1>3 DEF Decides

-----------------------------------------------------------------------------
(* The steps of a run.                                                     *)

LEMMA GateDecidesShape ==
    ASSUME Shape, NEW p \in Pipelines, GateDecides(p), UNCHANGED requestVars
    PROVE  Shape'
  <1>1. TypeOK /\ AwaitInv(p) /\ p \in Callers
    BY RunnerAssumption DEF Shape
  <1> DEFINE k == AfterGate(ToolOf(p), verdict'[p])
  <1>2. /\ pc' = [pc EXCEPT ![p] = k] /\ pc[p] = "human" /\ runner = "on" /\ Decides(p)
        /\ UNCHANGED <<runner, starts, runs, steps, runVars, requestVars>>
    BY DEF GateDecides
  <1>3. /\ verdict' \in [Callers -> {"none", "pending", "approved", "denied", "error"}]
        /\ said' \in [Callers -> {"nothing", "yes", "no"}]
        /\ faults' \in 0 .. MaxFaults
        /\ verdict'[p] \in {"approved", "denied"}
        /\ ApprovedInv(p)'
        /\ \A d \in Callers : d # p => verdict'[d] = verdict[d] /\ said'[d] = said[d]
        /\ UNCHANGED <<risk_overrides, overridden, risk>>
    BY <1>1, <1>2, DecidesFacts
  <1>4. /\ k \in {"audit", "handler", "event"}
        /\ k = "handler" => verdict'[p] = "approved"
    BY <1>3 DEF AfterGate, AfterAudit
  <1> HIDE DEF k
  <1>5. TypeOK'
    BY <1>1, <1>2, <1>3, <1>4
    DEF TypeOK, GateTypeOK, RunnerTypeOK, Busy, runVars, requestVars
  <1>6. LoadedInv'
    BY <1>2 DEF Shape, LoadedInv
  <1>7. pc'[p] = k
    BY <1>1, <1>2 DEF TypeOK, RunnerTypeOK
  <1>8. AwaitInv(p)'
    BY <1>1, <1>2, <1>3, <1>4, <1>7 DEF AwaitInv, Busy, Registered, runVars
  <1>9. /\ \A q \in Pipelines : q # p => pc'[q] = pc[q] /\ plan'[q] = plan[q]
        /\ \A c \in Callers : c # p =>
                risk'[c] = risk[c] /\ verdict'[c] = verdict[c] /\ said'[c] = said[c]
        /\ steps' = steps /\ rpc' = rpc
    BY <1>1, <1>2, <1>3 DEF TypeOK, RunnerTypeOK, runVars, requestVars
  <1> QED
    BY <1>3, <1>5, <1>6, <1>8, <1>9, OthersOfPipeline DEF Shape

LEMMA TriggerShape ==
    ASSUME Shape, NEW p \in Pipelines, Trigger(p), UNCHANGED requestVars
    PROVE  Shape'
  <1>1. TypeOK /\ steps \in Configs /\ runner = "on"
    BY DEF Shape, LoadedInv, Trigger
  <1>2. PICK o \in Plans[steps[p]] : Proceed(p, o)
    BY DEF Trigger
  <1>3. o \in Seq(Nat) /\ \A n \in DOMAIN o : o[n] \in Registered(steps[p])
    BY <1>1, PlanType
  <1>4. /\ faults' \in 0 .. MaxFaults
        /\ runs' \in 0 .. MaxRuns
        /\ ended' \in [Pipelines -> SUBSET Nat]
        /\ ran' \in [Pipelines -> SUBSET Nat]
        /\ good' \in [Pipelines -> SUBSET Nat]
        /\ told' \in [Pipelines -> SUBSET Report]
    BY <1>1, RunnerAssumption DEF TypeOK, GateTypeOK, RunnerTypeOK, Trigger
  <1> QED
    BY <1>1, <1>2, <1>3, <1>4, ProceedShape

\* The end of a step, whatever was reported of it.
LEMMA EndStepShape ==
    ASSUME Shape, NEW p \in Pipelines, pc[p] \in Busy, runner = "on", EndStep(p),
           UNCHANGED <<runs, ran, good, requestVars>>, faults' \in 0 .. MaxFaults,
           told' \in [Pipelines -> SUBSET Report]
    PROVE  Shape'
  <1>1. TypeOK
    BY DEF Shape
  <1>2. /\ Tail(plan[p]) \in Seq(Nat) /\ Current(p) \in Nat
        /\ \A n \in DOMAIN Tail(plan[p]) : Tail(plan[p])[n] \in Registered(steps[p])
    BY RestType
  <1>3. Proceed(p, Tail(plan[p])) /\ ended' = [ended EXCEPT ![p] = @ \cup {Current(p)}]
    BY DEF EndStep
  <1>4. /\ ended' \in [Pipelines -> SUBSET Nat]
        /\ runs' \in 0 .. MaxRuns
        /\ ran' \in [Pipelines -> SUBSET Nat]
        /\ good' \in [Pipelines -> SUBSET Nat]
    BY <1>1, <1>2, <1>3 DEF TypeOK, RunnerTypeOK
  <1> QED
    BY <1>2, <1>3, <1>4, ProceedShape

LEMMA GateRaisesShape ==
    ASSUME Shape, NEW p \in Pipelines, GateRaises(p), UNCHANGED requestVars
    PROVE  Shape'
  <1>1. TypeOK
    BY DEF Shape
  <1>2. pc[p] \in Busy /\ runner = "on" /\ EndStep(p) /\ Fault /\ UNCHANGED <<runs, ran, good, told>>
    BY DEF GateRaises, CallbackRaises, Busy
  <1>3. faults' \in 0 .. MaxFaults /\ told' \in [Pipelines -> SUBSET Report]
    BY <1>1, <1>2, FaultType DEF TypeOK, RunnerTypeOK
  <1> QED
    BY <1>2, <1>3, EndStepShape

\* What is reported is a report.
LEMMA ReportType ==
    ASSUME Shape, NEW p \in Pipelines, pc[p] = "event"
    PROVE  ReportOf(p) \in Report
  <1>1. Current(p) \in Nat
    BY RestType DEF Busy
  <1>2. verdict[p] \in {"approved", "denied"}
    BY DEF Shape, AwaitInv
  <1>3. (Current(p) \in good[p]) \in BOOLEAN
    OBVIOUS
  <1> QED
    BY <1>1, <1>2, <1>3 DEF ReportOf, Report

LEMMA EventPublishedShape ==
    ASSUME Shape, NEW p \in Pipelines, EventPublished(p), UNCHANGED requestVars
    PROVE  Shape'
  <1>1. /\ TypeOK /\ pc[p] = "event" /\ runner = "on" /\ EndStep(p)
        /\ told' = [told EXCEPT ![p] = @ \cup {ReportOf(p)}]
        /\ UNCHANGED <<faults, runs, ran, good>>
    BY DEF Shape, EventPublished
  <1>2. told' \in [Pipelines -> SUBSET Report] /\ faults' \in 0 .. MaxFaults
    BY <1>1, ReportType DEF TypeOK, GateTypeOK, RunnerTypeOK
  <1> QED
    BY <1>1, <1>2, EndStepShape DEF Busy

LEMMA EventFailsShape ==
    ASSUME Shape, NEW p \in Pipelines, EventFails(p), UNCHANGED requestVars
    PROVE  Shape'
  <1>1. /\ TypeOK /\ pc[p] = "event" /\ runner = "on" /\ Fault
        /\ UNCHANGED <<runs, ran, good>>
        /\ \E reports \in {{}, {ReportOf(p)}} : told' = [told EXCEPT ![p] = @ \cup reports]
    BY DEF Shape, EventFails
  <1>2. told' \in [Pipelines -> SUBSET Report] /\ faults' \in 0 .. MaxFaults
    BY <1>1, ReportType, FaultType DEF TypeOK, RunnerTypeOK
  <1>3. CASE attempt[p] < MaxAttempts
    <2>1. /\ attempt' = [attempt EXCEPT ![p] = @ + 1]
          /\ UNCHANGED <<risk_overrides, overridden, risk, verdict, said,
                         runner, starts, steps, pc, plan, ended>>
      BY <1>3 DEF EventFails
    <2>2. attempt' \in [Pipelines -> 1 .. MaxAttempts]
      BY <1>1, <1>3, <2>1, RunnerAssumption DEF TypeOK, RunnerTypeOK
    <2>3. pc' = [pc EXCEPT ![p] = "event"]
      BY <1>1, <2>1 DEF TypeOK, RunnerTypeOK
    <2>4. verdict[p] \in {"approved", "denied"}
      BY <1>1 DEF Shape, AwaitInv
    <2>5. /\ ended' \in [Pipelines -> SUBSET Nat]
          /\ ran' \in [Pipelines -> SUBSET Nat]
          /\ good' \in [Pipelines -> SUBSET Nat]
      BY <1>1, <2>1 DEF TypeOK, RunnerTypeOK
    <2>6. "event" \in Busy
      BY DEF Busy
    <2> QED
      BY <1>1, <1>2, <2>1, <2>2, <2>3, <2>4, <2>5, <2>6, StayShape
  <1>4. CASE ~(attempt[p] < MaxAttempts)
    <2>1. EndStep(p)
      BY <1>4 DEF EventFails
    <2> QED
      BY <1>1, <1>2, <2>1, EndStepShape DEF Busy
  <1> QED
    BY <1>3, <1>4

LEMMA AuditedShape ==
    ASSUME Shape, NEW p \in Pipelines, Audited(p), UNCHANGED requestVars
    PROVE  Shape'
  <1> DEFINE k == AfterAudit(ToolOf(p), verdict[p])
  <1>1. /\ TypeOK /\ AwaitInv(p) /\ pc[p] = "audit" /\ runner = "on"
        /\ pc' = [pc EXCEPT ![p] = k]
        /\ UNCHANGED <<gateVars, runner, starts, runs, steps, runVars>>
    BY DEF Shape, Audited
  <1>2. verdict[p] \in {"approved", "denied"}
    BY <1>1 DEF AwaitInv
  <1>3. k \in {"handler", "event"} /\ (k = "handler" => verdict[p] = "approved")
    BY DEF AfterAudit
  <1> HIDE DEF k
  <1>4. /\ faults' \in 0 .. MaxFaults /\ attempt' \in [Pipelines -> 1 .. MaxAttempts]
        /\ ended' \in [Pipelines -> SUBSET Nat] /\ ran' \in [Pipelines -> SUBSET Nat]
        /\ good' \in [Pipelines -> SUBSET Nat] /\ told' \in [Pipelines -> SUBSET Report]
        /\ UNCHANGED <<risk_overrides, overridden, risk, verdict, said,
                       runner, starts, runs, steps, plan, requestVars>>
    BY <1>1 DEF TypeOK, GateTypeOK, RunnerTypeOK, gateVars, runVars
  <1> QED
    BY <1>1, <1>2, <1>3, <1>4, StayShape DEF Busy

LEMMA HandlerReturnsShape ==
    ASSUME Shape, NEW p \in Pipelines, HandlerReturns(p), UNCHANGED requestVars
    PROVE  Shape'
  <1>1. /\ TypeOK /\ AwaitInv(p) /\ pc[p] = "handler" /\ runner = "on"
        /\ pc' = [pc EXCEPT ![p] = "event"]
    BY DEF Shape, HandlerReturns
  <1>2. verdict[p] \in {"approved", "denied"}
    BY <1>1 DEF AwaitInv
  <1>3. pc[p] \in Busy /\ Current(p) \in Nat
    BY <1>1, RestType DEF Busy
  <1>4. /\ faults' \in 0 .. MaxFaults /\ attempt' \in [Pipelines -> 1 .. MaxAttempts]
        /\ ended' \in [Pipelines -> SUBSET Nat] /\ ran' \in [Pipelines -> SUBSET Nat]
        /\ good' \in [Pipelines -> SUBSET Nat] /\ told' \in [Pipelines -> SUBSET Report]
        /\ UNCHANGED <<risk_overrides, overridden, risk, verdict, said,
                       runner, starts, runs, steps, plan, requestVars>>
    BY <1>1, <1>3, RunnerAssumption
    DEF HandlerReturns, TypeOK, GateTypeOK, RunnerTypeOK, gateVars
  <1>5. "event" \in Busy
    BY DEF Busy
  <1> QED
    BY <1>1, <1>2, <1>3, <1>4, <1>5, StayShape

LEMMA HandlerRaisesShape ==
    ASSUME Shape, NEW p \in Pipelines, HandlerRaises(p), UNCHANGED requestVars
    PROVE  Shape'
  <1>1. /\ TypeOK /\ AwaitInv(p) /\ pc[p] = "handler" /\ runner = "on" /\ Fault
    BY DEF Shape, HandlerRaises
  <1>2. verdict[p] = "approved"
    BY <1>1 DEF AwaitInv
  <1>3. pc[p] \in Busy /\ Current(p) \in Nat
    BY <1>1, RestType DEF Busy
  <1>4. /\ ended' \in [Pipelines -> SUBSET Nat] /\ ran' \in [Pipelines -> SUBSET Nat]
        /\ good' \in [Pipelines -> SUBSET Nat] /\ told' \in [Pipelines -> SUBSET Report]
        /\ UNCHANGED <<risk_overrides, overridden, risk, verdict, said,
                       runner, starts, runs, steps, plan, requestVars>>
    BY <1>1, <1>3 DEF HandlerRaises, TypeOK, RunnerTypeOK
  <1>4a. attempt' \in [Pipelines -> 1 .. MaxAttempts]
    <2>1. attempt \in [Pipelines -> 1 .. MaxAttempts] /\ MaxAttempts \in Nat \ {0}
      BY <1>1, RunnerAssumption DEF TypeOK, RunnerTypeOK
    <2>2. \/ attempt[p] < MaxAttempts /\ attempt' = [attempt EXCEPT ![p] = @ + 1]
          \/ attempt' = [attempt EXCEPT ![p] = 1]
      BY DEF HandlerRaises
    <2> QED
      BY <2>1, <2>2
  <1>5. \E k \in {"handler", "event"} : pc' = [pc EXCEPT ![p] = k]
    BY <1>1 DEF HandlerRaises, TypeOK, RunnerTypeOK
  <1>6. {"handler", "event"} \subseteq Busy
    BY DEF Busy
  <1>7. faults' \in 0 .. MaxFaults
    BY <1>1, FaultType
  <1> QED
    BY <1>1, <1>2, <1>3, <1>4, <1>4a, <1>5, <1>6, <1>7, StayShape

LEMMA CompletionShape ==
    ASSUME Shape, NEW p \in Pipelines, CompletionPublished(p) \/ CompletionFails(p),
           UNCHANGED requestVars
    PROVE  Shape'
  <1>1. TypeOK /\ pc[p] = "complete" /\ runner = "on"
    BY DEF Shape, CompletionPublished, CompletionFails
  <1>2. faults' \in 0 .. MaxFaults
    BY <1>1, FaultType
    DEF CompletionPublished, CompletionFails, TypeOK, GateTypeOK, gateVars
  <1>3. /\ ended' \in [Pipelines -> SUBSET Nat] /\ ran' \in [Pipelines -> SUBSET Nat]
        /\ good' \in [Pipelines -> SUBSET Nat] /\ told' \in [Pipelines -> SUBSET Report]
        /\ UNCHANGED <<risk_overrides, overridden, risk, verdict, said,
                       runner, starts, runs, steps, plan, requestVars>>
    BY <1>1
    DEF CompletionPublished, CompletionFails, TypeOK, RunnerTypeOK, gateVars, runVars
  <1>3a. attempt' \in [Pipelines -> 1 .. MaxAttempts]
    <2>1. attempt \in [Pipelines -> 1 .. MaxAttempts] /\ MaxAttempts \in Nat \ {0}
      BY <1>1, RunnerAssumption DEF TypeOK, RunnerTypeOK
    <2>2. \/ attempt[p] < MaxAttempts /\ attempt' = [attempt EXCEPT ![p] = @ + 1]
          \/ attempt' = attempt
      BY DEF CompletionPublished, CompletionFails, runVars
    <2> QED
      BY <2>1, <2>2
  <1>4. \E k \in {"complete", "wait"} : pc' = [pc EXCEPT ![p] = k]
    BY <1>1 DEF CompletionPublished, CompletionFails, TypeOK, RunnerTypeOK
  <1>5. "complete" \notin Busy /\ "wait" \notin Busy
    BY DEF Busy
  <1> QED
    BY <1>1, <1>2, <1>3, <1>3a, <1>4, <1>5, StayShape

\* A loop that ends.
LEMMA LoopEndsShape ==
    ASSUME Shape, NEW p \in Pipelines, Cancelled(p) \/ EventLoopError(p), UNCHANGED requestVars
    PROVE  Shape'
  <1>1. TypeOK /\ runner # "off" /\ pc' = [pc EXCEPT ![p] = "none"]
    BY DEF Shape, Cancelled, EventLoopError
  <1>2. faults' \in 0 .. MaxFaults
    BY <1>1, FaultType DEF Cancelled, EventLoopError, TypeOK, GateTypeOK, gateVars
  <1>3. /\ attempt' \in [Pipelines -> 1 .. MaxAttempts]
        /\ ended' \in [Pipelines -> SUBSET Nat] /\ ran' \in [Pipelines -> SUBSET Nat]
        /\ good' \in [Pipelines -> SUBSET Nat] /\ told' \in [Pipelines -> SUBSET Report]
        /\ UNCHANGED <<risk_overrides, overridden, risk, verdict, said,
                       runner, starts, runs, steps, plan, requestVars>>
    BY <1>1 DEF Cancelled, EventLoopError, TypeOK, RunnerTypeOK, gateVars, runVars
  <1>4. "none" \notin Busy
    BY DEF Busy
  <1> QED
    BY <1>1, <1>2, <1>3, <1>4, StayShape

LEMMA RunStepShape ==
    ASSUME Shape, NEW p \in Pipelines, RunStep(p), UNCHANGED requestVars
    PROVE  Shape'
  BY GateDecidesShape, GateRaisesShape, AuditedShape, HandlerReturnsShape, HandlerRaisesShape,
     EventPublishedShape, EventFailsShape, CompletionShape
  DEF RunStep

-----------------------------------------------------------------------------
(* start and stop, and the overrides.                                      *)

LEMMA StartStopShape ==
    ASSUME Shape, Start \/ Stop \/ StopReturns, UNCHANGED requestVars
    PROVE  Shape'
  <1>1. TypeOK'
    <2>1. /\ runner' \in {"off", "on", "stopping"}
          /\ UNCHANGED <<gateVars, runs, runVars, requestVars>>
      BY DEF Start, Stop, StopReturns
    <2>2. starts' \in 0 .. MaxStarts /\ steps' \in Configs \cup {NoPipelines}
      <3>1. starts \in 0 .. MaxStarts /\ steps \in Configs \cup {NoPipelines}
        BY DEF Shape, TypeOK, RunnerTypeOK
      <3>2. CASE Start
        <4>1. starts < MaxStarts /\ starts' = starts + 1 /\ steps' \in Configs
          BY <3>2 DEF Start
        <4>2. MaxStarts \in Nat
          BY RunnerAssumption
        <4> QED
          BY <3>1, <4>1, <4>2
      <3>3. CASE Stop \/ StopReturns
        BY <3>1, <3>3 DEF Stop, StopReturns
      <3> QED
        BY <3>2, <3>3
    <2>3. pc' \in [Pipelines -> Busy \cup {"none", "wait", "complete"}]
      BY DEF Shape, TypeOK, RunnerTypeOK, Start, Stop, StopReturns
    <2> QED
      BY <2>1, <2>2, <2>3
      DEF Shape, TypeOK, GateTypeOK, RunnerTypeOK, gateVars, runVars, requestVars
  <1>2. LoadedInv'
    BY DEF Shape, LoadedInv, Start, Stop, StopReturns
  <1>3. \A p \in Pipelines : AwaitInv(p)'
    <2>1. CASE Start
      BY <2>1 DEF Start, AwaitInv, Busy
    <2>2. CASE Stop \/ StopReturns
      BY <2>2 DEF Shape, Stop, StopReturns, AwaitInv, gateVars, runVars, Registered
    <2> QED
      BY <2>1, <2>2
  <1>4. UNCHANGED <<risk, verdict, said, rpc>>
    BY DEF Start, Stop, StopReturns, gateVars, requestVars
  <1>5. /\ \A r \in Requests : RequestInv(r)'
        /\ \A c \in Callers : ApprovedInv(c)'
    BY <1>4 DEF Shape, RequestInv, ApprovedInv
  <1> QED
    BY <1>1, <1>2, <1>3, <1>5 DEF Shape

LEMMA OverridesShape ==
    ASSUME Shape, Overrides, UNCHANGED <<runnerVars, requestVars>>
    PROVE  Shape'
  <1>1. /\ risk_overrides' \in [Agents \X Tools -> Risks \cup {"none"}]
        /\ overridden' \in 0 .. MaxOverrides
        /\ UNCHANGED <<faults, risk, verdict, said>>
    BY GateAssumption
    DEF Shape, TypeOK, GateTypeOK, Overrides, OverrideRisk, ClearRiskOverride
  <1>2. TypeOK'
    BY <1>1
    DEF Shape, TypeOK, GateTypeOK, RunnerTypeOK, runnerVars, runVars, requestVars
  <1>3. LoadedInv'
    BY DEF Shape, LoadedInv, runnerVars
  <1>4. \A p \in Pipelines : AwaitInv(p)'
    BY <1>1 DEF Shape, AwaitInv, runnerVars, runVars, Registered
  <1>5. /\ \A r \in Requests : RequestInv(r)'
        /\ \A c \in Callers : ApprovedInv(c)'
    BY <1>1 DEF Shape, RequestInv, ApprovedInv, requestVars
  <1> QED
    BY <1>2, <1>3, <1>4, <1>5 DEF Shape

-----------------------------------------------------------------------------
(* The steps of a request.                                                 *)

LEMMA OthersOfRequest ==
    ASSUME Shape, NEW r \in Requests, UNCHANGED runnerVars,
           \A q \in Requests : q # r => rpc'[q] = rpc[q],
           \A c \in Callers : c # r =>
                risk'[c] = risk[c] /\ verdict'[c] = verdict[c] /\ said'[c] = said[c],
           RequestInv(r)', ApprovedInv(r)', TypeOK'
    PROVE  Shape'
  <1>1. LoadedInv'
    BY DEF Shape, LoadedInv, runnerVars
  <1>2. \A p \in Pipelines : verdict'[p] = verdict[p]
    BY RequestsAssumption
  <1>3. \A p \in Pipelines : AwaitInv(p)'
    BY <1>2 DEF Shape, AwaitInv, runnerVars, runVars, Registered
  <1>4. \A q \in Requests : q # r => verdict'[q] = verdict[q]
    BY RequestsAssumption
  <1>5. \A q \in Requests : RequestInv(q)'
    BY <1>4 DEF Shape, RequestInv
  <1>6. \A c \in Callers : ApprovedInv(c)'
    BY DEF Shape, ApprovedInv
  <1> QED
    BY <1>1, <1>3, <1>5, <1>6 DEF Shape

\* A step that leaves the gate to itself, but for the count of exceptions.
LEMMA RequestStays ==
    ASSUME Shape, NEW r \in Requests, UNCHANGED <<runnerVars, bus>>,
           UNCHANGED <<risk_overrides, overridden, risk, verdict, said, tool>>,
           faults' \in 0 .. MaxFaults,
           recorded' \in [Requests -> BOOLEAN], published' \in [Requests -> BOOLEAN],
           handled' \in [Requests -> BOOLEAN],
           NEW k \in {"event", "handler", "done"}, rpc' = [rpc EXCEPT ![r] = k],
           k # "done" => verdict[r] = "approved",
           answer' \in [Requests -> Errors \cup {"none", "not_registered", "tool_denied", "ok"}]
    PROVE  Shape'
  <1>1. TypeOK /\ ApprovedInv(r)
    BY RequestsAssumption DEF Shape
  <1>2. TypeOK'
    BY <1>1 DEF TypeOK, GateTypeOK, RunnerTypeOK, runnerVars, runVars
  <1>3. rpc'[r] = k /\ \A q \in Requests : q # r => rpc'[q] = rpc[q]
    BY <1>1 DEF TypeOK
  <1>4. RequestInv(r)'
    BY <1>3 DEF RequestInv
  <1>5. ApprovedInv(r)'
    BY <1>1 DEF ApprovedInv
  <1> QED
    BY <1>2, <1>3, <1>4, <1>5, OthersOfRequest

LEMMA InvokeShape ==
    ASSUME Shape, NEW r \in Requests, Invoke(r), UNCHANGED bus
    PROVE  Shape'
  <1>1. TypeOK /\ ApprovedInv(r) /\ RequestInv(r) /\ r \in Callers /\ UNCHANGED runnerVars
    BY RequestsAssumption DEF Shape, Invoke
  <1>2. PICK t \in Tools :
            /\ tool' = [tool EXCEPT ![r] = t]
            /\ IF t \notin DOMAIN DeclaredRisk
               THEN /\ Responds(r, "not_registered")
                    /\ UNCHANGED gateVars
               ELSE LET k == EffectiveRisk(AgentOf[r], t, DeclaredRisk[t])
                    IN  /\ Evaluate(r, k)
                        /\ GoesOn(r, IF Decision(k) = "pending" THEN "human" ELSE "audit")
                        /\ UNCHANGED <<risk_overrides, overridden, faults>>
    BY DEF Invoke
  <1>3. UNCHANGED <<recorded, published, handled>>
    BY DEF Invoke
  <1>4. tool' \in [Requests -> Tools \cup {NoTool}]
    BY <1>1, <1>2 DEF TypeOK
  <1>5. CASE t \notin DOMAIN DeclaredRisk
    <2>1. /\ rpc' = [rpc EXCEPT ![r] = "done"]
          /\ answer' = [answer EXCEPT ![r] = "not_registered"]
          /\ UNCHANGED <<risk_overrides, overridden, faults, risk, verdict, said>>
      BY <1>2, <1>5 DEF Responds, gateVars
    <2>2. TypeOK'
      BY <1>1, <1>3, <1>4, <2>1 DEF TypeOK, GateTypeOK, RunnerTypeOK, runnerVars, runVars
    <2>3. rpc'[r] = "done" /\ \A q \in Requests : q # r => rpc'[q] = rpc[q]
      BY <1>1, <2>1 DEF TypeOK
    <2>4. RequestInv(r)' /\ ApprovedInv(r)'
      BY <1>1, <2>1, <2>3 DEF RequestInv, ApprovedInv
    <2> QED
      BY <1>1, <2>1, <2>2, <2>3, <2>4, OthersOfRequest
  <1>6. CASE t \in DOMAIN DeclaredRisk
    <2> DEFINE k == EffectiveRisk(AgentOf[r], t, DeclaredRisk[t])
               a == IF Decision(k) = "pending" THEN "human" ELSE "audit"
    <2>1. Evaluate(r, k) /\ GoesOn(r, a) /\ UNCHANGED <<risk_overrides, overridden, faults>>
      BY <1>2, <1>6
    <2>2. k \in Risks
      BY <1>1, <1>6, EffectiveRiskType
    <2>3. /\ Decision(k) \in {"approved", "pending", "denied"}
          /\ Decision(k) = "approved" => k \in {"low", "medium"}
      BY <2>2, DecisionFacts
    <2> HIDE DEF k
    <2>4. /\ risk' = [risk EXCEPT ![r] = k]
          /\ verdict' = [verdict EXCEPT ![r] = Decision(k)]
          /\ said' = [said EXCEPT ![r] = "nothing"]
          /\ rpc' = [rpc EXCEPT ![r] = a]
          /\ answer' = answer
      BY <2>1 DEF Evaluate, GoesOn
    <2>5. /\ verdict'[r] = Decision(k) /\ risk'[r] = k /\ rpc'[r] = a
          /\ \A q \in Requests : q # r => rpc'[q] = rpc[q]
          /\ \A c \in Callers : c # r =>
                risk'[c] = risk[c] /\ verdict'[c] = verdict[c] /\ said'[c] = said[c]
      BY <1>1, <2>4 DEF TypeOK, GateTypeOK
    <2>6. TypeOK'
      BY <1>1, <1>3, <1>4, <2>1, <2>2, <2>3, <2>4
      DEF TypeOK, GateTypeOK, RunnerTypeOK, runnerVars, runVars
    <2>7. RequestInv(r)' /\ ApprovedInv(r)'
      BY <2>3, <2>5 DEF RequestInv, ApprovedInv
    <2> QED
      BY <1>1, <2>5, <2>6, <2>7, OthersOfRequest
  <1> QED
    BY <1>5, <1>6

LEMMA InvocationDecidedShape ==
    ASSUME Shape, NEW r \in Requests, InvocationDecided(r), UNCHANGED bus
    PROVE  Shape'
  <1>1. TypeOK /\ r \in Callers /\ UNCHANGED runnerVars
    BY RequestsAssumption DEF Shape, InvocationDecided
  <1>2. /\ Decides(r)
        /\ rpc' = [rpc EXCEPT ![r] = "audit"]
        /\ UNCHANGED <<answer, tool, recorded, published, handled>>
    BY DEF InvocationDecided, GoesOn
  <1>3. /\ verdict' \in [Callers -> {"none", "pending", "approved", "denied", "error"}]
        /\ said' \in [Callers -> {"nothing", "yes", "no"}]
        /\ faults' \in 0 .. MaxFaults
        /\ verdict'[r] \in {"approved", "denied"}
        /\ ApprovedInv(r)'
        /\ \A d \in Callers : d # r => verdict'[d] = verdict[d] /\ said'[d] = said[d]
        /\ UNCHANGED <<risk_overrides, overridden, risk>>
    BY <1>1, <1>2, DecidesFacts
  <1>4. TypeOK'
    BY <1>1, <1>2, <1>3 DEF TypeOK, GateTypeOK, RunnerTypeOK, runnerVars, runVars
  <1>5. rpc'[r] = "audit" /\ \A q \in Requests : q # r => rpc'[q] = rpc[q]
    BY <1>1, <1>2 DEF TypeOK
  <1>6. RequestInv(r)'
    BY <1>3, <1>5 DEF RequestInv
  <1> QED
    BY <1>1, <1>3, <1>4, <1>5, <1>6, OthersOfRequest

\* The other steps of a request.
LEMMA RequestEndsShape ==
    ASSUME Shape, NEW r \in Requests, UNCHANGED bus,
           \/ InvocationRaises(r) \/ Recorded(r) \/ RecordFails(r)
           \/ Published(r) \/ PublishFails(r) \/ Handled(r) \/ HandlingFails(r)
    PROVE  Shape'
  <1> USE DEF Responds, GoesOn, Errors
  <1>1. TypeOK /\ RequestInv(r)
    BY DEF Shape
  <1>2. CASE InvocationRaises(r)
    <2>1. faults' \in 0 .. MaxFaults
      BY <1>1, <1>2, FaultType DEF InvocationRaises, CallbackRaises
    <2> QED
      BY <1>1, <1>2, <2>1, RequestStays DEF InvocationRaises, CallbackRaises, TypeOK
  <1>3. CASE Recorded(r)
    <2>1. /\ UNCHANGED <<runnerVars, risk_overrides, overridden, risk, verdict, said, tool>>
          /\ faults' \in 0 .. MaxFaults
          /\ recorded' \in [Requests -> BOOLEAN] /\ published' \in [Requests -> BOOLEAN]
          /\ handled' \in [Requests -> BOOLEAN]
          /\ answer' \in [Requests -> Errors \cup {"none", "not_registered", "tool_denied", "ok"}]
      BY <1>1, <1>3 DEF Recorded, TypeOK, GateTypeOK, gateVars
    <2>2. \/ rpc' = [rpc EXCEPT ![r] = "done"]
          \/ rpc' = [rpc EXCEPT ![r] = "event"] /\ verdict[r] = "approved"
      BY <1>1, <1>3 DEF Recorded, RequestInv
    <2> QED
      BY <2>1, <2>2, RequestStays
  <1>4. CASE RecordFails(r) \/ PublishFails(r) \/ HandlingFails(r)
    <2>1. faults' \in 0 .. MaxFaults
      BY <1>1, <1>4, FaultType DEF RecordFails, PublishFails, HandlingFails
    <2>2. /\ UNCHANGED <<runnerVars, risk_overrides, overridden, risk, verdict, said, tool>>
          /\ recorded' \in [Requests -> BOOLEAN] /\ published' \in [Requests -> BOOLEAN]
          /\ handled' \in [Requests -> BOOLEAN]
          /\ answer' \in [Requests -> Errors \cup {"none", "not_registered", "tool_denied", "ok"}]
          /\ rpc' = [rpc EXCEPT ![r] = "done"]
      BY <1>1, <1>4 DEF RecordFails, PublishFails, HandlingFails, TypeOK
    <2> QED
      BY <2>1, <2>2, RequestStays
  <1>5. CASE Published(r) \/ Handled(r)
    <2>1. /\ UNCHANGED <<runnerVars, risk_overrides, overridden, risk, verdict, said, tool>>
          /\ faults' \in 0 .. MaxFaults
          /\ recorded' \in [Requests -> BOOLEAN] /\ published' \in [Requests -> BOOLEAN]
          /\ handled' \in [Requests -> BOOLEAN]
          /\ answer' \in [Requests -> Errors \cup {"none", "not_registered", "tool_denied", "ok"}]
      BY <1>1, <1>5 DEF Published, Handled, TypeOK, GateTypeOK, gateVars
    <2>2. \/ rpc' = [rpc EXCEPT ![r] = "done"]
          \/ rpc' = [rpc EXCEPT ![r] = "handler"] /\ verdict[r] = "approved"
      BY <1>1, <1>5 DEF Published, Handled, RequestInv
    <2> QED
      BY <2>1, <2>2, RequestStays
  <1> QED
    BY <1>2, <1>3, <1>4, <1>5

LEMMA RequestNextShape == Shape /\ RequestNext => Shape'
  BY InvokeShape, InvocationDecidedShape, RequestEndsShape DEF RequestNext

-----------------------------------------------------------------------------
(* Types and approvals.                                                    *)

LEMMA InitShape == Init => Shape
  <1> SUFFICES ASSUME Init PROVE Shape
    OBVIOUS
  <1>1. TypeOK
    BY GateAssumption, RunnerAssumption
    DEF Init, GateInit, RunnerInit, TypeOK, GateTypeOK, RunnerTypeOK
  <1>2. LoadedInv
    BY DEF Init, RunnerInit, LoadedInv
  <1>3. \A p \in Pipelines : AwaitInv(p)
    BY DEF Init, RunnerInit, AwaitInv, Busy
  <1>4. \A r \in Requests : RequestInv(r)
    BY DEF Init, RequestInv
  <1>5. \A c \in Callers : ApprovedInv(c)
    BY DEF Init, GateInit, ApprovedInv
  <1> QED
    BY <1>1, <1>2, <1>3, <1>4, <1>5 DEF Shape

LEMMA NextShape == Shape /\ [Next]_vars => Shape'
  <1> SUFFICES ASSUME Shape, [Next]_vars PROVE Shape'
    OBVIOUS
  <1>1. CASE Overrides /\ UNCHANGED <<runnerVars, requestVars>>
    BY <1>1, OverridesShape
  <1>2. CASE bus = "redis" /\ RunnerNext /\ UNCHANGED requestVars
    BY <1>2, StartStopShape, LoopEndsShape, TriggerShape, RunStepShape DEF RunnerNext
  <1>3. CASE RequestNext
    BY <1>3, RequestNextShape
  <1>4. CASE UNCHANGED vars
    BY <1>4
    DEF vars, gateVars, runnerVars, runVars, requestVars, Shape, TypeOK, GateTypeOK,
        RunnerTypeOK, LoadedInv, AwaitInv, RequestInv, ApprovedInv, Registered
  <1> QED
    BY <1>1, <1>2, <1>3, <1>4 DEF Next

LEMMA ShapeHolds == Spec => []Shape
  BY InitShape, NextShape, PTL DEF Spec

\* Every reachable state is well typed, for any pipelines, requests, tools and bounds.
THEOREM TypeCorrect == Spec => []TypeOK
  <1>1. Shape => TypeOK
    BY DEF Shape
  <1> QED
    BY <1>1, ShapeHolds, PTL

\* Neither a pipeline nor a request ever comes to a handler without an approval by the
\* effective risk or by a human's yes to this request.
THEOREM NothingUnapprovedTheorem == Spec => []NothingUnapproved
  <1>1. Shape => NothingUnapproved
    <2> SUFFICES ASSUME Shape, NEW c \in Callers,
                        IF c \in Pipelines THEN pc[c] = "handler" ELSE rpc[c] = "handler"
                 PROVE  /\ verdict[c] = "approved"
                        /\ risk[c] \in {"low", "medium"} \/ said[c] = "yes"
      BY DEF NothingUnapproved
    <2>1. verdict[c] = "approved"
      BY RequestsAssumption DEF Shape, AwaitInv, RequestInv
    <2> QED
      BY <2>1 DEF Shape, ApprovedInv
  <1> QED
    BY <1>1, ShapeHolds, PTL

-----------------------------------------------------------------------------
(* The second layer: answers.                                              *)

\* What the await of a request says about its records, and what an answer says.
AnswerInv(r) ==
    /\ rpc[r] \in {"idle", "human", "audit"} => ~recorded[r] /\ ~published[r]
    /\ rpc[r] = "event" => recorded[r] /\ ~published[r]
    /\ rpc[r] = "handler" => OnRecord(r)
    /\ rpc[r] # "done" => answer[r] = "none" /\ ~handled[r]
    /\ answer[r] = "ok" => OnRecord(r) /\ (tool[r] \in Handlers => handled[r])
    /\ answer[r] = "tool_denied" =>
        recorded[r] /\ ~published[r] /\ ~handled[r] /\ verdict[r] = "denied"
    /\ answer[r] \in {"approval_error", "audit_error", "event_bus_error"} => ~handled[r]
    /\ handled[r] => OnRecord(r)

\* The loops and the overrides leave the verdicts of requests alone.
LEMMA VerdictOfRequest ==
    ASSUME Shape, RunnerNext, NEW r \in Requests
    PROVE  verdict'[r] = verdict[r]
  <1>1. TypeOK /\ r \in Callers
    BY RequestsAssumption DEF Shape
  <1>2. CASE Start \/ Stop \/ StopReturns
    BY <1>2 DEF Start, Stop, StopReturns, gateVars
  <1>3. ASSUME NEW p \in Pipelines,
               Cancelled(p) \/ EventLoopError(p) \/ Trigger(p) \/ RunStep(p)
        PROVE  verdict'[r] = verdict[r]
    <2>1. r # p /\ p \in Callers
      BY RequestsAssumption
    <2>2. ASSUME NEW rest, Proceed(p, rest)
          PROVE  verdict'[r] = verdict[r]
      BY <2>1, <2>2, <1>1 DEF Proceed, Evaluate, TypeOK, GateTypeOK
    <2>3. CASE Trigger(p) \/ EndStep(p)
      BY <2>2, <2>3 DEF Trigger, EndStep
    <2>4. CASE GateDecides(p)
      BY <2>1, <2>4, <1>1, DecidesFacts DEF GateDecides
    <2>5. CASE EventFails(p) /\ ~EndStep(p)
      BY <2>5 DEF EventFails
    <2>6. CASE \/ Cancelled(p) \/ EventLoopError(p) \/ Audited(p)
               \/ HandlerReturns(p) \/ HandlerRaises(p)
               \/ CompletionPublished(p) \/ CompletionFails(p)
      BY <2>6 DEF Cancelled, EventLoopError, Audited, HandlerReturns, HandlerRaises,
                  CompletionPublished, CompletionFails, gateVars
    <2> QED
      BY <1>3, <2>3, <2>4, <2>5, <2>6 DEF RunStep, GateRaises, EventPublished
  <1> QED
    BY <1>2, <1>3 DEF RunnerNext

LEMMA AnswerStep ==
    ASSUME Shape, Shape', NEW r \in Requests, AnswerInv(r), [Next]_vars
    PROVE  AnswerInv(r)'
  <1>1. TypeOK /\ RequestInv(r)
    BY DEF Shape
  <1>2. CASE UNCHANGED requestVars /\ verdict'[r] = verdict[r]
    BY <1>2 DEF requestVars, AnswerInv, OnRecord
  <1>3. CASE Overrides /\ UNCHANGED <<runnerVars, requestVars>>
    BY <1>2, <1>3 DEF Overrides, OverrideRisk, ClearRiskOverride
  <1>4. CASE bus = "redis" /\ RunnerNext /\ UNCHANGED requestVars
    BY <1>2, <1>4, VerdictOfRequest
  <1>5. CASE UNCHANGED vars
    BY <1>2, <1>5 DEF vars, gateVars
  <1>6. ASSUME NEW q \in Requests, q # r, UNCHANGED bus,
               \/ Invoke(q) \/ InvocationDecided(q) \/ InvocationRaises(q)
               \/ Recorded(q) \/ RecordFails(q) \/ Published(q) \/ PublishFails(q)
               \/ Handled(q) \/ HandlingFails(q)
        PROVE  AnswerInv(r)'
    <2>1. /\ rpc'[r] = rpc[r] /\ answer'[r] = answer[r] /\ recorded'[r] = recorded[r]
          /\ published'[r] = published[r] /\ handled'[r] = handled[r] /\ tool'[r] = tool[r]
      BY <1>1, <1>6
      DEF TypeOK, Invoke, InvocationDecided, InvocationRaises, Recorded, RecordFails, Published,
          PublishFails, Handled, HandlingFails, Responds, GoesOn
    <2>2. r \in Callers /\ q \in Callers
      BY RequestsAssumption
    <2>3. CASE Invoke(q)
      <3>1. verdict'[r] = verdict[r]
        BY <1>1, <1>6, <2>2, <2>3 DEF Invoke, Evaluate, TypeOK, GateTypeOK, gateVars
      <3> QED
        BY <1>6, <2>1, <3>1 DEF AnswerInv, OnRecord
    <2>4. CASE InvocationDecided(q)
      <3>1. verdict'[r] = verdict[r]
        BY <1>1, <1>6, <2>2, <2>4, DecidesFacts DEF InvocationDecided
      <3> QED
        BY <1>6, <2>1, <3>1 DEF AnswerInv, OnRecord
    <2>5. CASE \/ InvocationRaises(q) \/ Recorded(q) \/ RecordFails(q) \/ Published(q)
               \/ PublishFails(q) \/ Handled(q) \/ HandlingFails(q)
      <3>1. verdict' = verdict
        BY <2>5 DEF InvocationRaises, Recorded, RecordFails, Published, PublishFails, Handled,
                    HandlingFails, gateVars
      <3> QED
        BY <1>6, <2>1, <3>1 DEF AnswerInv, OnRecord
    <2> QED
      BY <1>6, <2>3, <2>4, <2>5
  <1>7. CASE UNCHANGED bus /\ (Invoke(r) \/ InvocationDecided(r) \/ InvocationRaises(r))
    BY <1>1, <1>7
    DEF Invoke, InvocationDecided, InvocationRaises, Responds, GoesOn, AnswerInv, OnRecord, TypeOK
  <1>8. CASE UNCHANGED bus /\ (Recorded(r) \/ RecordFails(r))
    BY <1>1, <1>8
    DEF Recorded, RecordFails, Responds, GoesOn, AnswerInv, OnRecord, TypeOK, RequestInv, gateVars
  <1>9. CASE UNCHANGED bus /\ (Published(r) \/ PublishFails(r))
    BY <1>1, <1>9
    DEF Published, PublishFails, Responds, GoesOn, AnswerInv, OnRecord, TypeOK, gateVars
  <1>10. CASE UNCHANGED bus /\ (Handled(r) \/ HandlingFails(r))
    BY <1>1, <1>10
    DEF Handled, HandlingFails, Responds, GoesOn, AnswerInv, OnRecord, TypeOK, gateVars
  <1> QED
    BY <1>3, <1>4, <1>5, <1>6, <1>7, <1>8, <1>9, <1>10 DEF Next, RequestNext

\* What a response says is what happened, for any number of requests at once, with Redis
\* and without.
THEOREM AnswersAreTrueTheorem == Spec => []AnswersAreTrue
  <1> DEFINE Inv == \A r \in Requests : AnswerInv(r)
  <1>1. Init => Inv
    BY DEF Init, AnswerInv
  <1>2. Shape /\ Shape' /\ Inv /\ [Next]_vars => Inv'
    BY AnswerStep
  <1>3. Inv => AnswersAreTrue
    BY DEF AnswerInv, AnswersAreTrue, OnRecord
  <1> HIDE DEF Inv
  <1> QED
    BY <1>1, <1>2, <1>3, ShapeHolds, PTL DEF Spec

-----------------------------------------------------------------------------
(* The third layer: plans.                                                 *)

\* A plan lists the registered steps, each once, after its dependencies.
LEMMA PlanFacts ==
    ASSUME NEW config \in Configs, NEW p \in Pipelines, NEW o \in Plans[config[p]]
    PROVE  /\ \A m, n \in DOMAIN o : o[m] = o[n] => m = n
           /\ \A k \in Registered(config[p]) : \E n \in DOMAIN o : o[n] = k
           /\ \A n \in DOMAIN o : \A e \in EdgesIn(config[p]) : e[1] = o[n] =>
                \A k \in Registered(config[p]) :
                    config[p][k].tool = Dependency(config[p], e) =>
                        \E m \in DOMAIN o : m < n /\ o[m] = k
  <1> DEFINE s == config[p]
             R == Registered(s)
             c == Cardinality(R)
  <1>1. /\ o \in PlansOf(s) /\ Len(o) = c /\ DOMAIN o = 1 .. Len(o)
        /\ \A n \in DOMAIN o : o[n] \in R
    BY PlanType
  <1>2. /\ DOMAIN s = 1 .. Len(s) /\ Len(s) \in Nat /\ R \subseteq 1 .. Len(s)
        /\ IsFiniteSet(R) /\ c \in Nat
    BY StepsType
  <1>3. PICK full \in Orders(s) : \A m, n \in DOMAIN o : m < n =>
            \E x, y \in DOMAIN full : x < y /\ full[x] = o[m] /\ full[y] = o[n]
    BY <1>1 DEF PlansOf
  <1>4. full \in [DOMAIN s -> DOMAIN s] /\ IsOrderOf(full, s)
    BY DEF Orders
  <1>5. DOMAIN full = 1 .. Len(s)
    BY <1>2, <1>4
  <1>6. full \in Surjection(1 .. Len(s), 1 .. Len(s))
    BY <1>2, <1>4, <1>5 DEF IsOrderOf, Surjection
  <1>7. full \in Injection(1 .. Len(s), 1 .. Len(s))
    <2>1. IsFiniteSet(1 .. Len(s))
      BY <1>2, FS_Interval
    <2> QED
      BY <1>6, <2>1, FS_SurjSameCardinalityImpliesInj
  <1>8. \A x, y \in DOMAIN full : full[x] = full[y] => x = y
    BY <1>5, <1>7 DEF Injection, IsInjective
  <1>9. \A m, n \in DOMAIN o : m < n => o[m] # o[n]
    BY <1>3, <1>5, <1>8
  <1>10. \A m, n \in DOMAIN o : o[m] = o[n] => m = n
    BY <1>1, <1>2, <1>9
  <1>11. o \in [1 .. c -> R]
    BY <1>1 DEF PlansOf
  <1>12. o \in Injection(1 .. c, R)
    BY <1>1, <1>10, <1>11 DEF Injection, IsInjective
  <1>13. Cardinality(1 .. c) = c
    BY <1>2, FS_Interval
  <1>14. o \in Surjection(1 .. c, R)
    BY <1>2, <1>12, <1>13, FS_Injection
  <1>15. \A k \in R : \E n \in DOMAIN o : o[n] = k
    BY <1>1, <1>14 DEF Surjection
  <1>16. ASSUME NEW n \in DOMAIN o, NEW e \in EdgesIn(s), e[1] = o[n],
                NEW k \in R, s[k].tool = Dependency(s, e)
         PROVE  \E m \in DOMAIN o : m < n /\ o[m] = k
    <2>1. PICK m \in DOMAIN o : o[m] = k
      BY <1>15
    <2>2. PICK y \in DOMAIN full : full[y] = o[n]
      BY <1>1, <1>2, <1>4, <1>5 DEF IsOrderOf
    <2>3. PICK z \in DOMAIN full : full[z] = k
      BY <1>2, <1>4, <1>5 DEF IsOrderOf
    <2>4. z < y
      BY <1>4, <1>16, <2>2, <2>3 DEF IsOrderOf
    <2>5. m # n
      BY <2>1, <2>2, <2>3, <2>4, <1>5, <1>8
    <2>6. ~(n < m)
      <3>1. SUFFICES ASSUME n < m PROVE FALSE
        OBVIOUS
      <3>2. PICK x1, y1 \in DOMAIN full : x1 < y1 /\ full[x1] = o[n] /\ full[y1] = o[m]
        BY <1>3, <3>1
      <3>3. x1 = y /\ y1 = z
        BY <1>8, <2>1, <2>2, <2>3, <3>2
      <3> QED
        BY <1>5, <2>4, <3>2, <3>3
    <2>7. m < n
      BY <1>1, <1>2, <2>5, <2>6
    <2> QED
      BY <2>1, <2>7
  <1> QED
    BY <1>10, <1>15, <1>16

-----------------------------------------------------------------------------
(* The runs: what has ended is the beginning of the plan, what is left its *)
(* end; what was told and what was called has ended, or is in hand.        *)

Active(p) == pc[p] \in Busy \cup {"complete"}

\* Position j of the order o is the next.
At(p, o, j) ==
    /\ ended[p] = {o[n] : n \in 1 .. j - 1}
    /\ Len(plan[p]) = Len(o) + 1 - j
    /\ \A n \in 1 .. Len(plan[p]) : plan[p][n] = o[n + j - 1]

PlanInv(p) ==
    Active(p) => \E o \in Plans[steps[p]] : \E j \in 1 .. Len(o) + 1 : At(p, o, j)

RanInv(p) ==
    Active(p) => \A k \in ran[p] :
        \/ k \in ended[p]
        \/ pc[p] \in {"handler", "event"} /\ k = Current(p) /\ verdict[p] = "approved"

ToldInv(p) ==
    Active(p) => \A m \in told[p] :
        m.step \in ended[p] \/ (pc[p] = "event" /\ m.step = Current(p))

TrueInv(p) ==
    \A m \in told[p] :
        /\ m.result <=> m.step \in good[p]
        /\ m.step \in ran[p] => m.outcome = "approved"

RunInv(p) == PlanInv(p) /\ RanInv(p) /\ ToldInv(p) /\ TrueInv(p)

\* What follows from it for the step in hand and for the end of a run.
LEMMA CurrentFacts ==
    ASSUME Shape, NEW p \in Pipelines, PlanInv(p), pc[p] \in Busy
    PROVE  /\ Current(p) \notin ended[p]
           /\ \A e \in EdgesIn(steps[p]) : e[1] = Current(p) =>
                \A k \in Registered(steps[p]) :
                    steps[p][k].tool = Dependency(steps[p], e) => k \in ended[p]
  <1>1. steps \in Configs
    BY DEF Shape, LoadedInv, Busy
  <1>2a. PICK o \in Plans[steps[p]] : \E j \in 1 .. Len(o) + 1 : At(p, o, j)
    BY DEF PlanInv, Active
  <1>2b. PICK j \in 1 .. Len(o) + 1 : At(p, o, j)
    BY <1>2a
  <1>2. /\ ended[p] = {o[n] : n \in 1 .. j - 1}
        /\ Len(plan[p]) = Len(o) + 1 - j
        /\ \A n \in 1 .. Len(plan[p]) : plan[p][n] = o[n + j - 1]
    BY <1>2b DEF At
  <1>3. o \in Seq(Nat) /\ DOMAIN o = 1 .. Len(o) /\ Len(o) \in Nat
    BY <1>1, PlanType
  <1>4. plan[p] \in Seq(Nat) /\ plan[p] # <<>> /\ Current(p) = plan[p][1]
    BY RestType
  <1>5. j \in DOMAIN o /\ Current(p) = o[j]
    <2>1. Len(plan[p]) \in Nat /\ Len(plan[p]) # 0
      BY <1>4
    <2>2. j <= Len(o) /\ 1 \in 1 .. Len(plan[p])
      BY <1>2, <1>3, <2>1
    <2>3. plan[p][1] = o[1 + j - 1] /\ 1 + j - 1 = j
      BY <1>2, <1>3, <2>2
    <2> QED
      BY <1>3, <1>4, <2>2, <2>3
  <1>6. \A n \in DOMAIN o : n < j => o[n] \in ended[p]
    BY <1>2, <1>3
  <1>7. Current(p) \notin ended[p]
    <2>1. \A m, n \in DOMAIN o : o[m] = o[n] => m = n
      BY <1>1, PlanFacts
    <2>2. \A n \in 1 .. j - 1 : n \in DOMAIN o /\ n # j
      BY <1>3
    <2> QED
      BY <1>2, <1>5, <2>1, <2>2
  <1>8. ASSUME NEW e \in EdgesIn(steps[p]), e[1] = Current(p),
               NEW k \in Registered(steps[p]), steps[p][k].tool = Dependency(steps[p], e)
        PROVE  k \in ended[p]
    <2>1. \E m \in DOMAIN o : m < j /\ o[m] = k
      BY <1>1, <1>5, <1>8, PlanFacts
    <2> QED
      BY <1>6, <2>1
  <1> QED
    BY <1>7, <1>8

LEMMA CompleteFacts ==
    ASSUME Shape, NEW p \in Pipelines, PlanInv(p), pc[p] = "complete"
    PROVE  ended[p] = Registered(steps[p])
  <1>1. steps \in Configs
    BY DEF Shape, LoadedInv
  <1>2a. PICK o \in Plans[steps[p]] : \E j \in 1 .. Len(o) + 1 : At(p, o, j)
    BY DEF PlanInv, Active
  <1>2b. PICK j \in 1 .. Len(o) + 1 : At(p, o, j)
    BY <1>2a
  <1>2. ended[p] = {o[n] : n \in 1 .. j - 1} /\ Len(plan[p]) = Len(o) + 1 - j
    BY <1>2b DEF At
  <1>3. /\ DOMAIN o = 1 .. Len(o) /\ Len(o) \in Nat
        /\ \A n \in DOMAIN o : o[n] \in Registered(steps[p])
    BY <1>1, PlanType
  <1>4. Len(plan[p]) = 0
    BY DEF Shape, AwaitInv
  <1>5. ended[p] = {o[n] : n \in DOMAIN o}
    BY <1>2, <1>3, <1>4
  <1>6. \A k \in Registered(steps[p]) : \E n \in DOMAIN o : o[n] = k
    BY <1>1, PlanFacts
  <1> QED
    BY <1>3, <1>5, <1>6

\* A step that leaves the run of p as it is, or ends it.
LEMMA RunKept ==
    ASSUME NEW p \in Pipelines, RunInv(p),
           ran'[p] = ran[p], good'[p] = good[p], told'[p] = told[p],
           Active(p)' => /\ pc'[p] = pc[p] /\ verdict'[p] = verdict[p] /\ steps'[p] = steps[p]
                         /\ plan'[p] = plan[p] /\ ended'[p] = ended[p]
    PROVE  RunInv(p)'
  <1>1. Active(p)' => Active(p)
    BY DEF Active
  <1>2. PlanInv(p)'
    <2> SUFFICES ASSUME Active(p)'
                 PROVE  \E o \in Plans[steps'[p]] : \E j \in 1 .. Len(o) + 1 : At(p, o, j)'
      BY DEF PlanInv
    <2>1. PICK o \in Plans[steps[p]] : \E j \in 1 .. Len(o) + 1 : At(p, o, j)
      BY <1>1 DEF RunInv, PlanInv
    <2>2. PICK j \in 1 .. Len(o) + 1 : At(p, o, j)
      BY <2>1
    <2>3. At(p, o, j)'
      BY <2>2 DEF At
    <2> QED
      BY <2>1, <2>3
  <1>3. RanInv(p)' /\ ToldInv(p)'
    BY <1>1 DEF RunInv, RanInv, ToldInv, Current
  <1>4. TrueInv(p)'
    BY DEF RunInv, TrueInv
  <1> QED
    BY <1>2, <1>3, <1>4 DEF RunInv

LEMMA TailFacts ==
    ASSUME NEW q \in Seq(Nat), q # <<>>, NEW l \in Nat, NEW j \in 1 .. l + 1, l + 1 - j = Len(q)
    PROVE  /\ Len(q) \in Nat \ {0}
           /\ Len(Tail(q)) = Len(q) - 1
           /\ \A n \in 1 .. Len(q) - 1 : Tail(q)[n] = q[n + 1]
           /\ j + 1 \in 1 .. l + 1
           /\ Len(Tail(q)) = l + 1 - (j + 1)
  <1>1. Len(q) \in Nat \ {0}
    OBVIOUS
  <1>2. Len(Tail(q)) = Len(q) - 1 /\ \A n \in 1 .. Len(q) - 1 : Tail(q)[n] = q[n + 1]
    OBVIOUS
  <1>3. j + 1 \in 1 .. l + 1 /\ Len(Tail(q)) = l + 1 - (j + 1)
    <2>1. PICK a \in Nat \ {0} : a = Len(q)
      BY <1>1
    <2>2. j \in Nat /\ 1 <= j /\ j = l + 1 - a
      BY <2>1
    <2>3. j + 1 \in 1 .. l + 1 /\ a - 1 = l + 1 - (j + 1)
      BY <2>1, <2>2
    <2> QED
      BY <1>2, <2>1, <2>3
  <1> QED
    BY <1>1, <1>2, <1>3

\* The tail of what is left of an order from position j is what is left from j + 1.
LEMMA TailOfSuffix ==
    ASSUME NEW o, NEW l \in Nat, NEW j \in 1 .. l + 1,
           NEW q \in Seq(Nat), q # <<>>, l + 1 - j = Len(q),
           \A n \in 1 .. Len(q) : q[n] = o[n + j - 1]
    PROVE  /\ j + 1 \in 1 .. l + 1
           /\ Len(Tail(q)) = l + 1 - (j + 1)
           /\ q[1] = o[j]
           /\ \A n \in 1 .. Len(Tail(q)) : Tail(q)[n] = o[n + (j + 1) - 1]
  <1>1. Len(q) \in Nat \ {0}
    BY TailFacts
  <1>2. Len(Tail(q)) = Len(q) - 1 /\ \A n \in 1 .. Len(q) - 1 : Tail(q)[n] = q[n + 1]
    BY TailFacts
  <1>3. j + 1 \in 1 .. l + 1 /\ Len(Tail(q)) = l + 1 - (j + 1)
    BY TailFacts
  <1>4. q[1] = o[j]
    <2>1. 1 \in 1 .. Len(q) /\ 1 + j - 1 = j
      BY <1>1
    <2>2. q[1] = o[1 + j - 1]
      BY <2>1
    <2> QED
      BY <2>1, <2>2
  <1>5. ASSUME NEW n \in 1 .. Len(Tail(q)) PROVE Tail(q)[n] = o[n + (j + 1) - 1]
    <2>1. n + 1 \in 1 .. Len(q) /\ n \in 1 .. Len(q) - 1
      BY <1>1, <1>2
    <2>2. Tail(q)[n] = q[n + 1] /\ q[n + 1] = o[(n + 1) + j - 1]
      BY <1>2, <2>1
    <2>3. (n + 1) + j - 1 = n + (j + 1) - 1
      BY <2>1
    <2> QED
      BY <2>2, <2>3
  <1> QED
    BY <1>3, <1>4, <1>5

\* The end of a step: what was said of it is true.
LEMMA EndStepRun ==
    ASSUME Shape, NEW p \in Pipelines, RunInv(p), pc[p] \in Busy, EndStep(p),
           ran' = ran, good' = good,
           \E reports \in SUBSET {ReportOf(p)} :
                /\ told' = [told EXCEPT ![p] = @ \cup reports]
                /\ pc[p] # "event" => reports = {}
    PROVE  RunInv(p)'
  <1>1. TypeOK /\ steps \in Configs
    BY DEF Shape, LoadedInv, Busy
  <1>2. /\ plan[p] \in Seq(Nat) /\ plan[p] # <<>> /\ Current(p) = plan[p][1]
        /\ Tail(plan[p]) \in Seq(Nat)
        /\ \A n \in DOMAIN Tail(plan[p]) : Tail(plan[p])[n] \in Registered(steps[p])
    BY RestType
  <1>3. /\ plan' = [plan EXCEPT ![p] = Tail(plan[p])] /\ steps' = steps
        /\ ended' = [ended EXCEPT ![p] = @ \cup {Current(p)}]
    <2>1. Proceed(p, Tail(plan[p])) /\ ended' = [ended EXCEPT ![p] = @ \cup {Current(p)}]
      BY DEF EndStep
    <2> QED
      BY <2>1 DEF Proceed
  <1>4. /\ plan'[p] = Tail(plan[p]) /\ ended'[p] = ended[p] \cup {Current(p)}
    BY <1>1, <1>3 DEF TypeOK, RunnerTypeOK
  <1>5. PICK reports \in SUBSET {ReportOf(p)} :
            told'[p] = told[p] \cup reports /\ (pc[p] # "event" => reports = {})
    BY <1>1 DEF TypeOK, RunnerTypeOK
  <1>6. Current(p) \notin ended[p]
    BY CurrentFacts DEF RunInv
  <1>7. PlanInv(p)'
    <2>1a. PICK o \in Plans[steps[p]] : \E j \in 1 .. Len(o) + 1 : At(p, o, j)
      BY DEF RunInv, PlanInv, Active
    <2>1b. PICK j \in 1 .. Len(o) + 1 : At(p, o, j)
      BY <2>1a
    <2>1. /\ ended[p] = {o[n] : n \in 1 .. j - 1}
          /\ Len(plan[p]) = Len(o) + 1 - j
          /\ \A n \in 1 .. Len(plan[p]) : plan[p][n] = o[n + j - 1]
      BY <2>1b DEF At
    <2>2. Len(o) \in Nat
      BY <1>1, PlanType
    <2>3a. PICK q \in Seq(Nat), l \in Nat : q = plan[p] /\ l = Len(o)
      BY <1>2, <2>2
    <2>3b. l + 1 - j = Len(q) /\ q # <<>>
      BY <1>2, <2>1, <2>3a
    <2>3c. \A n \in 1 .. Len(q) : q[n] = o[n + j - 1]
      BY <2>1, <2>3a
    <2>3d. j \in 1 .. l + 1
      BY <2>3a
    <2>4. /\ j + 1 \in 1 .. l + 1
          /\ Len(Tail(q)) = l + 1 - (j + 1)
          /\ q[1] = o[j]
          /\ \A n \in 1 .. Len(Tail(q)) : Tail(q)[n] = o[n + (j + 1) - 1]
      BY <2>3b, <2>3c, <2>3d, TailOfSuffix
    <2>6. ended'[p] = {o[n] : n \in 1 .. (j + 1) - 1}
      <3>1. Current(p) = o[j]
        BY <1>2, <2>3a, <2>4 DEF Current
      <3>2. ended'[p] = {o[n] : n \in 1 .. j - 1} \cup {o[j]}
        BY <1>4, <2>1, <3>1
      <3>3. 1 .. (j + 1) - 1 = (1 .. j - 1) \cup {j}
        BY <2>3d
      <3> QED
        BY <3>2, <3>3
    <2>7. At(p, o, j + 1)' /\ j + 1 \in 1 .. Len(o) + 1
      BY <1>4, <2>3a, <2>4, <2>6 DEF At
    <2> QED
      BY <2>7, <1>3 DEF PlanInv
  <1>8. RanInv(p)'
    BY <1>4 DEF RunInv, RanInv, Active
  <1>9. ToldInv(p)'
    BY <1>4, <1>5 DEF RunInv, ToldInv, Active, ReportOf
  <1>10. TrueInv(p)'
    <2>1. ASSUME NEW m \in told'[p]
          PROVE  /\ m.result <=> m.step \in good[p]
                 /\ m.step \in ran[p] => m.outcome = "approved"
      <3>1. CASE m \in told[p]
        BY <3>1 DEF RunInv, TrueInv
      <3>2. CASE m = ReportOf(p)
        <4>1. /\ m.step = Current(p) /\ m.outcome = verdict[p]
              /\ m.result = (Current(p) \in good[p])
          BY <3>2 DEF ReportOf
        <4>2. Current(p) \in ran[p] => verdict[p] = "approved"
          BY <1>6 DEF RunInv, RanInv, Active
        <4> QED
          BY <4>1, <4>2
      <3> QED
        BY <1>5, <2>1, <3>1, <3>2
    <2> QED
      BY <2>1 DEF TrueInv
  <1> QED
    BY <1>7, <1>8, <1>9, <1>10 DEF RunInv

\* A new run has everything before it.
LEMMA TriggerRun ==
    ASSUME Shape, NEW p \in Pipelines, Trigger(p)
    PROVE  RunInv(p)'
  <1>1. TypeOK /\ steps \in Configs
    BY DEF Shape, LoadedInv, Trigger
  <1>2. PICK o \in Plans[steps[p]] : Proceed(p, o)
    BY DEF Trigger
  <1>3. /\ o \in Seq(Nat) /\ Len(o) \in Nat
    BY <1>1, PlanType
  <1>4. steps' = steps /\ plan'[p] = o
    BY <1>1, <1>2 DEF Proceed, TypeOK, RunnerTypeOK
  <1>5. ended'[p] = {} /\ ran'[p] = {} /\ good'[p] = {} /\ told'[p] = {}
    BY <1>1 DEF Trigger, TypeOK, RunnerTypeOK
  <1>6. 1 \in 1 .. Len(o) + 1 /\ At(p, o, 1)'
    BY <1>3, <1>4, <1>5 DEF At
  <1>7. PlanInv(p)'
    BY <1>4, <1>6 DEF PlanInv
  <1> QED
    BY <1>5, <1>7 DEF RunInv, RanInv, ToldInv, TrueInv

\* Between two awaits of a step.
LEMMA WithinStepRun ==
    ASSUME Shape, NEW p \in Pipelines, RunInv(p),
           GateDecides(p) \/ Audited(p) \/ HandlerReturns(p) \/ HandlerRaises(p)
    PROVE  RunInv(p)'
  <1>1. TypeOK /\ AwaitInv(p)
    BY DEF Shape
  <1>2. /\ pc[p] \in {"human", "audit", "handler"}
        /\ UNCHANGED <<steps, plan, ended, told>>
    BY DEF GateDecides, Audited, HandlerReturns, HandlerRaises, runVars
  <1>3. Active(p) /\ pc[p] \in Busy /\ Current(p) \notin ended[p]
    BY <1>2, CurrentFacts DEF Active, Busy, RunInv
  <1>4. PlanInv(p)'
    BY <1>2, <1>3 DEF RunInv, PlanInv, At
  <1>5. \A m \in told[p] : m.step \in ended[p]
    BY <1>2, <1>3 DEF RunInv, ToldInv
  <1>6. ToldInv(p)'
    BY <1>2, <1>5 DEF ToldInv
  <1>7. CASE GateDecides(p) \/ Audited(p)
    <2>1. ran' = ran /\ good' = good
      BY <1>7 DEF GateDecides, Audited, runVars
    <2>2. \A k \in ran[p] : k \in ended[p]
      BY <1>3, <1>7 DEF RunInv, RanInv, GateDecides, Audited
    <2>3. RanInv(p)' /\ TrueInv(p)'
      BY <1>2, <2>1, <2>2 DEF RunInv, RanInv, TrueInv
    <2> QED
      BY <1>4, <1>6, <2>3 DEF RunInv
  <1>8. CASE HandlerReturns(p) \/ HandlerRaises(p)
    <2>1. /\ ran'[p] = ran[p] \cup {Current(p)}
          /\ good'[p] \in {good[p], good[p] \cup {Current(p)}}
          /\ pc'[p] \in {"handler", "event"}
          /\ verdict' = verdict /\ pc[p] = "handler"
      BY <1>1, <1>8 DEF HandlerReturns, HandlerRaises, TypeOK, RunnerTypeOK, gateVars
    <2>2. verdict[p] = "approved"
      BY <1>1, <2>1 DEF AwaitInv
    <2>3. \A k \in ran[p] : k \in ended[p] \/ k = Current(p)
      BY <1>3 DEF RunInv, RanInv
    <2>4. RanInv(p)'
      BY <1>2, <2>1, <2>2, <2>3 DEF RanInv, Current
    <2>5. TrueInv(p)'
      BY <1>2, <1>3, <1>5, <2>1 DEF RunInv, TrueInv
    <2> QED
      BY <1>4, <1>6, <2>4, <2>5 DEF RunInv
  <1> QED
    BY <1>7, <1>8

\* A publish of the event that will be tried again.
LEMMA EventFailsRun ==
    ASSUME Shape, NEW p \in Pipelines, RunInv(p), EventFails(p)
    PROVE  RunInv(p)'
  <1>1. TypeOK /\ pc[p] = "event" /\ pc[p] \in Busy /\ Active(p)
    BY DEF Shape, EventFails, Busy, Active
  <1>2. PICK reports \in {{}, {ReportOf(p)}} : told' = [told EXCEPT ![p] = @ \cup reports]
    BY DEF EventFails
  <1>3. CASE EndStep(p)
    BY <1>1, <1>2, <1>3, EndStepRun DEF EventFails
  <1>4. CASE ~EndStep(p)
    <2>1. UNCHANGED <<verdict, steps, pc, plan, ended, ran, good>>
      BY <1>4 DEF EventFails
    <2>2. told'[p] = told[p] \cup reports
      BY <1>1, <1>2 DEF TypeOK, RunnerTypeOK
    <2>3. PlanInv(p)'
      BY <1>1, <2>1 DEF RunInv, PlanInv, At
    <2>4. RanInv(p)'
      BY <1>1, <2>1 DEF RunInv, RanInv, Current
    <2>5. ToldInv(p)'
      BY <1>1, <1>2, <2>1, <2>2 DEF RunInv, ToldInv, ReportOf, Current
    <2>6. Current(p) \in ran[p] => verdict[p] = "approved"
      <3>1. Current(p) \notin ended[p]
        BY <1>1, CurrentFacts DEF RunInv
      <3> QED
        BY <1>1, <3>1 DEF RunInv, RanInv
    <2>7. TrueInv(p)'
      <3>1. /\ ReportOf(p).step = Current(p)
            /\ ReportOf(p).outcome = verdict[p]
            /\ ReportOf(p).result = (Current(p) \in good[p])
        BY DEF ReportOf
      <3>2. ASSUME NEW m \in told'[p]
            PROVE  (m.result <=> m.step \in good[p]) /\ (m.step \in ran[p] => m.outcome = "approved")
        <4>1. CASE m \in told[p]
          BY <4>1 DEF RunInv, TrueInv
        <4>2. CASE m \in reports
          <5>1. m = ReportOf(p)
            BY <1>2, <4>2
          <5>2. m.result <=> m.step \in good[p]
            BY <3>1, <5>1, Zenon
          <5>3. m.step \in ran[p] => m.outcome = "approved"
            BY <2>6, <3>1, <5>1
          <5> QED
            BY <5>2, <5>3
        <4> QED
          BY <2>2, <4>1, <4>2
      <3> QED
        BY <2>1, <3>2 DEF TrueInv
    <2> QED
      BY <2>3, <2>4, <2>5, <2>7 DEF RunInv
  <1> QED
    BY <1>3, <1>4

\* The steps of the loop itself.
LEMMA OwnStepRun ==
    ASSUME Shape, NEW p \in Pipelines, RunInv(p),
           Cancelled(p) \/ EventLoopError(p) \/ Trigger(p) \/ RunStep(p)
    PROVE  RunInv(p)'
  <1>1. TypeOK
    BY DEF Shape
  <1>2. CASE \/ Cancelled(p) \/ EventLoopError(p)
             \/ CompletionPublished(p) \/ CompletionFails(p)
    <2>1. UNCHANGED <<verdict, steps, plan, ended, ran, good, told>>
      BY <1>2 DEF Cancelled, EventLoopError, CompletionPublished, CompletionFails, gateVars, runVars
    <2>2. pc'[p] \in {"none", "wait", pc[p]}
      BY <1>1, <1>2
      DEF Cancelled, EventLoopError, CompletionPublished, CompletionFails, TypeOK, RunnerTypeOK
    <2>3. Active(p)' => pc'[p] = pc[p]
      BY <2>2 DEF Active, Busy
    <2> QED
      BY <2>1, <2>3, RunKept
  <1>3. CASE GateRaises(p)
    <2>1. /\ pc[p] = "human" /\ EndStep(p) /\ ran' = ran /\ good' = good
          /\ told' = [told EXCEPT ![p] = @ \cup {}]
      BY <1>1, <1>3 DEF GateRaises, TypeOK, RunnerTypeOK
    <2>2. pc[p] \in Busy
      BY <2>1 DEF Busy
    <2> QED
      BY <2>1, <2>2, EndStepRun
  <1>4. CASE EventPublished(p)
    <2>1. /\ pc[p] = "event" /\ EndStep(p) /\ ran' = ran /\ good' = good
          /\ told' = [told EXCEPT ![p] = @ \cup {ReportOf(p)}]
      BY <1>4 DEF EventPublished
    <2>2. pc[p] \in Busy
      BY <2>1 DEF Busy
    <2> QED
      BY <2>1, <2>2, EndStepRun
  <1> QED
    BY <1>2, <1>3, <1>4, TriggerRun, WithinStepRun, EventFailsRun DEF RunStep

\* The steps of another loop.
LEMMA OtherStepRun ==
    ASSUME Shape, NEW p \in Pipelines, RunInv(p), NEW q \in Pipelines, q # p,
           Cancelled(q) \/ EventLoopError(q) \/ Trigger(q) \/ RunStep(q)
    PROVE  RunInv(p)'
  <1>1. TypeOK /\ p \in Callers /\ q \in Callers
    BY RunnerAssumption DEF Shape
  <1>2. ASSUME NEW rest, Proceed(q, rest)
        PROVE  /\ steps' = steps /\ pc'[p] = pc[p] /\ plan'[p] = plan[p]
               /\ verdict'[p] = verdict[p]
    <2>1. steps' = steps /\ plan'[p] = plan[p]
      BY <1>1, <1>2 DEF Proceed, TypeOK, RunnerTypeOK
    <2>2. CASE rest = <<>>
      BY <1>1, <1>2, <2>1, <2>2 DEF Proceed, TypeOK, RunnerTypeOK
    <2>3. CASE rest # <<>>
      <3>1. PICK k, r : Evaluate(q, r) /\ pc' = [pc EXCEPT ![q] = k]
        BY <1>2, <2>3 DEF Proceed
      <3> QED
        BY <1>1, <2>1, <3>1 DEF Evaluate, TypeOK, GateTypeOK, RunnerTypeOK
    <2> QED
      BY <2>2, <2>3
  <1>3. ASSUME EndStep(q), told'[p] = told[p], ran' = ran, good' = good
        PROVE  RunInv(p)'
    <2>1. Proceed(q, Tail(plan[q])) /\ ended'[p] = ended[p]
      BY <1>1, <1>3 DEF EndStep, TypeOK, RunnerTypeOK
    <2> QED
      BY <1>2, <1>3, <2>1, RunKept
  <1>4. CASE Trigger(q)
    <2>1. \E o : Proceed(q, o)
      BY <1>4 DEF Trigger
    <2>2. /\ ended'[p] = ended[p] /\ ran'[p] = ran[p] /\ good'[p] = good[p]
          /\ told'[p] = told[p]
      BY <1>1, <1>4 DEF Trigger, TypeOK, RunnerTypeOK
    <2> QED
      BY <1>2, <2>1, <2>2, RunKept
  <1>5. CASE GateRaises(q) \/ EventPublished(q) \/ (EventFails(q) /\ EndStep(q))
    <2>1. EndStep(q) /\ told'[p] = told[p] /\ ran' = ran /\ good' = good
      BY <1>1, <1>5 DEF GateRaises, EventPublished, EventFails, TypeOK, RunnerTypeOK
    <2> QED
      BY <1>3, <2>1
  <1>6. CASE GateDecides(q)
    <2>1. verdict'[p] = verdict[p]
      BY <1>1, <1>6, DecidesFacts DEF GateDecides
    <2>2. pc'[p] = pc[p] /\ UNCHANGED <<steps, plan, ended, ran, good, told>>
      BY <1>1, <1>6 DEF GateDecides, TypeOK, RunnerTypeOK, runVars
    <2> QED
      BY <2>1, <2>2, RunKept
  <1>7. CASE \/ Cancelled(q) \/ EventLoopError(q) \/ Audited(q)
             \/ HandlerReturns(q) \/ HandlerRaises(q) \/ (EventFails(q) /\ ~EndStep(q))
             \/ CompletionPublished(q) \/ CompletionFails(q)
    <2>1. UNCHANGED <<verdict, steps, plan, ended>>
      BY <1>7 DEF Cancelled, EventLoopError, Audited, HandlerReturns, HandlerRaises, EventFails,
                  CompletionPublished, CompletionFails, gateVars, runVars
    <2>2. /\ pc'[p] = pc[p] /\ ran'[p] = ran[p] /\ good'[p] = good[p] /\ told'[p] = told[p]
      BY <1>1, <1>7
      DEF Cancelled, EventLoopError, Audited, HandlerReturns, HandlerRaises, EventFails,
          CompletionPublished, CompletionFails, runVars, TypeOK, RunnerTypeOK
    <2> QED
      BY <2>1, <2>2, RunKept
  <1> QED
    BY <1>4, <1>5, <1>6, <1>7 DEF RunStep

\* The steps of requests.
LEMMA RequestRun ==
    ASSUME Shape, NEW p \in Pipelines, RunInv(p), RequestNext
    PROVE  RunInv(p)'
  <1>1. TypeOK /\ p \in Callers
    BY RunnerAssumption DEF Shape
  <1>2. UNCHANGED runnerVars
    BY DEF RequestNext, Invoke, InvocationDecided, InvocationRaises, Recorded, RecordFails,
           Published, PublishFails, Handled, HandlingFails
  <1>3. verdict'[p] = verdict[p]
    <2>1. PICK r \in Requests :
            \/ Invoke(r) \/ InvocationDecided(r) \/ InvocationRaises(r)
            \/ Recorded(r) \/ RecordFails(r) \/ Published(r) \/ PublishFails(r)
            \/ Handled(r) \/ HandlingFails(r)
      BY DEF RequestNext
    <2>2. r \in Callers /\ r # p
      BY RequestsAssumption
    <2>3. CASE Invoke(r)
      BY <1>1, <2>2, <2>3 DEF Invoke, Evaluate, TypeOK, GateTypeOK, gateVars
    <2>4. CASE InvocationDecided(r)
      BY <1>1, <2>2, <2>4, DecidesFacts DEF InvocationDecided
    <2>5. CASE \/ InvocationRaises(r) \/ Recorded(r) \/ RecordFails(r) \/ Published(r)
               \/ PublishFails(r) \/ Handled(r) \/ HandlingFails(r)
      BY <2>5 DEF InvocationRaises, Recorded, RecordFails, Published, PublishFails, Handled,
                  HandlingFails, gateVars
    <2> QED
      BY <2>1, <2>3, <2>4, <2>5
  <1> QED
    BY <1>2, <1>3, RunKept DEF runnerVars, runVars

LEMMA RunInvStep ==
    ASSUME Shape, NEW p \in Pipelines, RunInv(p), [Next]_vars
    PROVE  RunInv(p)'
  <1>1. CASE Overrides /\ UNCHANGED <<runnerVars, requestVars>>
    <2>1. verdict' = verdict
      BY <1>1 DEF Overrides, OverrideRisk, ClearRiskOverride
    <2> QED
      BY <1>1, <2>1, RunKept DEF runnerVars, runVars
  <1>2. CASE RunnerNext
    <2>1. CASE Start
      <3>1. ~Active(p)' /\ UNCHANGED <<ran, good, told>>
        BY <2>1 DEF Start, Active, Busy, runVars
      <3> QED
        BY <3>1, RunKept
    <2>2. CASE Stop \/ StopReturns
      BY <2>2, RunKept DEF Stop, StopReturns, gateVars, runVars
    <2>3. CASE \E q \in Pipelines : Cancelled(q) \/ EventLoopError(q) \/ Trigger(q) \/ RunStep(q)
      BY <2>3, OwnStepRun, OtherStepRun
    <2> QED
      BY <1>2, <2>1, <2>2, <2>3 DEF RunnerNext
  <1>3. CASE RequestNext
    BY <1>3, RequestRun
  <1>4. CASE UNCHANGED vars
    BY <1>4, RunKept DEF vars, gateVars, runnerVars, runVars
  <1> QED
    BY <1>1, <1>2, <1>3, <1>4 DEF Next

LEMMA RunInvHolds == Spec => [](Shape /\ \A p \in Pipelines : RunInv(p))
  <1> DEFINE Inv == \A p \in Pipelines : RunInv(p)
  <1>1. Init => Inv
    BY DEF Init, RunnerInit, RunInv, PlanInv, RanInv, ToldInv, TrueInv, Active, Busy
  <1>2. Shape /\ Inv /\ [Next]_vars => Inv'
    BY RunInvStep
  <1> HIDE DEF Inv
  <1>3. Spec => [](Shape /\ Inv)
    BY <1>1, <1>2, ShapeHolds, PTL DEF Spec
  <1> QED
    BY <1>3 DEF Inv

\* A step of a run is in hand once, after the steps it depends on.
THEOREM DependenciesEndedTheorem == Spec => []DependenciesEnded
  <1>1. Shape /\ (\A p \in Pipelines : RunInv(p)) => DependenciesEnded
    BY CurrentFacts DEF RunInv, DependenciesEnded
  <1> QED
    BY <1>1, RunInvHolds, PTL

\* A run that is reported complete has ended each of its registered steps.
THEOREM CompletionIsTrueTheorem == Spec => []CompletionIsTrue
  <1>1. Shape /\ (\A p \in Pipelines : RunInv(p)) => CompletionIsTrue
    BY CompleteFacts DEF RunInv, CompletionIsTrue
  <1> QED
    BY <1>1, RunInvHolds, PTL

\* What events say of steps is what happened to them, through all retries.
THEOREM ReportsAreTrueTheorem == Spec => []ReportsAreTrue
  <1>1. Shape /\ (\A p \in Pipelines : RunInv(p)) => ReportsAreTrue
    BY DEF RunInv, TrueInv, ReportsAreTrue
  <1> QED
    BY <1>1, RunInvHolds, PTL
=============================================================================

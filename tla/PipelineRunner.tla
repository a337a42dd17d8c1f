--------------------------- MODULE PipelineRunner ---------------------------
(***************************************************************************)
(* core/pipelines/runner.py: one loop per pipeline, the steps of a         *)
(* triggered run, and start and stop.  pc[p] names the await the loop of   *)
(* p is suspended at: "wait" for a trigger, "human" in the gate, "audit",  *)
(* "handler", "event" and "complete" for what it says.  A failed attempt   *)
(* of _run_with_retries stays where it is, the back-off included.          *)
(*                                                                         *)
(* The order of a run is any order that StepLists!IsOrderOf allows; the    *)
(* one that _topological_sort returns is such an order (StepOrder).        *)
(* A stopping runner has called cancel() on every loop before its await:   *)
(* no loop takes another step, each is only told (Cancelled).              *)
(***************************************************************************)
EXTENDS ApprovalGate, StepLists

CONSTANTS
    Pipelines,      \* pipeline ids
    EventTriggered, \* those that wait in subscribe and not in sleep
    Configs,        \* for every pipeline its steps, as pipelines.yaml may have them
    DeclaredRisk,   \* the registered tools, and their risk_level
    Handlers,       \* tools with a registered handler
    AgentOf,        \* the agent in whose name a caller asks
    HasPool,        \* is there a database for the audit trail?
    MaxAttempts,    \* _RETRY_MAX_ATTEMPTS
    MaxRuns,        \* bound on triggers
    MaxStarts       \* bound on starts

ASSUME RunnerAssumption ==
    /\ Pipelines \subseteq Callers
    /\ Configs \subseteq [Pipelines -> Seq(StepsOn(Tools))]
    /\ \A config \in Configs, p \in Pipelines : DistinctTools(config[p])
    /\ DOMAIN DeclaredRisk \subseteq Tools
    /\ \A t \in DOMAIN DeclaredRisk : DeclaredRisk[t] \in Risks
    /\ AgentOf \in [Callers -> Agents]
    /\ HasPool \in BOOLEAN
    /\ MaxAttempts \in Nat \ {0}
    /\ MaxRuns \in Nat
    /\ MaxStarts \in Nat

VARIABLES
    runner,     \* _running, and whether stop() is still gathering
    starts,     \* calls of start() so far
    runs,       \* triggers so far
    steps,      \* the steps of every pipeline, loaded by start()
    pc,         \* the await of each loop, "none" when it has ended
    plan,       \* positions of the steps of the run still to be ended, in order
    attempt,    \* the attempt of _run_with_retries
    ended,      \* history: positions of the run's steps that have ended
    ran,        \* history: those whose handler was called
    good,       \* history: those whose handler has returned
    told        \* history: step_completed events of the run in the stream

runVars == <<plan, attempt, ended, ran, good, told>>
runnerVars == <<runner, starts, runs, steps, pc, runVars>>

Busy == {"human", "audit", "handler", "event"}

Report == [step : Nat, outcome : {"approved", "denied"}, result : BOOLEAN]

\* Before start() nothing is loaded.
NoPipelines == [p \in Pipelines |-> <<>>]

RunnerTypeOK ==
    /\ runner \in {"off", "on", "stopping"}
    /\ starts \in 0 .. MaxStarts
    /\ runs \in 0 .. MaxRuns
    /\ steps \in Configs \cup {NoPipelines}
    /\ pc \in [Pipelines -> Busy \cup {"none", "wait", "complete"}]
    /\ plan \in [Pipelines -> Seq(Nat)]
    /\ attempt \in [Pipelines -> 1 .. MaxAttempts]
    /\ ended \in [Pipelines -> SUBSET Nat]
    /\ ran \in [Pipelines -> SUBSET Nat]
    /\ good \in [Pipelines -> SUBSET Nat]
    /\ told \in [Pipelines -> SUBSET Report]

RunnerInit ==
    /\ runner = "off"
    /\ starts = 0
    /\ runs = 0
    /\ steps = NoPipelines
    /\ pc = [p \in Pipelines |-> "none"]
    /\ plan = [p \in Pipelines |-> <<>>]
    /\ attempt = [p \in Pipelines |-> 1]
    /\ ended = [p \in Pipelines |-> {}]
    /\ ran = [p \in Pipelines |-> {}]
    /\ good = [p \in Pipelines |-> {}]
    /\ told = [p \in Pipelines |-> {}]

-----------------------------------------------------------------------------
(* start and stop.                                                         *)

Start ==
    /\ runner = "off"
    /\ starts < MaxStarts
    /\ runner' = "on"
    /\ starts' = starts + 1
    /\ steps' \in Configs
    /\ pc' = [p \in Pipelines |-> "wait"]
    /\ UNCHANGED <<gateVars, runs, runVars>>

Stop ==
    /\ runner = "on"
    /\ runner' = "stopping"
    /\ UNCHANGED <<gateVars, starts, runs, steps, pc, runVars>>

\* CancelledError at whatever await the loop is suspended.
Cancelled(p) ==
    /\ runner = "stopping"
    /\ pc[p] # "none"
    /\ pc' = [pc EXCEPT ![p] = "none"]
    /\ UNCHANGED <<gateVars, runner, starts, runs, steps, runVars>>

StopReturns ==
    /\ runner = "stopping"
    /\ \A p \in Pipelines : pc[p] = "none"
    /\ runner' = "off"
    /\ UNCHANGED <<gateVars, starts, runs, steps, pc, runVars>>

\* subscribe raises: the loop logs it and ends.
EventLoopError(p) ==
    /\ runner = "on"
    /\ pc[p] = "wait"
    /\ p \in EventTriggered
    /\ Fault
    /\ pc' = [pc EXCEPT ![p] = "none"]
    /\ UNCHANGED <<risk_overrides, overridden, risk, verdict, said,
                   runner, starts, runs, steps, runVars>>

-----------------------------------------------------------------------------
(* The order of a run.                                                     *)

Orders(s) ==
    {o \in [DOMAIN s -> DOMAIN s] : KnownReferences(s) /\ IsOrderOf(o, s)}

\* Steps whose tool is not in the registry are passed over.
Registered(s) == {k \in DOMAIN s : s[k].tool \in DOMAIN DeclaredRisk}

\* The registered steps of s as they follow each other in an order of s.
PlansOf(s) ==
    {o \in [1 .. Cardinality(Registered(s)) -> Registered(s)] :
        \E full \in Orders(s) : \A m, n \in DOMAIN o : m < n =>
            \E x, y \in DOMAIN full : x < y /\ full[x] = o[m] /\ full[y] = o[n]}

\* Faulty variant: the steps are taken as they stand in the file.
PlansUnsorted ==
    [s \in {config[p] : config \in Configs, p \in Pipelines} |->
        {o \in [1 .. Cardinality(Registered(s)) -> Registered(s)] :
            \A m, n \in DOMAIN o : m < n => o[m] < o[n]}]

Plans == [s \in {config[p] : config \in Configs, p \in Pipelines} |-> PlansOf(s)]

-----------------------------------------------------------------------------
(* A run.                                                                  *)

AfterAudit(t, outcome) ==
    IF outcome = "approved" /\ t \in Handlers THEN "handler" ELSE "event"

AfterGate(t, outcome) ==
    IF outcome = "pending" THEN "human"
    ELSE IF HasPool THEN "audit" ELSE AfterAudit(t, outcome)

Current(p) == Head(plan[p])
ToolOf(p) == steps[p][Current(p)].tool

\* The run goes on with the steps rest: the first is evaluated at once, up to its
\* first await; without any the completion is published.
Proceed(p, rest) ==
    /\ plan' = [plan EXCEPT ![p] = rest]
    /\ attempt' = [attempt EXCEPT ![p] = 1]
    /\ IF rest = <<>>
       THEN /\ pc' = [pc EXCEPT ![p] = "complete"]
            /\ UNCHANGED <<risk, verdict, said>>
       ELSE LET t == steps[p][Head(rest)].tool
                r == EffectiveRisk(AgentOf[p], t, DeclaredRisk[t])
            IN  /\ Evaluate(p, r)
                /\ pc' = [pc EXCEPT ![p] = AfterGate(t, Decision(r))]
    /\ UNCHANGED <<risk_overrides, overridden, runner, starts, steps>>

EndStep(p) ==
    /\ ended' = [ended EXCEPT ![p] = @ \cup {Current(p)}]
    /\ Proceed(p, Tail(plan[p]))

\* An event or the schedule; a list of steps that cannot be sorted is logged only.
Trigger(p) ==
    /\ runner = "on"
    /\ pc[p] = "wait"
    /\ runs < MaxRuns
    /\ runs' = runs + 1
    /\ ended' = [ended EXCEPT ![p] = {}]
    /\ ran' = [ran EXCEPT ![p] = {}]
    /\ good' = [good EXCEPT ![p] = {}]
    /\ told' = [told EXCEPT ![p] = {}]
    /\ \E o \in Plans[steps[p]] : Proceed(p, o)
    /\ UNCHANGED faults

GateDecides(p) ==
    /\ runner = "on"
    /\ pc[p] = "human"
    /\ Decides(p)
    /\ pc' = [pc EXCEPT ![p] = AfterGate(ToolOf(p), verdict'[p])]
    /\ UNCHANGED <<runner, starts, runs, steps, runVars>>

\* Faulty variant: an approval error ends the run as if it were complete.
GateRaisesComplete(p) ==
    /\ runner = "on"
    /\ pc[p] = "human"
    /\ CallbackRaises(p)
    /\ pc' = [pc EXCEPT ![p] = "complete"]
    /\ UNCHANGED <<risk, verdict, said, runner, starts, runs, steps, runVars>>

\* An approval error ends the step without a record, a handler or an event.
GateRaises(p) ==
    /\ runner = "on"
    /\ pc[p] = "human"
    /\ CallbackRaises(p)
    /\ EndStep(p)
    /\ UNCHANGED <<runs, ran, good, told>>

\* The insert has returned or raised: it is logged, and the step goes on.
Audited(p) ==
    /\ runner = "on"
    /\ pc[p] = "audit"
    /\ pc' = [pc EXCEPT ![p] = AfterAudit(ToolOf(p), verdict[p])]
    /\ UNCHANGED <<gateVars, runner, starts, runs, steps, runVars>>

HandlerReturns(p) ==
    /\ runner = "on"
    /\ pc[p] = "handler"
    /\ ran' = [ran EXCEPT ![p] = @ \cup {Current(p)}]
    /\ good' = [good EXCEPT ![p] = @ \cup {Current(p)}]
    /\ pc' = [pc EXCEPT ![p] = "event"]
    /\ attempt' = [attempt EXCEPT ![p] = 1]
    /\ UNCHANGED <<gateVars, runner, starts, runs, steps, plan, ended, told>>

\* After the last attempt the error is logged, and the event has no result.
HandlerRaises(p) ==
    /\ runner = "on"
    /\ pc[p] = "handler"
    /\ Fault
    /\ ran' = [ran EXCEPT ![p] = @ \cup {Current(p)}]
    /\ IF attempt[p] < MaxAttempts
       THEN /\ attempt' = [attempt EXCEPT ![p] = @ + 1]
            /\ UNCHANGED pc
       ELSE /\ attempt' = [attempt EXCEPT ![p] = 1]
            /\ pc' = [pc EXCEPT ![p] = "event"]
    /\ UNCHANGED <<risk_overrides, overridden, risk, verdict, said,
                   runner, starts, runs, steps, plan, ended, good, told>>

\* Faulty variant: an approved step is reported with a result in any case.
ReportOptimistic(p) ==
    [step |-> Current(p), outcome |-> verdict[p], result |-> verdict[p] = "approved"]

ReportOf(p) ==
    [step |-> Current(p), outcome |-> verdict[p], result |-> Current(p) \in good[p]]

EventPublished(p) ==
    /\ runner = "on"
    /\ pc[p] = "event"
    /\ told' = [told EXCEPT ![p] = @ \cup {ReportOf(p)}]
    /\ EndStep(p)
    /\ UNCHANGED <<faults, runs, ran, good>>

\* A publish that raises may have taken effect.
EventFails(p) ==
    /\ runner = "on"
    /\ pc[p] = "event"
    /\ Fault
    /\ \E reports \in {{}, {ReportOf(p)}} : told' = [told EXCEPT ![p] = @ \cup reports]
    /\ IF attempt[p] < MaxAttempts
       THEN /\ attempt' = [attempt EXCEPT ![p] = @ + 1]
            /\ UNCHANGED <<risk_overrides, overridden, risk, verdict, said,
                           runner, starts, steps, pc, plan, ended>>
       ELSE EndStep(p)
    /\ UNCHANGED <<runs, ran, good>>

CompletionPublished(p) ==
    /\ runner = "on"
    /\ pc[p] = "complete"
    /\ pc' = [pc EXCEPT ![p] = "wait"]
    /\ UNCHANGED <<gateVars, runner, starts, runs, steps, runVars>>

CompletionFails(p) ==
    /\ runner = "on"
    /\ pc[p] = "complete"
    /\ Fault
    /\ IF attempt[p] < MaxAttempts
       THEN /\ attempt' = [attempt EXCEPT ![p] = @ + 1]
            /\ UNCHANGED pc
       ELSE /\ pc' = [pc EXCEPT ![p] = "wait"]
            /\ UNCHANGED attempt
    /\ UNCHANGED <<risk_overrides, overridden, risk, verdict, said,
                   runner, starts, runs, steps, plan, ended, ran, good, told>>

\* The run itself goes on by itself; it waits for a human at "human".
RunStep(p) ==
    \/ GateDecides(p)
    \/ GateRaises(p)
    \/ Audited(p)
    \/ HandlerReturns(p)
    \/ HandlerRaises(p)
    \/ EventPublished(p)
    \/ EventFails(p)
    \/ CompletionPublished(p)
    \/ CompletionFails(p)

RunnerNext ==
    \/ Start
    \/ Stop
    \/ StopReturns
    \/ \E p \in Pipelines :
        Cancelled(p) \/ EventLoopError(p) \/ Trigger(p) \/ RunStep(p)
=============================================================================

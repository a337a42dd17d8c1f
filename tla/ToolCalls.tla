------------------------------ MODULE ToolCalls ------------------------------
(***************************************************************************)
(* The two ways to call a tool, and the gate they share: invoke_tool of    *)
(* core/gateway/app.py (POST /mcp/tools/{tool_name}/invoke) beside the     *)
(* pipeline runner.  rpc[r] names the await a request is suspended at; a   *)
(* request audits, publishes, and calls the handler, in this order, while  *)
(* a pipeline step calls the handler before it publishes.                  *)
(*                                                                         *)
(* A gateway that had no Redis when it started keeps running without it:   *)
(* its bus is a _NoopEventBus, which accepts every event and writes none,  *)
(* and it starts no pipeline runner.                                       *)
(***************************************************************************)
EXTENDS PipelineRunner

CONSTANTS
    Requests,       \* HTTP requests
    NoTool          \* not a tool

ASSUME RequestsAssumption ==
    /\ Callers = Pipelines \cup Requests
    /\ Pipelines \cap Requests = {}
    /\ NoTool \notin Tools

VARIABLES
    bus,        \* the event bus that get_event_bus gives, settled when the gateway starts
    rpc,        \* the await of each request, "idle" before it and "done" after it
    tool,       \* the tool it names
    answer,     \* the status of the response
    recorded,   \* history: is its audit record in the database?
    published,  \* history: is its event in the stream?
    handled     \* history: was its handler called?

requestVars == <<bus, rpc, tool, answer, recorded, published, handled>>
vars == <<gateVars, runnerVars, requestVars>>

Errors == {"approval_error", "audit_error", "event_bus_error", "handler_error"}

TypeOK ==
    /\ GateTypeOK
    /\ RunnerTypeOK
    /\ bus \in {"redis", "noop"}
    /\ rpc \in [Requests -> {"idle", "human", "audit", "event", "handler", "done"}]
    /\ tool \in [Requests -> Tools \cup {NoTool}]
    /\ answer \in [Requests -> Errors \cup {"none", "not_registered", "tool_denied", "ok"}]
    /\ recorded \in [Requests -> BOOLEAN]
    /\ published \in [Requests -> BOOLEAN]
    /\ handled \in [Requests -> BOOLEAN]

\* REDIS_URL may be unset, the package missing or the first ping unanswered.
Init ==
    /\ GateInit
    /\ RunnerInit
    /\ bus \in {"redis", "noop"}
    /\ rpc = [r \in Requests |-> "idle"]
    /\ tool = [r \in Requests |-> NoTool]
    /\ answer = [r \in Requests |-> "none"]
    /\ recorded = [r \in Requests |-> FALSE]
    /\ published = [r \in Requests |-> FALSE]
    /\ handled = [r \in Requests |-> FALSE]

-----------------------------------------------------------------------------
(* invoke_tool.                                                            *)

GoesOn(r, await) ==
    /\ rpc' = [rpc EXCEPT ![r] = await]
    /\ UNCHANGED answer

\* "queued", the word for what is approved at a medium risk, is an "ok".
Responds(r, status) ==
    /\ rpc' = [rpc EXCEPT ![r] = "done"]
    /\ answer' = [answer EXCEPT ![r] = status]

\* The request is evaluated under the agent that registered the tool.
Invoke(r) ==
    /\ rpc[r] = "idle"
    /\ \E t \in Tools :
        /\ tool' = [tool EXCEPT ![r] = t]
        /\ IF t \notin DOMAIN DeclaredRisk
           THEN /\ Responds(r, "not_registered")
                /\ UNCHANGED gateVars
           ELSE LET k == EffectiveRisk(AgentOf[r], t, DeclaredRisk[t])
                IN  /\ Evaluate(r, k)
                    /\ GoesOn(r, IF Decision(k) = "pending" THEN "human" ELSE "audit")
                    /\ UNCHANGED <<risk_overrides, overridden, faults>>
    /\ UNCHANGED <<recorded, published, handled, runnerVars>>

InvocationDecided(r) ==
    /\ rpc[r] = "human"
    /\ Decides(r)
    /\ GoesOn(r, "audit")
    /\ UNCHANGED <<tool, recorded, published, handled, runnerVars>>

InvocationRaises(r) ==
    /\ rpc[r] = "human"
    /\ CallbackRaises(r)
    /\ Responds(r, "approval_error")
    /\ UNCHANGED <<risk, verdict, said, tool, recorded, published, handled, runnerVars>>

\* A denial is recorded like an approval, and answered then.
Recorded(r) ==
    /\ rpc[r] = "audit"
    /\ recorded' = [recorded EXCEPT ![r] = TRUE]
    /\ IF verdict[r] = "denied" THEN Responds(r, "tool_denied") ELSE GoesOn(r, "event")
    /\ UNCHANGED <<tool, published, handled, gateVars, runnerVars>>

\* AuditError, and the insert may have taken effect; or app.state has no trail to insert
\* into (deps.get_audit_trail), and the answer is a plain 500.
RecordFails(r) ==
    /\ rpc[r] = "audit"
    /\ Fault
    /\ \E row \in BOOLEAN : recorded' = [recorded EXCEPT ![r] = row]
    /\ Responds(r, "audit_error")
    /\ UNCHANGED <<tool, published, handled, risk_overrides, overridden, risk, verdict, said,
                   runnerVars>>

\* publish returns the id of the entry, or "noop".
Published(r) ==
    /\ rpc[r] = "event"
    /\ published' = [published EXCEPT ![r] = (bus = "redis")]
    /\ IF tool[r] \in Handlers THEN GoesOn(r, "handler") ELSE Responds(r, "ok")
    /\ UNCHANGED <<tool, recorded, handled, gateVars, runnerVars>>

\* Faulty variant: a failed publish is logged only, as in the pipeline runner.
PublishFailsQuietly(r) ==
    /\ rpc[r] = "event"
    /\ bus = "redis"
    /\ Fault
    /\ \E entry \in BOOLEAN : published' = [published EXCEPT ![r] = entry]
    /\ IF tool[r] \in Handlers THEN GoesOn(r, "handler") ELSE Responds(r, "ok")
    /\ UNCHANGED <<tool, recorded, handled, risk_overrides, overridden, risk, verdict, said,
                   runnerVars>>

\* EventBusError; the XADD may have taken effect.
PublishFails(r) ==
    /\ rpc[r] = "event"
    /\ bus = "redis"
    /\ Fault
    /\ \E entry \in BOOLEAN : published' = [published EXCEPT ![r] = entry]
    /\ Responds(r, "event_bus_error")
    /\ UNCHANGED <<tool, recorded, handled, risk_overrides, overridden, risk, verdict, said,
                   runnerVars>>

Handled(r) ==
    /\ rpc[r] = "handler"
    /\ handled' = [handled EXCEPT ![r] = TRUE]
    /\ Responds(r, "ok")
    /\ UNCHANGED <<tool, recorded, published, gateVars, runnerVars>>

HandlingFails(r) ==
    /\ rpc[r] = "handler"
    /\ Fault
    /\ handled' = [handled EXCEPT ![r] = TRUE]
    /\ Responds(r, "handler_error")
    /\ UNCHANGED <<tool, recorded, published, risk_overrides, overridden, risk, verdict, said,
                   runnerVars>>

RequestNext ==
    /\ UNCHANGED bus
    /\ \E r \in Requests :
        \/ Invoke(r)
        \/ InvocationDecided(r)
        \/ InvocationRaises(r)
        \/ Recorded(r)
        \/ RecordFails(r)
        \/ Published(r)
        \/ PublishFails(r)
        \/ Handled(r)
        \/ HandlingFails(r)

-----------------------------------------------------------------------------
\* Overrides of tools that are not registered are never read.
Overrides ==
    \E a \in Agents, t \in DOMAIN DeclaredRisk :
        ClearRiskOverride(a, t) \/ \E k \in Risks : OverrideRisk(a, t, k)

\* The runner is started only where there is a bus to read triggers from.
Next ==
    \/ Overrides /\ UNCHANGED <<runnerVars, requestVars>>
    \/ bus = "redis" /\ RunnerNext /\ UNCHANGED requestVars
    \/ RequestNext

Spec == Init /\ [][Next]_vars

\* The event loop runs what is ready, commands and handlers return or raise, and the
\* timer of a high risk fires.  Nobody is obliged to answer, to trigger, or to stop.
Fairness ==
    \A p \in Pipelines :
        /\ WF_vars(pc[p] # "human" /\ RunStep(p) /\ UNCHANGED requestVars)
        /\ WF_vars(TimesOut(p) /\ GateDecides(p) /\ UNCHANGED requestVars)
        /\ WF_vars(Cancelled(p) /\ UNCHANGED requestVars)

FairSpec == Spec /\ Fairness

-----------------------------------------------------------------------------
(* Properties.                                                             *)

\* A handler is about to run only for a request that the gate has approved: by its
\* risk, overrides included, or by a human's yes to this very request, never by a
\* time-out (gate.py, the policy table; _execute_step and invoke_tool).
NothingUnapproved ==
    \A c \in Callers :
        (IF c \in Pipelines THEN pc[c] = "handler" ELSE rpc[c] = "handler") =>
            /\ verdict[c] = "approved"
            /\ risk[c] \in {"low", "medium"} \/ said[c] = "yes"

\* A step is in hand only when the steps it depends on have ended in this run, unless
\* their tools are not registered, and it has not (_execute_pipeline).
DependenciesEnded ==
    \A p \in Pipelines : pc[p] \in Busy =>
        /\ Current(p) \notin ended[p]
        /\ \A e \in EdgesIn(steps[p]) : e[1] = Current(p) =>
            \A k \in Registered(steps[p]) :
                steps[p][k].tool = Dependency(steps[p], e) => k \in ended[p]

\* A run is reported complete when every registered step has ended, whatever failed,
\* was denied or raised in between.
CompletionIsTrue ==
    \A p \in Pipelines : pc[p] = "complete" => ended[p] = Registered(steps[p])

\* What a step_completed event says of a step is what happened in the run: a result
\* for a handler that returned and no other, no call behind a denial.
ReportsAreTrue ==
    \A p \in Pipelines : \A m \in told[p] :
        /\ m.result <=> m.step \in good[p]
        /\ m.step \in ran[p] => m.outcome = "approved"

\* What is on record of a call that the gateway went on with: its audit record, and its
\* event in the stream if the gateway has one.
OnRecord(r) == recorded[r] /\ (bus = "redis" => published[r])

\* What a response says is what happened: after "ok" the call is on record and carried
\* out; after a denial it is recorded and nothing else; after an error before the
\* handler's the handler has not run.  (Without Redis an "ok" promises no event: the
\* no-op bus accepts it, and nothing is in any stream.)
AnswersAreTrue ==
    \A r \in Requests :
        /\ answer[r] = "ok" => OnRecord(r) /\ (tool[r] \in Handlers => handled[r])
        /\ answer[r] = "tool_denied" =>
            recorded[r] /\ ~published[r] /\ ~handled[r] /\ verdict[r] = "denied"
        /\ answer[r] \in {"approval_error", "audit_error", "event_bus_error"} => ~handled[r]
        /\ handled[r] => OnRecord(r)

\* A run that has begun ends, completed or with its loop, or waits for the human whom
\* a critical tool needs.
RunsEnd ==
    \A p \in Pipelines :
        pc[p] \in Busy \cup {"complete"} ~>
            \/ pc[p] \in {"none", "wait"}
            \/ pc[p] = "human" /\ risk[p] = "critical"
=============================================================================

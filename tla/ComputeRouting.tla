--------------------------- MODULE ComputeRouting ---------------------------
(***************************************************************************)
(* The file config/compute-routing.yaml and the interview that fills it:   *)
(* the handlers set_compute_routing and intake_compute_routing of          *)
(* core/gateway/builtin_handlers.py.  Each call of a handler is a call of  *)
(* the gateway; its file operations run in threads, and calls interleave   *)
(* at each of them.                                                        *)
(*                                                                         *)
(* A file is opened for writing, which truncates it, and its text is in it *)
(* when it is closed: it is shorter than a buffer.  Two texts written into *)
(* one file leave the second one, or the second one followed by the end of *)
(* the first, which no parser accepts ("torn").                            *)
(***************************************************************************)
EXTENDS Integers, Sequences, FiniteSets

CONSTANTS
    Clients,     \* calls that may be under way at the same time
    NewRules,    \* rules given to set_compute_routing
    YesSets,     \* sets of questions an operator may answer with yes
    Total,       \* number of questions, the last of which is q20_commit
    MaxCalls,    \* bound on calls
    MaxFaults    \* bound on lost responses, failing writes and crashes

Question == {"q01", "q02", "q03", "q04", "q05", "q06", "q07", "q08", "q09", "q11",
             "q13", "q14", "q16", "q17", "q18", "q19"}

Targets == {"nvidia", "amd_rocm", "amd_vulkan", "npu", "cpu"}

Rule == [id : STRING, target : Targets, fallback : Targets \cup {"none"},
         priority : Int]

RoutingAssumption ==
    /\ \A r \in NewRules : r.id \in STRING /\ r.target \in Targets /\ r.priority \in Int
    /\ YesSets \subseteq SUBSET Question
    /\ Total \in Nat \ {0}
    /\ {MaxCalls, MaxFaults} \subseteq Nat

VARIABLES
    file,      \* compute-routing.yaml: what it is, and its rules
    session,   \* the session's file: what it is, current_index and answers
    call,      \* what each client's call does and has in its local variables
    shown,     \* the question the operator sees, 0 when there is none
    spent,     \* calls and faults so far
    rulebook,  \* history: rules by id, as the calls that ended left them
    overlaps   \* history: have two calls been under way together?

vars == <<file, session, call, shown, spent, rulebook, overlaps>>

Idle == [at |-> "idle", rule |-> <<>>, meant |-> 0, index |-> 0, answers |-> <<>>,
         rules |-> <<>>]

File(is, rules) == [is |-> is, rules |-> rules]
NoSession == [is |-> "absent", index |-> 0, answers |-> <<>>]

Limits == [calls |-> MaxCalls, faults |-> MaxFaults]

\* The rules of the file in the repository as a parser reads them: of a key that a rule has
\* twice, the last one counts.
Shipped ==
    LET rule(id, target, fallback, priority) ==
            [id |-> id, target |-> target, fallback |-> fallback, priority |-> priority]
    IN  << rule("gaming_process_nvidia", "nvidia", "none", 20),
           rule("inference_large_model_nvidia", "nvidia", "none", 15),
           rule("inference_medium_model_npu", "npu", "amd_vulkan", 12),
           rule("inference_small_model_npu", "npu", "amd_vulkan", 10),
           rule("embedding_npu", "npu", "amd_vulkan", 10),
           rule("rendering_amd_vulkan", "cpu", "none", 18) >>

ById(rules) == {rules[i] : i \in DOMAIN rules}

\* The file is the one in the repository, unless COMPUTE_ROUTING_CONFIG names another path,
\* where there is none yet.
Init ==
    /\ file \in {File("there", Shipped), File("absent", <<>>)}
    /\ session = NoSession
    /\ call = [c \in Clients |-> Idle]
    /\ shown = 0
    /\ spent = [b \in DOMAIN Limits |-> 0]
    /\ rulebook = ById(file.rules)
    /\ overlaps = FALSE

-----------------------------------------------------------------------------
(* _build_routing_rules.                                                   *)

\* The n-th of what is in order: upto[i] is what comes no later than i.
Nth(upto, n) == CHOOSE i \in DOMAIN upto : Cardinality(upto[i]) = n

\* The rules that there may be, in order.
Offers(yes) ==
    LET on(q) == q \in yes
        iGPU == IF on("q05") THEN "amd_vulkan" ELSE "cpu"
        npuOr == IF on("q03") THEN "npu" ELSE "amd_vulkan"
        offer(when, id, target, fallback) ==
            [when |-> when, id |-> id, target |-> target, fallback |-> fallback]
    IN  << offer(on("q01") \/ on("q11"), "gaming_process_nvidia", "nvidia", "none"),
           offer(on("q01") /\ on("q02"), "inference_offload_when_gaming",
                 IF on("q03") THEN "npu" ELSE iGPU, "none"),
           offer(on("q09"), "rendering_amd_vulkan", "amd_vulkan", "none"),
           offer(on("q13") /\ on("q14"), "image_generation_nvidia", "nvidia", "none"),
           offer(TRUE, "transcription_routing",
                 IF on("q06") THEN "nvidia" ELSE npuOr,
                 IF on("q06") THEN npuOr ELSE IF on("q03") THEN "amd_vulkan" ELSE "cpu"),
           offer(on("q04"), "inference_large_model_nvidia", "nvidia", "none"),
           offer(on("q03") \/ on("q04"), "inference_medium_model",
                 IF on("q03") THEN "npu" ELSE "nvidia",
                 IF ~on("q03") THEN "none" ELSE IF on("q19") THEN "nvidia" ELSE "amd_vulkan"),
           offer(on("q03") \/ on("q16"), "inference_small_model", "npu", iGPU),
           offer(TRUE, "rag_inference",
                 IF on("q18") THEN "npu" ELSE IF on("q04") THEN "nvidia" ELSE "amd_vulkan",
                 IF on("q18") THEN iGPU ELSE "cpu"),
           offer(on("q07"), "embedding_npu", "npu", iGPU),
           offer(on("q17"), "inference_cpu_during_gaming", "cpu", "none"),
           offer(on("q08"), "cpu_fallback", "cpu", "none") >>

\* The n-th rule, with the n-th of the priorities 100, 95, ..., but the last resort with 1.
BuildRule(offer, n) ==
    [id |-> offer.id, target |-> offer.target, fallback |-> offer.fallback,
     priority |-> IF offer.id = "cpu_fallback" THEN 1 ELSE 105 - 5 * n]

BuildRules(yes) ==
    LET offers == Offers(yes)
        taken == {i \in DOMAIN offers : offers[i].when}
        upto == [i \in taken |-> {j \in taken : j <= i}]
    IN  [n \in 1 .. Cardinality(taken) |-> BuildRule(offers[Nth(upto, n)], n)]

-----------------------------------------------------------------------------
(* Helpers.                                                                *)

Spend(b) == spent[b] < Limits[b] /\ spent' = [spent EXCEPT ![b] = @ + 1]

\* A call arrives at the gateway.
Begin(c, new) ==
    /\ call[c] = Idle
    /\ Spend("calls")
    /\ call' = [call EXCEPT ![c] = new]
    /\ overlaps' = (overlaps \/ \E d \in Clients \ {c} : call[d] # Idle)

Goto(c, at) == call' = [call EXCEPT ![c].at = at]

Respond(c) == call' = [call EXCEPT ![c] = Idle]

\* What a text leaves in a file that is in state f when its writer closes it.
Close(f, text) == IF f.is = "empty" THEN {text} ELSE {text, [f EXCEPT !.is = "torn"]}

\* The stable sort of rules, highest priority first.
Sorted(rules) ==
    LET before(i, j) == \/ rules[i].priority > rules[j].priority
                        \/ rules[i].priority = rules[j].priority /\ i <= j
        upto == [j \in DOMAIN rules |-> {i \in DOMAIN rules : before(i, j)}]
    IN  [n \in DOMAIN rules |-> rules[Nth(upto, n)]]

\* Faulty variant: where there is a rule with the same id, the first rule is replaced.
UpsertFirst(rules, new) ==
    LET same == {i \in DOMAIN rules : rules[i].id = new.id}
    IN  Sorted(IF same = {} THEN Append(rules, new) ELSE [rules EXCEPT ![1] = new])

\* The rule replaces the first one with its id or is appended; then they are sorted.
Upsert(rules, new) ==
    LET same == {i \in DOMAIN rules : rules[i].id = new.id}
        at == CHOOSE i \in same : \A j \in same : i <= j
    IN  Sorted(IF same = {} THEN Append(rules, new) ELSE [rules EXCEPT ![at] = new])

-----------------------------------------------------------------------------
(* set_compute_routing.                                                    *)

SetRule(c, r) ==
    /\ Begin(c, [Idle EXCEPT !.at = "read", !.rule = r])
    /\ UNCHANGED <<file, session, shown, rulebook>>

\* _upsert reads the file; an empty one is a file without rules, a torn one raises.
ReadRules(c) ==
    /\ call[c].at = "read"
    /\ IF file.is = "torn" THEN Respond(c)
       ELSE call' = [call EXCEPT ![c].at = "open",
                                 ![c].rules = Upsert(file.rules, call[c].rule)]
    /\ UNCHANGED <<file, session, shown, spent, rulebook, overlaps>>

\* The file is opened for writing, here and at the end of an interview.
OpenFile(c) ==
    /\ call[c].at \in {"open", "commit"}
    /\ file' = File("empty", <<>>)
    /\ Goto(c, IF call[c].at = "open" THEN "write" ELSE "commit write")
    /\ UNCHANGED <<session, shown, spent, rulebook, overlaps>>

\* yaml.dump and the close; the handler returns what it created or updated.
WriteRules(c) ==
    /\ call[c].at = "write"
    /\ file' \in Close(file, File("there", call[c].rules))
    /\ rulebook' = {r \in rulebook : r.id # call[c].rule.id} \cup {call[c].rule}
    /\ Respond(c)
    /\ UNCHANGED <<session, shown, spent, overlaps>>

-----------------------------------------------------------------------------
(* intake_compute_routing.                                                 *)

\* start: a session of its own (one, in this model).
StartInterview(c) ==
    /\ session.is = "absent"
    /\ shown = 0
    /\ Begin(c, [Idle EXCEPT !.at = "create"])
    /\ UNCHANGED <<file, session, shown, rulebook>>

CreateSession(c) ==
    /\ call[c].at = "create"
    /\ session' = [is |-> "there", index |-> 0, answers |-> <<>>]
    /\ shown' = 1
    /\ Respond(c)
    /\ UNCHANGED <<file, spent, rulebook, overlaps>>

\* The operator answers the question he sees.
Answer(c) ==
    /\ shown # 0
    /\ Begin(c, [Idle EXCEPT !.at = "load", !.meant = shown])
    /\ UNCHANGED <<file, session, shown, rulebook>>

\* The session is loaded.  No session, a truncated one and an answer that is neither
\* yes nor no are errors.
LoadSession(c) ==
    /\ call[c].at = "load"
    /\ \/ Respond(c)
       \/ /\ session.is = "there"
          /\ LET answers == Append(session.answers, call[c].meant)
             IN  \E yes \in IF session.index + 1 = Total THEN YesSets ELSE {{}} :
                   call' = [call EXCEPT ![c].at = IF session.index + 1 < Total THEN "save"
                                                  ELSE "commit",
                                        ![c].index = session.index + 1,
                                        ![c].answers = answers,
                                        ![c].rules = IF session.index + 1 < Total THEN <<>>
                                                     ELSE BuildRules(yes)]
    /\ UNCHANGED <<file, session, shown, spent, rulebook, overlaps>>

\* The last answer is no: nothing is written.
Decline(c) ==
    /\ call[c].at = "commit"
    /\ Goto(c, "unlink")
    /\ UNCHANGED <<file, session, shown, spent, rulebook, overlaps>>

\* _write_rules: the file gets the rules of the interview and no others.
CommitRules(c) ==
    /\ call[c].at = "commit write"
    /\ file' \in Close(file, File("there", call[c].rules))
    /\ rulebook' = ById(call[c].rules)
    /\ Goto(c, "unlink")
    /\ UNCHANGED <<session, shown, spent, overlaps>>

\* The session's file is removed, if it is still there, and the interview is complete.
EndInterview(c) ==
    /\ call[c].at = "unlink"
    /\ session' = NoSession
    /\ shown' = 0
    /\ Respond(c)
    /\ UNCHANGED <<file, spent, rulebook, overlaps>>

OpenSession(c) ==
    /\ call[c].at = "save"
    /\ session' = [is |-> "empty", index |-> 0, answers |-> <<>>]
    /\ Goto(c, "save write")
    /\ UNCHANGED <<file, shown, spent, rulebook, overlaps>>

\* The session is written and the next question returned.  (A file unlinked meanwhile
\* is written without a name.)
SaveSession(c) ==
    /\ call[c].at = "save write"
    /\ session' \in IF session.is = "absent" THEN {session}
                    ELSE Close(session, [is |-> "there", index |-> call[c].index,
                                         answers |-> call[c].answers])
    /\ shown' = call[c].index + 1
    /\ Respond(c)
    /\ UNCHANGED <<file, spent, rulebook, overlaps>>

-----------------------------------------------------------------------------
(* Failures.                                                               *)

\* The response to an answer is lost: the operator still sees the old question.
ResponseLost(c) ==
    /\ call[c].at = "save write"
    /\ session.is # "absent"
    /\ Spend("faults")
    /\ session' \in Close(session, [is |-> "there", index |-> call[c].index,
                                    answers |-> call[c].answers])
    /\ Respond(c)
    /\ UNCHANGED <<file, shown, rulebook, overlaps>>

\* A file cannot be opened or written.  When that happens to the commit, the session
\* is removed; any other exception leaves it.
WriteFails(c) ==
    /\ call[c].at \in {"open", "write", "commit", "commit write", "save", "save write"}
    /\ Spend("faults")
    /\ Respond(c)
    /\ IF call[c].at \in {"commit", "commit write"}
       THEN session' = NoSession /\ shown' = 0
       ELSE UNCHANGED <<session, shown>>
    /\ UNCHANGED <<file, rulebook, overlaps>>

\* The gateway dies: the files stay as they are, the operator sees what he saw.
Crash ==
    /\ Spend("faults")
    /\ call' = [c \in Clients |-> Idle]
    /\ UNCHANGED <<file, session, shown, rulebook, overlaps>>

-----------------------------------------------------------------------------
Next ==
    \/ \E c \in Clients :
         \/ \E r \in NewRules : SetRule(c, r)
         \/ ReadRules(c) \/ OpenFile(c) \/ WriteRules(c)
         \/ StartInterview(c) \/ CreateSession(c) \/ Answer(c) \/ LoadSession(c)
         \/ Decline(c) \/ CommitRules(c) \/ EndInterview(c)
         \/ OpenSession(c) \/ SaveSession(c)
         \/ ResponseLost(c) \/ WriteFails(c)
    \/ Crash

Spec == Init /\ [][Next]_vars

-----------------------------------------------------------------------------
(* Properties.                                                             *)

TypeOK ==
    /\ file.is \in {"absent", "empty", "torn", "there"}
    /\ \A r \in ById(file.rules) : r.target \in Targets
    /\ session.is \in {"absent", "empty", "torn", "there"}
    /\ session.index \in 0 .. Total - 1
    /\ shown \in 0 .. Total
    /\ spent \in [DOMAIN Limits -> Nat]
    /\ overlaps \in BOOLEAN

OneRuleEach(rules) == \A i, j \in DOMAIN rules : i < j => rules[i].id # rules[j].id

InOrder(rules) == \A i, j \in DOMAIN rules : i < j => rules[i].priority >= rules[j].priority

\* Rules are to be evaluated highest priority first.  No two rules of a file that can be read
\* have one id, and they are in that order once a call has written them, whatever calls
\* overlap and whatever fails (the shipped ones are not).  As long as calls do not overlap
\* and nothing fails, an answer is recorded for the question it was meant for, and what is in
\* the file while no call is under way is what was shipped and what the calls were told they
\* had written since: none loses the rule of another.  (Of two overlapping ones the second
\* may read the file that the first has truncated, and an answer sent again after a lost
\* response is taken for the next one.)
RulesSurvive ==
    /\ file.is = "there" =>
         /\ OneRuleEach(file.rules)
         /\ file.rules = Shipped \/ InOrder(file.rules)
    /\ (~overlaps /\ spent.faults = 0) =>
         /\ \A i \in DOMAIN session.answers : session.answers[i] = i
         /\ (\A c \in Clients : call[c] = Idle) => ById(file.rules) = rulebook
=============================================================================

----------------------------- MODULE MCServices -----------------------------
(***************************************************************************)
(* Values of the constants of Services for TLC.                            *)
(***************************************************************************)
EXTENDS Services, TLC

CONSTANTS auto, bad, c1, c2, c3, d1, f1, f2, f3, junk, none, r1, r2, w1, w2

\* Compute routing: two calls at a time, an interview of three questions; a rule that an
\* interview makes, too, and one that is shipped.
MCNewRules ==
    {[id |-> "rag_inference", target |-> "cpu", fallback |-> "none", priority |-> 5],
     [id |-> "embedding_npu", target |-> "npu", fallback |-> "none", priority |-> 17]}

\* The media sorter: two copies of one title, two runs at a time.
MCContent == <<{f1, junk}, {f1, f2, f3}>>
MCTitle == <<"t", "t">>

\* Startup: two wizards, one start of the gateway, Discord or not.
Typed ==
    [f \in {"ZAI_API_KEY", "TELEGRAM_BOT_TOKEN", "TELEGRAM_CHAT_ID", "DISCORD_BOT_TOKEN",
            "DISCORD_GUILD_ID", "OPENCLAW_WS_URL"} |-> "typed"]

MCEnvirons == {<<>>, "ZAI_API_KEY" :> "exported"}
MCAnswers == {<<>>, Typed}

\* Intake: a task and a conversation with one correlation id, another task and a
\* malformed frame; the classifier sees one row.
MCType == [task |-> "task_request", talk |-> "conversation", other |-> "task_request",
           noise |-> "malformed"]
MCMessages == DOMAIN MCType
MCCorrelation == [m \in MCMessages |-> IF m \in {"task", "talk"} THEN "c" ELSE "none"]
MCClass == [m \in MCMessages |-> IF m = "talk" THEN "debug" ELSE "task"]

\* Documents: one document, texts of one to three chunks, two callers.
MCTexts == {<<2, 2, 1, 3>>, <<4, 1, 2>>, <<1>>}

\* The watchdogs: one item, two notes and two receipts in three moments; a storm is two in
\* one moment, the warning is at four of five tokens.
MCReports == {<<"success", 0>>, <<"partial", 0>>, <<"failure", 4>>}

\* Hardware: two calls at a time, two profiles, watts of their own, a fan.
Watts(stapm, fast, slow, gpu) ==
    "stapm" :> stapm @@ "fast" :> fast @@ "slow" :> slow @@ "gpu" :> gpu

MCProfiles == "quiet" :> Watts(15, 20, 15, 35) @@ "balanced" :> Watts(28, 35, 28, 60)
MCExplicit == {<<>>, "gpu" :> bad, "gpu" :> none @@ "fast" :> none}

\* Post-processing: two downloads of a title, three files, two of which have the same
\* name, and a directory that looks like the other one's.
MCJob == f1 :> 1 @@ f2 :> 1 @@ f3 :> 2
MCName == f1 :> "a" @@ f2 :> "b" @@ f3 :> "a"
MCSimilar == <<{1}, {1, 2}>>
=============================================================================

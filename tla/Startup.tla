------------------------------- MODULE Startup -------------------------------
(***************************************************************************)
(* From the first-run wizard to a running gateway: SetupWizard of          *)
(* core/setup/wizard.py, which writes the environment file, the OpenClaw   *)
(* configuration and a marker, and the lifespan of core/gateway/app.py,    *)
(* which starts the gateway with what the environment names.               *)
(*                                                                         *)
(* A wizard gathers all values in memory before it writes any file, so     *)
(* that an operator who cancels leaves the files alone; a file is          *)
(* truncated first and has its contents when it is closed.  Wizards may    *)
(* overlap, and may die between two steps.                                 *)
(***************************************************************************)
EXTENDS Naturals, FiniteSets

CONSTANTS
    Wizards,       \* wizards that may be at work together
    Environs,      \* what the environment of a process may hold: field -> value
    Answers,       \* what an operator may type: field -> value
    MaxWizards,    \* bound on wizards started
    MaxStarts,     \* bound on starts of the gateway
    MaxFaults      \* bound on failures and on outages of Redis

VARIABLES
    env,       \* ~/.config/osmen/env: what it is, its values, is it 0600?
    yaml,      \* config/openclaw.yaml: what it is, and bridge.ws_url
    complete,  \* does .setup_complete exist?
    wizard,    \* what each wizard does, and its _config
    gateway,   \* what the gateway does, and its app.state
    redisUp,   \* does Redis answer?
    used,      \* wizards, starts and faults so far
    kept,      \* history: fields that had a value when a wizard completed
    overlaps   \* history: have two wizards been at work together?

vars == <<env, yaml, complete, wizard, gateway, redisUp, used, kept, overlaps>>

-----------------------------------------------------------------------------
(* Values.  "" is no value.                                                *)

Field == {"ZAI_API_KEY", "TELEGRAM_BOT_TOKEN", "TELEGRAM_CHAT_ID", "DISCORD_BOT_TOKEN",
          "DISCORD_GUILD_ID", "OPENCLAW_WS_URL", "PLEX_LIBRARY_ROOT",
          "DOWNLOAD_STAGING_DIR", "POSTGRES_DSN", "REDIS_URL"}

Services == {"OPENCLAW_WS_URL", "POSTGRES_DSN", "REDIS_URL"}
Directories == {"PLEX_LIBRARY_ROOT", "DOWNLOAD_STAGING_DIR"}
Required == Field \ (Directories \cup {"DISCORD_BOT_TOKEN", "DISCORD_GUILD_ID"})

Nothing == [f \in Field |-> ""]

SetupConfig == [f \in Field |-> IF f \in Services THEN "default" ELSE ""]

Or(a, b) == IF a # "" THEN a ELSE b

Of(some) == [f \in Field |-> IF f \in DOMAIN some THEN some[f] ELSE ""]

\* Faulty variant: the file is not loaded.
LoadNothing == SetupConfig

\* _load_existing_env: the values of the file that are not empty.
LoadExistingEnv == [f \in Field |-> Or(env.values[f], SetupConfig[f])]

\* _prompt and _prompt_secret: what is typed, else the variable of the environment, the
\* current value or the default; nothing is typed in auto mode.
Prompt(w, typed, f) ==
    Or(typed[f],
       Or(wizard[w].environ[f],
          Or(wizard[w].config[f], IF f \in Directories THEN "default" ELSE "")))

\* The guild is asked for if there is a Discord token.
Gathered(w, typed) ==
    [f \in Field |->
        IF f = "DISCORD_GUILD_ID" /\ Prompt(w, typed, "DISCORD_BOT_TOKEN") = ""
        THEN wizard[w].config[f] ELSE Prompt(w, typed, f)]

-----------------------------------------------------------------------------
NoWizard == [at |-> "idle", auto |-> FALSE, environ |-> Nothing, config |-> Nothing]

Down == [at |-> "down", environ |-> Nothing, database |-> FALSE, configured |-> FALSE,
         bus |-> FALSE, pool |-> FALSE, bridge |-> FALSE, runner |-> FALSE,
         status |-> "none"]

Limits == [wizards |-> MaxWizards, starts |-> MaxStarts, faults |-> MaxFaults]

Init ==
    /\ env = [is |-> "absent", values |-> Nothing, private |-> FALSE]
    /\ yaml = [is |-> "there", url |-> ""]
    /\ complete = FALSE
    /\ wizard = [w \in Wizards |-> NoWizard]
    /\ gateway = Down
    /\ redisUp = TRUE
    /\ used = [b \in DOMAIN Limits |-> 0]
    /\ kept = {}
    /\ overlaps = FALSE

Spend(b) == used[b] < Limits[b] /\ used' = [used EXCEPT ![b] = @ + 1]

Goto(w, at) == wizard' = [wizard EXCEPT ![w].at = at]

-----------------------------------------------------------------------------
(* The wizard.                                                             *)

\* Where setup is complete, a wizard without --reconfigure has nothing to do; one with
\* it, or a first one, loads what there is.
Run(w, auto, some) ==
    /\ wizard[w] = NoWizard
    /\ Spend("wizards")
    /\ wizard' = [wizard EXCEPT ![w] = [at |-> "gather", auto |-> auto,
                                        environ |-> Of(some), config |-> LoadExistingEnv]]
    /\ overlaps' = (overlaps \/ \E v \in Wizards \ {w} : wizard[v] # NoWizard)
    /\ UNCHANGED <<env, yaml, complete, gateway, redisUp, kept>>

\* A required value is asked for until there is one; auto mode does without it.
Gather(w, some) ==
    /\ wizard[w].at = "gather"
    /\ wizard[w].auto => some = <<>>
    /\ LET config == Gathered(w, Of(some))
       IN  /\ \/ wizard[w].auto
              \/ \A f \in Required : config[f] # ""
           /\ wizard' = [wizard EXCEPT ![w].at = "open env", ![w].config = config]
    /\ UNCHANGED <<env, yaml, complete, gateway, redisUp, used, kept, overlaps>>

\* write_text opens the file; one that did not exist gets the permissions of the umask.
OpenEnv(w) ==
    /\ wizard[w].at = "open env"
    /\ env' = [is |-> "empty", values |-> Nothing, private |-> env.private]
    /\ Goto(w, "write env")
    /\ UNCHANGED <<yaml, complete, gateway, redisUp, used, kept, overlaps>>

WriteEnv(w) ==
    /\ wizard[w].at = "write env"
    /\ env' = [env EXCEPT !.is = "there", !.values = wizard[w].config]
    /\ Goto(w, "chmod")
    /\ UNCHANGED <<yaml, complete, gateway, redisUp, used, kept, overlaps>>

Chmod(w) ==
    /\ wizard[w].at = "chmod"
    /\ env' = [env EXCEPT !.private = TRUE]
    /\ Goto(w, "open yaml")
    /\ UNCHANGED <<yaml, complete, gateway, redisUp, used, kept, overlaps>>

OpenYaml(w) ==
    /\ wizard[w].at = "open yaml"
    /\ yaml' = [is |-> "empty", url |-> ""]
    /\ Goto(w, "write yaml")
    /\ UNCHANGED <<env, complete, gateway, redisUp, used, kept, overlaps>>

WriteYaml(w) ==
    /\ wizard[w].at = "write yaml"
    /\ yaml' = [is |-> "there", url |-> wizard[w].config["OPENCLAW_WS_URL"]]
    /\ Goto(w, "mark")
    /\ UNCHANGED <<env, complete, gateway, redisUp, used, kept, overlaps>>

\* _mark_complete; the summary tells the operator to source the file.
MarkComplete(w) ==
    /\ wizard[w].at = "mark"
    /\ complete' = TRUE
    /\ kept' = kept \cup {f \in Field : wizard[w].config[f] # ""}
    /\ wizard' = [wizard EXCEPT ![w] = NoWizard]
    /\ UNCHANGED <<env, yaml, gateway, redisUp, used, overlaps>>

\* Ctrl-C at a prompt: "Setup cancelled".
Cancel(w) ==
    /\ wizard[w].at = "gather"
    /\ ~wizard[w].auto
    /\ wizard' = [wizard EXCEPT ![w] = NoWizard]
    /\ UNCHANGED <<env, yaml, complete, gateway, redisUp, used, kept, overlaps>>

\* An exception that run does not catch, or a kill, between two file operations.
WizardDies(w) ==
    /\ wizard[w].at \notin {"idle", "gather"}
    /\ Spend("faults")
    /\ wizard' = [wizard EXCEPT ![w] = NoWizard]
    /\ UNCHANGED <<env, yaml, complete, gateway, redisUp, kept, overlaps>>

-----------------------------------------------------------------------------
(* The gateway.                                                            *)

\* A process whose environment has the variables of the file, or not, and a DATABASE_URL,
\* which the wizard does not write, or not.  (Started, in this model, while no wizard is
\* at work.)
StartGateway(sourced, database) ==
    /\ gateway.at = "down"
    /\ \A w \in Wizards : wizard[w] = NoWizard
    /\ Spend("starts")
    /\ gateway' = [Down EXCEPT !.at = "redis", !.database = database,
                               !.environ = IF sourced THEN env.values ELSE Nothing,
                               !.configured = sourced /\ complete /\ env.is = "there"]
    /\ UNCHANGED <<env, yaml, complete, wizard, redisUp, kept, overlaps>>

\* from_url and ping; a Redis that does not answer is as good as none.
ConnectRedis ==
    /\ gateway.at = "redis"
    /\ gateway' = [gateway EXCEPT !.at = "pool",
                                  !.bus = gateway.environ["REDIS_URL"] # "" /\ redisUp]
    /\ UNCHANGED <<env, yaml, complete, wizard, redisUp, used, kept, overlaps>>

\* create_pool and SELECT 1, which may fail: so is a PostgreSQL.
ConnectPool ==
    /\ gateway.at = "pool"
    /\ \E connects \in BOOLEAN :
         gateway' = [gateway EXCEPT !.at = "bridge",
                                    !.pool = gateway.database /\ connects]
    /\ UNCHANGED <<env, yaml, complete, wizard, redisUp, used, kept, overlaps>>

\* The URL comes from the environment, else from bridge.endpoint, which the wizard does
\* not write: load_config gives {} or a bridge section without it.
StartBridge ==
    /\ gateway.at = "bridge"
    /\ gateway' = [gateway EXCEPT !.at = "runner",
                                  !.bridge = gateway.environ["OPENCLAW_WS_URL"] # ""]
    /\ UNCHANGED <<env, yaml, complete, wizard, redisUp, used, kept, overlaps>>

\* The pipeline runner needs the bus, and may fail to start; then come the engines, whose
\* init_orchestration is called with two arguments and raises, and the sync worker.
StartRunner ==
    /\ gateway.at = "runner"
    /\ \E starts \in BOOLEAN :
         gateway' = [gateway EXCEPT !.at = "up", !.runner = gateway.bus /\ starts]
    /\ UNCHANGED <<env, yaml, complete, wizard, redisUp, used, kept, overlaps>>

\* GET /ready.  What is "not configured" counts as ok, and a bridge counts if connected.
Readiness ==
    /\ gateway.at = "up"
    /\ \E answers, connected \in BOOLEAN :
         gateway' = [gateway EXCEPT !.status =
             IF /\ gateway.bus => redisUp
                /\ gateway.pool => answers
                /\ gateway.bridge => connected
             THEN "ready" ELSE "degraded"]
    /\ UNCHANGED <<env, yaml, complete, wizard, redisUp, used, kept, overlaps>>

\* Shutdown stops the runner, then the bridge, then closes the pool and Redis.
StopGateway ==
    /\ gateway.at = "up"
    /\ gateway' = Down
    /\ UNCHANGED <<env, yaml, complete, wizard, redisUp, used, kept, overlaps>>

\* Redis goes away, and comes back.
RedisFails ==
    /\ redisUp
    /\ Spend("faults")
    /\ redisUp' = FALSE
    /\ UNCHANGED <<env, yaml, complete, wizard, gateway, kept, overlaps>>

RedisRecovers ==
    /\ ~redisUp
    /\ redisUp' = TRUE
    /\ UNCHANGED <<env, yaml, complete, wizard, gateway, used, kept, overlaps>>

-----------------------------------------------------------------------------
Next ==
    \/ \E w \in Wizards :
         \/ \E auto \in BOOLEAN, some \in Environs : Run(w, auto, some)
         \/ \E some \in Answers : Gather(w, some)
         \/ OpenEnv(w) \/ WriteEnv(w) \/ Chmod(w)
         \/ OpenYaml(w) \/ WriteYaml(w) \/ MarkComplete(w)
         \/ Cancel(w) \/ WizardDies(w)
    \/ \E sourced, database \in BOOLEAN : StartGateway(sourced, database)
    \/ ConnectRedis \/ ConnectPool \/ StartBridge \/ StartRunner
    \/ Readiness \/ StopGateway \/ RedisFails \/ RedisRecovers

Spec == Init /\ [][Next]_vars

-----------------------------------------------------------------------------
(* Properties.                                                             *)

\* Once setup is marked complete the secrets are readable by their owner only, also
\* while another wizard rewrites the file and wherever that one dies.
CompleteIsPrivate == complete => env.private

\* As long as no wizard overlaps another or dies, a setting that was made once is there
\* whenever no wizard is at work, whatever is cancelled, left blank or done in auto
\* mode, and both files name the same bridge.  (A wizard that dies between the
\* truncation and the write leaves the marker and loses every setting.)
SettingsSurvive ==
    (~overlaps /\ used.faults = 0 /\ \A w \in Wizards : wizard[w] = NoWizard) =>
        /\ \A f \in kept : env.values[f] # ""
        /\ complete => yaml.url = env.values["OPENCLAW_WS_URL"]

\* The two hold; and a gateway that is started with the environment of a completed setup, while Redis
\* answers, has its event bus and its bridge, unless a wizard died: defaults stand in for
\* what was left blank.  (It never has a database: the wizard writes POSTGRES_DSN and the
\* gateway reads DATABASE_URL.)
SettingsArrive ==
    /\ CompleteIsPrivate
    /\ SettingsSurvive
    /\ (gateway.at \notin {"down", "redis", "pool", "bridge"} /\ gateway.configured)
        => (gateway.bus \/ used.faults > 0) /\ gateway.bridge
=============================================================================

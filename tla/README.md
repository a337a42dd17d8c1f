# A verification development for OsMEN-OC

OsMEN-OC is a personal multi-agent operating system: agents, tools, pipelines and
a task list, held together by one Python (asyncio) process that talks to Redis,
PostgreSQL, SQLite and an OpenClaw bridge. This directory holds TLA+ models of the
parts whose correctness depends on the *order* in which things happen, TLC
configurations that check them on small instances, and TLAPS proofs of what matters
most for instances of any size. Paths below are relative to the repository.

## 1. Inventory

Almost all state-bearing code is in `core/` (about 14 000 lines). It runs in one
event loop: two coroutines interleave exactly at their `await`s, so between two
`await`s a Python statement sequence is atomic, and across an `await` nothing is.

| Component | State it keeps | Operations | Interacts with |
|---|---|---|---|
| Ledger (`orchestration/ledger.py`, `models.py`) | PostgreSQL rows of workflows, work items, receipts, interrupts, claims, notes | one SQL statement each; `update_workflow_status` is a SELECT, a table lookup and an UPDATE | both engines, watchdogs, views |
| CooperativeEngine, Mode A (`workflow.py`) | `_active_workflows`, a dispatch-loop task per workflow | start, add items, submit receipt / note / interrupt, cancel; the loop | ledger, watchdogs, callbacks, event bus |
| DiscussionEngine, Mode B (`discussion.py`) | a discussion-loop task, claims and their statuses | start, submit / attack / repair claims, synthesis | same ledger rows as Mode A |
| Watchdogs (`watchdogs.py`) | none; a verdict from notes, receipts and times | duplicate, novelty, staleness, receipt and storm detectors | called by both loops |
| SessionClassifier, bridge adapter, memory bridge, orchestration gateway | correlation ids, handle tables | create-or-reuse a workflow, translate bridge messages | engines, ledger |
| Event bus (`events/bus.py`, `envelope.py`) | Redis streams, consumer groups, a dead-letter stream | publish, subscribe, dead-letter, replay | everything |
| Task queue and TaskSyncWorker (`tasks/`) | an SQLite table of events, fed by Taskwarrior hooks | push, pending, mark_synced, prune; poll loop | hooks (other processes), event bus |
| PipelineRunner (`pipelines/runner.py`) | the pipelines loaded, a cron or event loop for each | topological sort, a run's steps with gate, audit, retried handler and event; start, stop | event bus, approval gate, handlers |
| ApprovalGate (`approval/gate.py`), audit trail | risk overrides per agent and tool; PostgreSQL rows | evaluate (with a human's callback and a time-out), override and clear; insert | gateway, pipelines, a human |
| Gateway (`gateway/`) | tool tables, connections | HTTP/MCP endpoints, `invoke_tool` | all of the above |
| OpenClaw bridge client (`bridge/ws_client.py`) | socket, backoff | connect, listen, reconnect | bridge adapter |
| Audit trail (`audit/trail.py`) | two PostgreSQL tables | insert, archive (a copy and a deletion), query | gateway, pipelines |
| Memory maintenance (`memory/maintenance.py`) | a Redis hash agents write, rows of `memory_entries` | promote, decay, expire | agents, memory hub |
| Memory hub and chunking (`memory/`) | documents and their chunks, stored memories | register, store chunks, delete, recall | maintenance |
| Built-in tool handlers (`gateway/builtin_handlers.py`) | the routing file and interview, the staging area and library of downloads, power limits and fans of the machine | read-modify-write of files, moves and deletions, chains of processes | gateway, media scripts |
| Media scripts (`scripts/`) | download directories and libraries | request, de-duplicate, clean, move, post-process | SABnzbd, Plex |
| Setup wizard (`setup/wizard.py`) and gateway lifespan (`gateway/app.py`) | environment file, bridge configuration, completion marker; `app.state` | ask, write; start, probe, stop | Redis, PostgreSQL, bridge |
| Knowledge ingest, secrets, voice, vision, other scripts | files | I/O | - |

`PROJECT.json` lists every component with its status, and under `hazards` each place
where this code is hard to test.

What is hard here: the ledger validates a transition and writes it in two
statements with an await in between, while the loop, callers, watchdogs and a crash
recovery write the same row; Redis hands a message out once and nobody reads a
pending list again; a command whose reply is lost may have taken effect; hooks are
separate processes whose commits arrive out of timestamp order; a process that dies
forgets its tasks but not its rows; a handler or a publish that raised may have taken
effect and is tried again; a human may answer just as the time-out fires.

What makes each part correct:

- *Ledger and engine*: status moves along the transition table; a final status is
  final; an item is dispatched after its dependencies; one loop per workflow;
  cancelling stops the loop; suspension has a cause; a running workflow ends.
- *Bus*: acknowledged means handled; a message reaches one consumer, once; nothing
  handed out is forgotten by Redis; a dead letter is deleted only after it is copied.
- *Task queue*: synced means published; at-least-once; order of consecutive hooks;
  everything queued is published eventually.
- *Pipelines and tool calls*: a sorted list is an order of the steps and exists
  exactly when it can; no handler runs for a request the gate did not approve; a step
  comes after its dependencies have ended; completions, reports and responses say
  what happened; a run ends unless a human keeps a critical tool waiting.
- *Discussions*: one loop leads; a cancelled one is quiet; completed means synthesized;
  every loop ends.
- *Intake*: one open workflow per correlation id; a conversation that was created starts.
- *Memory*: no value is lost or doubled on its way between the tiers, nothing in use is
  removed, nothing worthy is left behind; a document has all its text.
- *Audit trail*: an accepted record is in exactly one of the two tables.
- *Files and machine*: overlapping calls keep each other's data; a copy is complete before
  its source goes; an answer says what was applied.

## 2. The modules

| Module | Models | Composes |
|---|---|---|
| `Ledger` | status sets, the transition table, the dependency query, the completion test | - |
| `WorkflowLifecycle` | abstract: a row whose status follows the table | `Ledger` |
| `CooperativeEngine` | Mode A: loops, callers, workers, failures, crash, for one row | `Ledger`, implements `WorkflowLifecycle` |
| `MCCooperativeEngine` | instances for TLC | `CooperativeEngine` |
| `CooperativeEngineProofs` | theorems | `CooperativeEngine` |
| `EventBus` | one stream, its group, dead letters, subscribers, replays | - |
| `MCEventBus`, `EventBusProofs` | symmetry for TLC; theorems | `EventBus` |
| `Outbox` | abstract: an at-least-once outbox | - |
| `TaskSync` | queue table, hooks, worker | implements `Outbox` |
| `TaskSyncProofs` | theorems | `TaskSync` |
| `StepLists` | lists of steps, their dependencies as edges, what an order of them is | - |
| `StepOrder` | `_topological_sort`, statement by statement | `StepLists` |
| `MCStepOrder`, `StepOrderProofs` | lists for TLC; theorems | `StepOrder` |
| `ApprovalGate` | `evaluate` and the overrides, for callers with a request each | - |
| `PipelineRunner` | the loops of the pipelines, a run's steps, start and stop | `ApprovalGate`, `StepLists` |
| `ToolCalls` | `invoke_tool` beside the pipelines, overrides, specification and properties | `PipelineRunner` |
| `MCToolCalls`, `ToolCallsProofs` | an instance for TLC; theorems | `ToolCalls` |
| `Discussion` | Mode B: loops, callers, agents, the novelty watchdog, for one row | `Ledger` |
| `MCDiscussion`, `DiscussionProofs` | an instance for TLC; theorems | `Discussion` |
| `Memory`, `MCMemory`, `MemoryProofs` | working memory and `memory_entries`, maintenance runs; theorems | - |
| `AuditTrail` | insert and archive under READ COMMITTED | - |
| `PlexTransfer` | `transfer_to_plex`, `purge_completed` | - |
| `Intake` | bridge client, message handler, session classifier | `Ledger` |
| `Watchdogs` | token, velocity and receipt watchdogs as Mode A asks them | - |
| `Startup` | setup wizard, gateway lifespan, readiness probe | - |
| `ComputeRouting` | `set_compute_routing`, `intake_compute_routing` | - |
| `HardwareControl` | `set_power_profile`, `set_fan_curve` | - |
| `Documents` | `chunk_text`, documents and their chunks in the hub | - |
| `MediaSorter` | the downloader's requests and the sorter's runs | - |
| `PostProcess` | the post-processor, by hand and in watch mode | - |
| `Services` | the ten from `AuditTrail` on, one at a time | these ten |
| `MCServices`, `ServicesProofs` | values for TLC; theorems | `Services` |

### CooperativeEngine

One workflow row; rows share nothing. A coroutine is a dispatch loop or a caller.
`pc[t]` names the `await` coroutine `t` is suspended at and a step is that await
completing, with the Python up to the next. `update_workflow_status` takes three
steps: `SelectStatus` (SELECT and table lookup), `UpdateStatus` (the UPDATE, which
has no guard but the id), and the caller's reaction to the result (`LoopCompletes`,
`LoopSuspended`, `SpawnLoop`, `ClientReturns` ...). `todo` is the loop's list of
queried items, read before the callbacks and used after them. Receipts are stored in
one statement and applied in another. `LoopRaises`, `ClientRaises` and
`ReceiptRaises` are any await raising (database or callback); `Crash` forgets all
tasks and keeps the ledger, as nothing restarts loops. The watchdogs only read; their
verdict is a choice from `Alarms`. "assigned" and "in_progress" are one status because
no query tells them apart. A worker has one answer per item on its way.

### EventBus

`pc[c]` of a consumer: `read` (XREADGROUP), `next` (decode and yield), `body` (the
caller's loop body runs), `ack` (XACK), `dead` (XADD to the dead letters). A batch is
the interval `cur[c] .. upto[c]`. Every command may raise with or without having
taken effect; bodies may raise, which closes the generator at its `yield`; consumers
and replays may stop anywhere. Redis is external and modelled from the commands the
code sends. Pending lists are never read again, because no code does.

### TaskSync

A hook takes its timestamp (`Stamp`) and commits its row (`Commit`) in two steps, so
two hooks may commit out of order. The worker polls the oldest `Limit` unsynced
rows, publishes them one by one, stops at the first that fails, and marks the ones
published in one statement. Crashes and SQLite errors end `run()`.
Timestamps are distinct and monotone: the clock is not set back between two hooks.

### StepOrder

`_topological_sort` has no await; its steps are modelled one by one all the same,
because what it does between them is the point. The code keeps a list of dependents
per tool; here an entry of such a list is the edge it was made from (step, index in
`depends_on`), and the list the set of these edges taken in that order. `Validate` is
the loop over references and the counting, `Enqueue` the comprehension that fills the
queue, `Pop` and `Release` the two loops of Kahn's algorithm, `Finish` the comparison
of lengths, `Returned` the final lookup by tool. `StepLists!IsOrderOf` and `Cyclic` are the
reference definitions the result is checked against.

### ApprovalGate, PipelineRunner, ToolCalls

`pc[p]` is the await the loop of pipeline `p` is suspended at: `wait` for a trigger,
`human` in the gate, `audit`, `handler`, `event`, `complete`. `plan[p]` are the
positions of the steps still to be ended; steps of unregistered tools are skipped when
the run begins. The order of a run is *any* order that `IsOrderOf` allows:
`StepOrder` shows that the code's order is one of them, and that is how the modules
compose. A failed attempt of `_run_with_retries` stays at its await, the back-off
included. `Proceed` is the code between two steps: it takes the next step up to its
first await, so a low risk is approved without one. `rpc[r]` is the await of a
request; `invoke_tool` audits and publishes before the handler, a pipeline step calls the
handler first and logs what fails. In the gate, `Evaluate` is the code up to the
callback's await; the answer, the time-out of a high risk, a `TimeoutError` the callback
itself raises and any other exception are actions. The deployed gateway builds its gate without
a callback (`gateway/app.py:118`), which denies every high or critical risk at once;
the model has the constant `HasCallback` for it, and the run sets it, since a gate
without callback never waits.

`bus` is what `get_event_bus` gives, settled when the gateway starts: the bus of the modules above, or, where
`REDIS_URL` is not set, the package is missing or the first ping fails (`gateway/app.py:121-138`), a
`_NoopEventBus` (`gateway/deps.py:20-24`). Its `publish` returns "noop", never raises and writes
nothing, so `Published` leaves no event then and `PublishFails` cannot happen; a gateway without a bus starts no
pipeline runner (`app.py:188`), so only requests move. An "ok" therefore promises the audit record and
the handler's call always, and an event in the stream only on a Redis bus; `AnswersAreTrue` says both
(`OnRecord`). Runs, starts, faults and overrides are bounded
(`MaxRuns`, `MaxStarts`, `MaxFaults`, `MaxOverrides`).

Pipelines are assumed to name each tool once (`RunnerAssumption`), as all in
`config/pipelines.yaml` do; what the sort does otherwise is the fourth item of section 4.

### Discussion

The same conventions as `CooperativeEngine`: `at[t]` is the await coroutine `t` is at, and
`update_workflow_status` is its SELECT and its UPDATE. A loop's `phase` is its local
variables. `EmitPhase`, `PhaseOver`, `CheckConvergence`, `RunWatchdogs` and `CheckInterrupts` are the
code between two awaits of `_discussion_loop`; agents claim, attack and repair in one statement each, except that an
attack updates the claim (`SubmitAttack`) and inserts its critique later (`AddCritique`), which is
where a loop can see one without the other. The novelty verdict is computed from the notes as
`get_swarm_notes` returns them, newest first; the velocity verdict depends on rates and is
a choice (`Storms`). `OneDiscussion` and `CancelledIsQuiet` are about discussions in which not
both an interrupt and an error occur (`Undisturbed`), see section 3.

### Memory

`promote_working_memory` reads the hash (`StartRun`), then inserts (`Promote`) and
deletes (`RemoveField`) field by field; decay reads the rows and later updates or deletes them
by id; expiry is one statement. Importance is its logarithm, counted in days of fading, which
makes the multiplications additions. Agents write fields while runs are under way; a
field may be JSON, not JSON, or JSON of an unexpected shape. Statements fail and runs are killed.

### Intake, Watchdogs

`Intake` follows a frame from the socket to a workflow: `run_forever` with backoff and
reconnection, the adapter's dispatch by type, `classify` with its two look-ups and
its insert as steps of their own, and the start of a discussion. The receive loop awaits each handler,
so one message is handled at a time; the module shows what follows from that.
Engines and operators move the rows along the ledger's table meanwhile. `Watchdogs` computes
what `CooperativeEngine` takes for a choice: each round of `_run_watchdogs` reads notes,
receipts and items in three queries while agents go on writing, and raises interrupts one
after the other, of which the first alarm ends the round.

### AuditTrail, Documents

PostgreSQL under READ COMMITTED: each statement of a transaction sees what was committed
when it began, so the copy and the deletion of one `archive` may see different rows, and a
deletion skips what another transaction has deleted. `Documents` has `chunk_text` as a recursive
function over the lengths of sentences, and the two calls (`register_document`, `store_chunks`) as separate ones.

### Startup

A wizard gathers values in memory, question by question, and writes the environment file, the
bridge configuration and the marker; every file is truncated and then written, in steps.
A gateway started afterwards looks for what it needs, in the order of its lifespan: Redis, the database pool,
the bridge.

### ComputeRouting, HardwareControl

The handlers run their file operations and processes in threads, so calls interleave at
each of them: read, truncate, write; start of a process, its limits one by one, its end, its
time-out.

The routing file is at first the one in the repository (`Shipped`), which is where
`_COMPUTE_ROUTING_DEFAULT` points, or there is none, which is what an empty path in
`COMPUTE_ROUTING_CONFIG` gives. The shipped file is read as a YAML parser reads it: its last two rules
have a key twice, of which the last counts, so `embedding_npu` has priority 10 instead of 8 and
`rendering_amd_vulkan` the target `cpu`. Its rules have an id each, but are not in the order of their
priorities, although its header promises evaluation "highest priority first": 18 comes after 10. So what holds of a
file that can be read is one rule for an id, and either the shipped text or the order of
priority: the first call that writes the file sorts it, and interviews write it sorted. `rulebook` begins
with the shipped rules, so that a call which loses one of them is found out. Files written by hand are not modelled.

### PlexTransfer, MediaSorter, PostProcess

File trees are sets of files per directory. `shutil.move` is a rename, or a copy, file by file, and a
removal, entry by entry; a subdirectory is listed when the copy comes to it. `rsync
--remove-source-files` copies and removes file by file. Moves fail, processes are killed, two runs
may overlap, and SABnzbd's history and queue are external.

In `PostProcess` a move across file systems has three steps: `BeginMove` opens the copy (the place is in `part`),
`EndCopy` ends it (now file and copy are both whole, and the place is in `doubled`), `Unlink` removes
the file. A failure or a kill is possible before and after each; one between the last two leaves
the file whole twice, for ever. `WholeInOnePlace` counts these: every file has exactly one whole place besides
`part` and `doubled`, and there are no more places in `doubled`, beyond those a run is just about to
unlink, than there were faults. Within one file system `shutil.move` is a rename, which is the three steps at once.

## 3. The runs

| Run | Question | Bounds |
|---|---|---|
| `coop_engine` | dispatch order, single loop, cancellation and announcements under one caller | 2 dependent items, 2 loops, 2 faults, 1 crash; drivers block and skip items |
| `coop_races` | is a suspension explained, when two callers and storms race | 1 item, 2 loops, 2 callers, 1 crash |
| `coop_live` | refinement of `WorkflowLifecycle`, and a running workflow ends | 2 items, 1 caller, 1 fault, no overlapping writers |
| `coop_overlap` | *violation*: cancel against completion | 2 items, 1 caller |
| `bus` | safety of the bus; every message is settled, and stranded only after an error or a stop | 2 consumers, 1 replayer, stream of 3, batches of 2, 1 fault, 1 stop |
| `bus_failed` | *violation*: failed messages are not dead-lettered | 1 message |
| `task_sync` | order of publishing, the refinement of `Outbox`, and liveness | 3 hooks, batches of 2, 2 faults, 2 starts |
| `step_order` | is the result an order, and are errors raised exactly when due | all lists of up to 2 steps over 3 tools, large families of 3 (tools repeat) and of 4 (distinct) |
| `tool_calls` | approvals, dependencies, reports, responses, end of runs | 1 pipeline of 3 steps (one unregistered) or an unsortable one, 1 request, 2 attempts, 2 runs, 2 starts, 2 faults, 1 override |
| `discussion` | one loop, quiet after cancel, completed means synthesized, loops end | 1 claim, 1 critique, 2 rounds, 2 loops, 1 caller with 3 calls, 2 attacks, 1 fault |
| `memory` | lost, doubled, wrongly removed or forgotten values | 2 fields (one may be malformed), 2 rows, 4 days, 1 stored memory, 1 fault |
| `services` | ten parts around the engines, one at a time | see below |

The instances of `services` are in `MCServices`: two calls, a third after them, and one fault in
`ComputeRouting` (three questions, two rules); one download of two files, one of them in
a subdirectory, and three calls for `PlexTransfer`; two copies of a title, two overlapping
runs of three for `MediaSorter`; two wizards and one start for `Startup`; three messages, of
which two share a correlation id, a malformed one, and three moves of rows for `Intake`; two records, two
archives, three days for `AuditTrail`; one document, three texts of one to three
chunks, two callers for `Documents`; one item, two notes, two receipts in three moments for
`Watchdogs`; two calls, two profiles for `HardwareControl`; two downloads of one title with
three files for `PostProcess`. They share nothing in the code either, so one run in which a
behaviour belongs to one part checks each as a run of its own would. `Services` has the
parts and their properties for any constants; its proofs are about the same definitions.

Why the bounds are enough to be interesting: two dependent items are the least for a
dispatch that comes too early or a dependency that fails; two loops the least for
"two at once" (a restart while the old loop is not yet gone); two callers the least
for overlapping transitions. A stream of three with batches of two leaves a
consumer with a message in hand, one to come and one for a competitor. Three hooks with batches of
two leave an event behind a full batch. Four steps are the least for a diamond of
dependencies, and for a cycle behind a sortable part. Two faults exhaust the two attempts of a handler or a
publish; two runs and two starts show that nothing of a run survives into the next,
whether it ended or was cancelled; a pipeline and a request share only the gate and
its overrides, so one of each shows their interference. Two rounds are the least for a discussion that
goes on, a window of two notes the least that a novel one can leave. Two calls overlap, and a third
finds what they left behind. One crash or stop suffices: after it the
process is in a state that any later crash leads to again. Where a set is symmetric
and only safety is checked, TLC uses symmetry. For all safety properties the proofs
(section 5) show the same for any bounds.

Every property has a mutant: a variant of a mapped action, kept next to it and
marked "Faulty variant", with a plausible slip (a guard dropped, an acknowledgement
in a `finally`, a batch only taken when it is full) under which TLC finds the property
violated by the same configuration.

`CHECK_DEADLOCK FALSE` is set where the system may stop: finished workflows, a bound
reached, nobody subscribed.

### Fairness

- *Engines*: an event loop runs every coroutine that is ready, so loop and call steps
  are weakly fair. That workers answer is an assumption (strong fairness of a settling
  receipt, because partial receipts may come between); nobody is obliged to call, and in a
  discussion agents are obliged to nothing: its loops end all the same.
- *Bus*: a running subscription is weakly fair, which assumes that bodies return and
  Redis answers. (A body that waits for the approval of a critical operation may not
  return, see `gate.py:294`; then it is the assumption that fails.) Nobody is obliged
  to subscribe.
- *Task queue*: a running worker is weakly fair; nobody is obliged to start one.
- *Pipelines*: the event loop runs what is ready; handlers, publishes and inserts return
  or raise; the timer of a high risk fires; a cancelled loop is told. Nobody is obliged to answer a
  request, to trigger a pipeline or to stop the runner.
- *Memory*: a timer starts a maintenance run again and again, and a run goes on until it ends
  or is killed; agents and callers are obliged to nothing.

Failures are never fair: nothing is obliged to fail.

### What the runs show, with their limits

`OneLoop`, `CancelledIsStopped` and `AnnouncedIsCompleted` are checked with one caller and without
storms; TLC refutes each of them with a second caller, and with a storm. A storm that a caller
or a watchdog submits suspends the row without the loop being cancelled; the loop
goes on dispatching, and a restart from SUSPENDED gives the workflow a second loop.
`StatusFollowsTable` holds when writers do not overlap; the theorem `FinalSticksTheorem` says what is
left when they do: once no validated UPDATE is on its way, a final status stays.
`RunningEnds` has one exception, `Wedged`: an item behind a failed dependency stays
pending for ever and the loop keeps polling.

`DependenciesEnded` says *ended*, where the code's comment says "must complete
before this step runs" (`core/pipelines/runner.py:110`): a dependency that was denied, whose
handler raised three times, whose approval raised, or whose tool is not registered
does not keep its dependents from running. `CompletionIsTrue` is likewise about steps
that ended; `pipelines:completed` says nothing of success, which is in the
`step_completed` events, if they could be published and unless the gate raised:
a step with an approval error leaves neither an audit row nor an event.

Where a property has a hypothesis, it marks what the code does not protect:

- `OneDiscussion`, `CancelledIsQuiet`: an interrupt suspends the row without the loop being
  stopped; when that loop raises later, it fails the run that was started since, and a third loop may
  be started beside the second. Neither an interrupt nor an error does that alone (`Undisturbed`).
  The attempt to prove both properties found this: it takes four calls, one more than the run has.
- `NothingLost`: `HDEL` removes the field, not the value that was inserted, so a field
  rewritten between the read and the `HDEL` loses the new value. `PromotedOnce`: a failure
  between INSERT and HDEL promotes a value again under another key. `RemovedIsStale` says nothing
  of the decay factors, which compound (section 4, item 6).
- `DependenciesFirst`: drivers insert dependencies first (`DepsFirst`). A dependent inserted before its
  dependency is handed out at once, since a missing row does not block it (`core/orchestration/ledger.py:256-260`).
- `SortedIsOrder`, `ErrorsAreTrue`: the tools are distinct (section 4, item 4).
- `LoopEnds` says that loops end, not that they end for the right reason: what counts as convergence is
  the fourth section's item 11.
- `RulesSurvive`: of two overlapping calls, one may read the file the other has truncated
  and write it back without the rules; that a readable file is the shipped one or in order needs no
  hypothesis. `RecordsKept`: a record written between the two
  statements of an archive, and already older than its cutoff, is deleted without a copy.
- `TransferKeepsAll`: `purge_completed` looks at the modification time only and deletes what
  a transfer is copying. `ReleasesSurvive`: the largest copy wins, and one that was half
  moved looks small, so another run deletes its rest.
- `DownloadsArrive`: the watch counts one history and processes another; a second fetch that
  fails, or a history beyond its hundred entries, leaves counted downloads where they are. A watch and a
  run by hand at work together may each copy a file over the other's.
- `SettingsArrive`: a wizard that dies between truncation and write leaves the
  marker of the one before, and no settings; the privacy of the file survives that too. The names under
  which the database's address is written and read differ (section 4, below the list), and the property leaves it out.
- `AlarmsAreTrue`: notes and receipts are taken to be inserted at the moment of their `created_at`; in the
  code the agent's object carries it, and the insert comes a little later, so a row may appear behind one a
  round has already read.
- `AnswersMatchMachine`: two overlapping calls mix their profiles.
- `RequestsArrive`: a workflow created by a failed handler stays created: whoever asks again
  resumes it, and resuming does not start it; and `list_workflows` shows the classifier a
  window only. `CatalogIsWhole`: a text with fewer chunks than the one before keeps the old
  last chunks.

## 4. Disagreements between code and documentation

1. *Status guarded updates* (`core/orchestration/ledger.py:15-16`): the guard is a
   SELECT, the write a separate UPDATE. `coop_overlap` shows a cancelled workflow
   becoming completed.
2. *Failed messages are routed to the dead letters after MAX_RETRIES*
   (`core/events/bus.py:40-42`): a raising body leaves its message pending for ever.
   `bus_failed`.

The others have no run of their own.

3. *Don't dispatch more work while interrupts are pending*
   (`core/orchestration/workflow.py:265`): the branch sleeps (`:274`) and continues (`:275`) at the
   top of the loop, which dispatches first (`:234`), interrupts or not.
4. *Return steps in dependency-respecting execution order*
   (`core/pipelines/runner.py:47`, `:56`): steps are kept by their tool, so of two with one tool the first is
   dropped and the second returned twice (`:61-62`).
5. *Novelty*: the comment takes the end of the list for the most recent notes
   (`core/orchestration/watchdogs/__init__.py:165-166`); `get_swarm_notes` returns the newest first,
   so the window holds the oldest of what was read.
6. *Decay*: importance is halved every `DECAY_HALF_LIFE_DAYS` (`core/memory/maintenance.py:268`),
   but every run multiplies the stored, already decayed value by the factor for the whole time since
   the last access (`:304-306`), so the runs compound.
7. *Maintenance skips malformed entries* (`:160`): a field that is not JSON is skipped, one that is JSON of
   another shape raises outside the `try` and ends every run before the decay pass.
8. `is_connected` (`core/bridge/ws_client.py:38-40`) is true during the backoff after a session that
   failed: the socket is forgotten only after the sleep (`:78-83`).
9. `agents/system_monitor.yaml:39` says a profile is "Ignored if explicit watt
   parameters are provided"; the code overrides it limit by limit. The values in
   `config/hardware.yaml:64` are read by nothing: the handlers have a copy
   (`core/gateway/builtin_handlers.py:961`).
10. `chunk_text` keeps `max_chunk_tokens` for what is new in a chunk only: the overlap carried
    over always has at least one sentence, so a chunk may exceed it.
11. Convergence counts claims that "haven't been attacked again in this round"
    (`core/orchestration/discussion.py:329`); the code looks at their statuses only, and a
    claim repaired after an attack in this round counts as stable.

Seen while modelling: `gateway/app.py:207-218` constructs
`TaskSyncWorker()` without its bus and calls a `run_forever` it does not have, inside a
`try` that logs at debug level, so the gateway never starts the worker modelled here
(which has its own caller in the tests); it calls `init_orchestration` with an argument
too many (`:208`), which raises into the same kind of `try`, and what `init_orchestration` would
assign, `bridge_client.on_message` (`core/orchestration/gateway.py:92`), is read by nothing; nothing in `core/` sets
`app.state.audit_trail`, so `get_audit_trail` (`gateway/deps.py:62-64`) returns None and in a
deployment `invoke_tool` answers every call of a registered tool with a plain 500 after the gate
(`gateway/app.py:531`), unless the embedding code sets one, as the tests do; in `ToolCalls` this is the branch
`RecordFails`. The wizard writes `POSTGRES_DSN` and `bridge.ws_url`, the gateway reads `DATABASE_URL`
and `bridge.endpoint`. Readiness counts `not_configured` as ok. At the end of its input the
wizard's `_prompt` asks for ever (`setup/wizard.py:426`). `/ws` acknowledges messages that were dropped or could
not be published. A completed workflow that is still fresh answers a new request with the old result
(`orchestration/session.py`). Once tokens have reached the warning, no storm and no absent receipt is
reported any more: the first alarm ends each round. The memory bridge needs an `add()` the hub
has not, and knowledge ingest and two handlers an `add_documents_async` the store has not. The router reads a key nothing
writes. An `int()` of the GPU's watts may raise when the CPU's limits are already set. The
post-processor takes a directory that shares any word with the job's name for the job's,
and never replaces a copy that was not finished. The cron loop sleeps sixty seconds after each check and each run, so it drifts and can pass over a matching
minute although it "checks once per minute" (`core/pipelines/runner.py:301`); pipelines are evaluated under the agent
in the YAML file and requests under the agent that registered the tool, so one override
need not reach both; `prune` and `resolve_interrupt` have no caller in `core/`.

## 5. The proofs

Proved with TLAPS (SMT, Zenon and the temporal prover), for any finite or infinite
sets of parties unless an assumption says otherwise, and any bounds. The only
assumptions are the named ones on the constants, which TLC evaluates in every run.

*CooperativeEngineProofs.* `FinalSticksTheorem` needs no invariant: only UPDATEs write
the status, and the hypothesis excludes one on its way. `TypeCorrect` strengthens
the type invariant with what a coroutine at an UPDATE wants. `SuspendedIsExplained`
needs that whoever is *moving* the workflow to SUSPENDED has recorded the storm
already, before and after the SELECT. `DependenciesFirstTheorem` needs that an
inserted item's dependencies are already rows (drivers list them first, `DepsFirst`)
and that the items a loop has in hand were released when it queried: released is a
history and never shrinks, so a stale `todo` does no harm.
`OneLoop`, `CancelledIsStopped` and `AnnouncedIsCompleted` follow from one invariant, `AloneInv`, under
two hypotheses that the run has too: one caller (`Alone`) and no storm (`Calm`); with a second caller or a
storm each of them fails, see section 3. It says that a loop which may still query or write is the one
in `_active_workflows` and the row is RUNNING (or it only handles an exception after the completion);
that a loop bound to announce finds COMPLETED written, with no caller past its validation; that at most one loop has
an UPDATE on its way, and one that a cancel has overtaken lands on a workflow without
a loop; and that a restart is validated only on a row that no loop works on. They hold for any number of
loops, items and failures.

`StatusFollowsTableTheorem` is the refinement of `WorkflowLifecycle`, step by step: with one
caller, no storm and no cancel the row an UPDATE finds is the one its SELECT validated (`AloneInv`
again), so every step is a transition of the table or a stutter.

`OrphansAreExplainedTheorem` needs neither hypothesis: `Kept` (a running workflow has somebody who
will work on it or end it) is lost only by a crash, a call that breaks off, or an
error in the handler of an error. Every write of RUNNING comes with a caller that spawns a loop, a loop
stops only with a write of another status, and who cancels a loop goes on to write
CANCELLED, so no overlap of callers and loops loses it.

*EventBusProofs.* The inductive invariant (`HandInv`, `PelInv`) says that what the
consumers have in hand are disjoint intervals of handed-out positions; that positions
still to come are pending for their consumer and were never yielded; and that what
is in hand has no dead letter. A read takes an interval above everything handed out,
every other step moves forward in its own interval, so `YieldedOnce`,
`PendingOrAcked`, `OneLetterEach` and, with `AckInv`, `AckedIsHandled` follow.
`CopiedBeforeDeleted` needs that a replayer comes to an XDEL only by its XADD.
`StrandedByFailure` goes through what a consumer lets go of: a step of its that does not
fail acknowledges it or writes its dead letter (`ConsumerAccounts`), and no step of another party
touches what it has in hand (`OthersAccounted`).

*TaskSyncProofs.* The batch in hand is unsynced and ordered (`BatchInv`), the
timestamps of committed rows are ordered like the commits of consecutive hooks
(`StampInv`, `OrderInv`), and what is published and not marked is exactly a prefix of
the batch as long as nothing failed (`OnceInv`). `ImplementsOutboxTheorem` maps every
step to a step of `Outbox` or a stutter. `CopiesCostFaults` counts: an event has a copy for
being in `synced_ids` or marked, and every further one was paid for with a fault
(`CopyInv`), because a publish that returns notes its event and only a fault forgets it.

*StepOrderProofs.* `TypeCorrect` holds for any lists, with any repetitions. For lists
with distinct tools the invariant counts: a tool's in-degree is the number of its edges whose
source is not yet popped or is still among the children to release, and a tool is in
the queue or popped exactly when the count is zero. No tool enters twice, hence
positions are distinct and a result of full length contains every step (`SortedIsOrder`); if the queue
runs dry before, the tools that remain each wait for one of them, which is a cycle, and a set of
waiting tools can never lose its first member, so there is none when it returns
(`ErrorsAreTrue`).

*ToolCallsProofs.* Three layers, each using the one before. `Shape`: types, and what
being suspended at an await implies of the verdict and the plan (at an audit, handler
or event, of a pipeline or a request, the gate has decided; a handler is only awaited
after "approved"), which gives `NothingUnapproved`. `AnswerInv`: for each request, what
it has recorded, published and run by its position, on either bus, which gives `AnswersAreTrue`.
`RunInv`: the plan is the rest of an order of the configured steps and what has ended
its beginning; what ran, and what was told, has ended or is the step in hand; and what
was told is what the gate and the handler did. An order of registered steps lists each once,
dependencies first (`PlanFacts`), so `DependenciesEnded`, `CompletionIsTrue` and
`ReportsAreTrue` follow. That the plan *is* such an order is the result of
*StepOrderProofs*.

*MemoryProofs.* `CarriedInv` says what a run carries: the values in its batch are the last ones of
their fields, and the one about to be removed has been inserted, unless the field was
written since. With `HashInv` (the hash has the last value of a field or none) `NothingLost`
follows, for any shapes of fields and any failures.
`TypeCorrect` is used by the two that follow. `RemovedIsStale` rests on `StaleInv`: a row to be removed is
past half a life, or was touched after it was read; a new row never takes an identity that a run
still holds. `PromotedOnce` rests on `OnceHash` and `OnceRows`, which hold until the first fault:
an inserted value is no newer than the last one written, hash and batch hold no
inserted value except in the field whose `HDEL` is next, and a row's promoted value is in no other row. It needs
that a well-formed write counts one access more, so that a rewritten field is a new value.

*DiscussionProofs.* `CompletedIsSynthesized` needs only that a loop which is about to write
COMPLETED, validated or not, has its packet on record (`SynthesisInv`), and holds for any
callers, failures and crashes. `OneDiscussion` and `CancelledIsQuiet` follow from `AloneInv`, the counterpart
of the engine's: with one caller and `Undisturbed`, a loop that may still announce a phase or write is the
registered one. `OrphansAreExplained` is proved like the engine's, for any callers.

*ServicesProofs.* A behaviour of `Services` is a behaviour of each part: a step is one of that part
or leaves its variables alone (the `Part` lemmas). So each part has an inductive invariant
of its own, over its own actions, and its property is a theorem of the whole.

- *Audit trail*: an archive copies below its cutoff and deletes below it, and what it has deleted
  without having copied was written meanwhile (`PromiseInv`, `DeletionInv`). Of two archives
  that copied one record only one can commit.
- *Plex transfers*: as long as a call met no error, every file is in the library, or still on its lists, or in
  the subdirectory it has not listed; once it removes, all are in the library (`CopyInv`).
- *Startup*: a wizard that overlaps no other has in memory what a truncated file had
  (`WizardHolds`); the addresses of the services are never empty where they are read (`ServicesInv`);
  the marker comes after the file is private (`PrivateInv`).
- *Hardware*: `MachineInv` says for each limit a call sets what its command has made of it so
  far, `ProgressInv` what is still to do; no two commands of one call set one limit.
- *Intake*: of two workflows of one correlation the older one is closed (`OlderClosed`); what the
  classifier saw closed stays so until its insert (`NothingOpens`), because the receive loop
  awaits one handler (`OneHandler`). The case that first failed: a workflow whose handler
  fails before it starts it. It is the newest one, so that it opens beside no other.
- *Post-processing*: between the look at a place and the end of the copy, the place stays free
  (`FreePlaceInv`), because a run that overlaps no other is alone (`OneRunAtWork`); what the
  watch is about to count is tried or in its hands (`CountInv`). The copies beside their originals are
  counted apart (`SpareInv`): while nothing overlaps, the only one without a fault is that of the run at work, and
  whoever ends a run before its `Unlink` spends one.
- *Media sorter*: while no runs overlap and nothing fails, a directory is untouched until the run that
  listed it handles it (`FolderInv`), so the sizes that were compared were those of whole
  releases, and a best copy is left (`WitnessInv`).
- *Documents*: a call that nothing overlaps stores the chunks of the text it has registered
  (`DocumentCallInv`). The chunks of any text cover it, for any sizes (`TextsAreCovered`):
  what `chunk_text` has after some of the sentences has those sentences (`Scans`), and one more
  sentence keeps that (`ScanStep`). This is an induction over the sentences of a text, which
  the theorems about natural numbers do not offer here; it is done with the
  least sentence that breaks it (`LeastNumber`), once the recursive function is known to
  exist (`StepByStep`).
- *Watchdogs*: what a round has read is a beginning of what is there, and what it has not read came
  after it had begun (`ReadInv`); an item about to be called absent was started, is overdue
  and had no receipt when the round began, and nothing later changes that (`AbsentInv`).

- *Compute routing*: a rule's place in the sorted list is the number of the rules that come no
  later; no two rules share one, so every place is taken once (`Places`), and the sort keeps
  the rules (`SortedFacts`). Hence a list without two rules of one id stays such a
  list when a rule is put into it (`UpsertFacts`), and an interview makes such a list
  (`BuildFacts`), and so has the shipped one (`ShippedFacts`), which a sort puts in order:
  a file that can be read has one rule for an id and is the shipped one or in
  order, whatever overlaps or fails. That no rule
  is lost needs, for each point of a call, what it has made of the files so far (`DoingFor`).

*Only model-checked*: liveness (`RunningEnds`, `Settled`, `EventuallySynced`, `RunsEnd`, `LoopEnds`, `WorthyIsPromoted`),
because fairness and ENABLED are out of the prover's reach. Every invariant of a passing run, and every
action property and refinement, is a theorem.

`FinalSticks`, `YieldedOnce`, `OneLetterEach`, `SyncedIsPublished` and `OnceWithoutFaults` are
proved and in no run: each is a consequence the proofs give for any bounds. So are
four that stand beside the liveness properties and say what alone can keep the awaited thing
from happening, or what it may cost: `OrphansAreExplained` of the engine (beside `RunningEnds`) and of
the discussion, `StrandedByFailure` (beside `Settled`) and `CopiesCostFaults` (the price of the
retries of `EventuallySynced`).

## 6. What comes next, and what is not modelled

Possible extensions, in this order: both engines on one ledger row each, over one event bus; several rows in
`Memory` recalled while they decay.

Not modelled:

- *Knowledge ingest*: fetch, chunk, store, one call each; the store method it calls does not exist.
- *Router, registry, views*: stateless look-ups and read-only SQL.
- *Secrets custodian*: reads files and the output of a subprocess and keeps no state.
- *Voice and vision*: clients of external model servers.
- *Other tool handlers and scripts*: one-shot calls of HTTP services and processes.
- *Parts without a caller*: `check_claims`, the resource watchdog and
  `shutdown_orchestration`; what they would do to the modelled state is not a behaviour of this program.
- *Sweep of orphaned chunks*: a foreign key with ON DELETE CASCADE has already removed them.
- In `PostProcess`, the removal of an emptied parent folder; in `Documents`, embeddings, scores and
  how a text is split into sentences; in `MediaSorter`, which names are manga, comics or junk.

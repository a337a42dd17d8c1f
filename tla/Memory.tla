------------------------------- MODULE Memory -------------------------------
(***************************************************************************)
(* The two tiers of agent memory: the working memory that agents keep in a *)
(* Redis hash, and memory_entries in PostgreSQL, between which             *)
(* core/memory/maintenance.py promotes, decays and expires, while callers  *)
(* of core/memory/hub.py store and recall.                                 *)
(*                                                                         *)
(* Importance is kept by its logarithm: an entry that has "faded" by n     *)
(* days has lost the factor 0.5 ^ (n / DECAY_HALF_LIFE_DAYS), so that the  *)
(* multiplications of the decay pass are additions and its floor is a      *)
(* number of days.  Times are days, as in (now - last_accessed).days.      *)
(* Embeddings are left out: an entry is promoted with or without one, and  *)
(* what a recall finds is a choice.  The agents that write the working     *)
(* memory are not in this repository: they create fields, and rewrite them *)
(* with a higher access_count.                                             *)
(***************************************************************************)
EXTENDS Integers, FiniteSets

CONSTANTS
    Entries,          \* fields of one working-memory hash
    Writes,           \* what agents write where: pairs <<field, shape>>
    AccessThreshold,  \* PROMOTION_ACCESS_THRESHOLD
    Important,        \* entries at or above PROMOTION_IMPORTANCE_FLOOR
    HalfLife,         \* DECAY_HALF_LIFE_DAYS
    FloorDays,        \* the days of fading that lead to DECAY_FLOOR
    GraceDays,        \* DECAY_GRACE_DAYS, less than half a life
    Lifetimes,        \* expires_at of stored memories, in days, or Never
    Never,            \* no expires_at
    MaxAccess,        \* bound on access_count
    MaxRows,          \* bound on the rows of memory_entries
    MaxDay,           \* bound on days
    MaxStores,        \* bound on calls of store_memory
    MaxFaults         \* bound on failing statements and killed runs

\* Content, no content, what is not JSON, and JSON that is no object or whose numbers
\* are no numbers.
Shapes == {"good", "empty", "bad", "wrong"}

ASSUME MemoryAssumption ==
    /\ Writes \subseteq Entries \X Shapes
    /\ Important \subseteq Entries
    /\ {AccessThreshold, FloorDays, MaxAccess, MaxDay, MaxStores, MaxFaults} \subseteq Nat
    /\ {HalfLife, MaxRows} \subseteq Nat \ {0}
    /\ GraceDays \in 0 .. HalfLife - 1
    /\ Never \notin Nat
    /\ Lifetimes \subseteq (1 .. MaxDay) \cup {Never}

VARIABLES
    hot,       \* the hash: a field's value, or Gone
    rows,      \* memory_entries, or Free
    pass,      \* where the maintenance run is, "idle" when there is none
    batch,     \* what HGETALL returned and is not handled yet
    doomed,    \* the field whose value is inserted and whose HDEL is next
    updates,   \* rows the decay pass has yet to update, with their new fading
    removable, \* removable_ids
    recalled,  \* rows a recall has selected and will touch
    clock,     \* days, stores and faults so far
    inserted,  \* history: values promoted into memory_entries
    last,      \* history: the last value agents wrote to each field
    overtaken, \* history: fields written while a run held an older value of them
    touched    \* history: rows touched since the decay pass read them

runVars == <<pass, batch, doomed, updates, removable>>
historyVars == <<inserted, last, overtaken, touched>>
vars == <<hot, rows, runVars, recalled, clock, historyVars>>

Gone == [shape |-> "gone", access |-> 0]
Free == [of |-> <<>>, faded |-> 0, idle |-> 0, left |-> Never]

Stored == <<"stored">>
RowIds == 1 .. MaxRows
Values == [shape : Shapes, access : Nat]
Row == [of : (Entries \X Nat) \cup {Stored}, faded : Nat, idle : Nat,
        left : Nat \cup {Never}]

Passes == {"idle", "promote", "decay", "update", "remove", "expire"}

Limits == [days |-> MaxDay, stores |-> MaxStores, faults |-> MaxFaults]

TypeOK ==
    /\ hot \in [Entries -> Values \cup {Gone}]
    /\ rows \in [RowIds -> Row \cup {Free}]
    /\ pass \in Passes
    /\ batch \subseteq Entries \X Values
    /\ doomed \subseteq Entries
    /\ updates \subseteq RowIds \X Nat
    /\ removable \subseteq RowIds
    /\ recalled \subseteq RowIds
    /\ clock \in [DOMAIN Limits -> Nat]
    /\ inserted \subseteq Entries \X Nat
    /\ last \in [Entries -> Values \cup {Gone}]
    /\ overtaken \subseteq Entries
    /\ touched \subseteq RowIds

Init ==
    /\ hot = [e \in Entries |-> Gone]
    /\ rows = [r \in RowIds |-> Free]
    /\ pass = "idle"
    /\ batch = {}
    /\ doomed = {}
    /\ updates = {}
    /\ removable = {}
    /\ recalled = {}
    /\ clock = [l \in DOMAIN Limits |-> 0]
    /\ inserted = {}
    /\ last = [e \in Entries |-> Gone]
    /\ overtaken = {}
    /\ touched = {}

-----------------------------------------------------------------------------
(* Helpers.                                                                *)

Spend(l) == clock[l] < Limits[l] /\ clock' = [clock EXCEPT ![l] = @ + 1]

Live == {r \in RowIds : rows[r] # Free}

\* expires_at IS NULL OR expires_at > NOW().
Unexpired == {r \in Live : rows[r].left # 0}

\* Row ids are never used twice: a freed one that somebody still holds is not free.
FreeIds == RowIds \ (Live \cup recalled \cup removable \cup {u[1] : u \in updates})

\* A row is inserted; importance starts undecayed.
AddRow(of, left) ==
    /\ FreeIds # {}
    /\ LET r == CHOOSE r \in FreeIds : TRUE
       IN  rows' = [rows EXCEPT ![r] = [of |-> of, faded |-> 0, idle |-> 0, left |-> left]]

DeleteRows(S) == rows' = [r \in RowIds |-> IF r \in S THEN Free ELSE rows[r]]

\* The criteria of promote_working_memory.
Worthy(e, v) ==
    /\ v.shape = "good"
    /\ e \in Important \/ v.access >= AccessThreshold

-----------------------------------------------------------------------------
(* Agents, callers of the hub, and time.                                   *)

\* An agent (external) creates a field or rewrites it with one access more; the count
\* in a field that cannot be promoted does not matter.
AgentWrites(e, s) ==
    /\ <<e, s>> \in Writes
    /\ last[e].access < MaxAccess
    /\ hot' = [hot EXCEPT ![e] = [shape |-> s,
                              access |-> last[e].access + IF s = "good" THEN 1 ELSE 0]]
    /\ last' = [last EXCEPT ![e] = hot'[e]]
    /\ overtaken' = IF e \in doomed \cup {b[1] : b \in batch}
                    THEN overtaken \cup {e} ELSE overtaken
    /\ UNCHANGED <<rows, runVars, recalled, clock, inserted, touched>>

\* MemoryHub.store_memory.
StoreMemory(left) ==
    /\ Spend("stores")
    /\ AddRow(Stored, left)
    /\ UNCHANGED <<hot, runVars, recalled, historyVars>>

\* MemoryHub.recall: the query, whose result S depends on the embeddings.
Recall(S) ==
    /\ recalled = {}
    /\ S # {}
    /\ S \subseteq Unexpired
    /\ recalled' = S
    /\ UNCHANGED <<hot, rows, runVars, clock, historyVars>>

\* MemoryHub.recall: the rows that are still there are touched, by id.
Touch ==
    /\ recalled # {}
    /\ rows' = [r \in RowIds |-> IF r \in recalled \cap Live
                                 THEN [rows[r] EXCEPT !.idle = 0] ELSE rows[r]]
    /\ touched' = IF pass = "update" THEN touched \cup recalled ELSE {}
    /\ recalled' = {}
    /\ UNCHANGED <<hot, runVars, clock, inserted, last, overtaken>>

\* A day passes.  A run takes less than TimeoutStartSec, ten minutes, and is taken
\* to see one day only.
NextDay ==
    /\ pass = "idle"
    /\ Spend("days")
    /\ rows' = [r \in RowIds |->
                  IF r \notin Live THEN rows[r]
                  ELSE [rows[r] EXCEPT !.idle = @ + 1,
                                       !.left = IF @ \in Nat \ {0} THEN @ - 1 ELSE @]]
    /\ UNCHANGED <<hot, runVars, recalled, historyVars>>

-----------------------------------------------------------------------------
(* run_maintenance: the promotion pass.                                    *)

\* The timer fires.  The keys are scanned and the hash is read; without Redis the
\* run begins with the decay pass.
StartRun ==
    /\ pass = "idle"
    /\ \/ /\ pass' = "promote"
          /\ batch' = {<<e, hot[e]>> : e \in {f \in Entries : hot[f] # Gone}}
          /\ overtaken' = {e \in overtaken : hot[e] = Gone}
          /\ UNCHANGED clock
       \/ /\ pass' = "decay"
          /\ Spend("faults")
          /\ UNCHANGED <<batch, overtaken>>
    /\ UNCHANGED <<hot, rows, doomed, updates, removable, recalled, inserted, last, touched>>

\* Faulty variant: a field that cannot be parsed ends the pass.
SkipTheRest(b) ==
    /\ pass = "promote"
    /\ b \in batch
    /\ doomed = {}
    /\ ~Worthy(b[1], b[2])
    /\ batch' = IF b[2].shape = "bad" THEN {} ELSE batch \ {b}
    /\ UNCHANGED <<hot, rows, pass, doomed, updates, removable, recalled, clock, historyVars>>

\* Bad JSON, below both thresholds, or no content.
Skip(b) ==
    /\ pass = "promote"
    /\ b \in batch
    /\ doomed = {}
    /\ ~Worthy(b[1], b[2])
    /\ b[2].shape # "wrong"
    /\ batch' = batch \ {b}
    /\ UNCHANGED <<hot, rows, pass, doomed, updates, removable, recalled, clock, historyVars>>

\* float or int or get raises, outside of any try: the run is over.
Stumble(b) ==
    /\ pass = "promote"
    /\ b \in batch
    /\ doomed = {}
    /\ b[2].shape = "wrong"
    /\ pass' = "idle"
    /\ batch' = {}
    /\ UNCHANGED <<hot, rows, doomed, updates, removable, recalled, clock, historyVars>>

\* A value leaves the batch, for its INSERT.
Take(b) ==
    /\ pass = "promote"
    /\ b \in batch
    /\ doomed = {}
    /\ Worthy(b[1], b[2])
    /\ batch' = batch \ {b}

\* The INSERT; its ON CONFLICT never applies, the key is fresh.
Promote(b) ==
    /\ Take(b)
    /\ AddRow(<<b[1], b[2].access>>, Never)
    /\ doomed' = {b[1]}
    /\ inserted' = inserted \cup {<<b[1], b[2].access>>}
    /\ UNCHANGED <<hot, pass, updates, removable, recalled, clock, last, overtaken, touched>>

\* Faulty variant: the field is removed although the INSERT failed.
PromoteFailsRemoving(b) ==
    /\ Take(b)
    /\ Spend("faults")
    /\ doomed' = {b[1]}
    /\ UNCHANGED <<hot, rows, pass, updates, removable, recalled, historyVars>>

\* The INSERT raises, before or after it took effect: the field stays.
PromoteFails(b) ==
    /\ Take(b)
    /\ Spend("faults")
    /\ \/ UNCHANGED <<rows, inserted>>
       \/ /\ AddRow(<<b[1], b[2].access>>, Never)
          /\ inserted' = inserted \cup {<<b[1], b[2].access>>}
    /\ UNCHANGED <<hot, pass, doomed, updates, removable, recalled, last, overtaken, touched>>

\* Faulty variant: nothing is removed from Redis.
KeepField(e) ==
    /\ e \in doomed
    /\ doomed' = {}
    /\ UNCHANGED <<hot, rows, pass, batch, updates, removable, recalled, clock, historyVars>>

\* HDEL, whatever value the field has by now.
RemoveField(e) ==
    /\ e \in doomed
    /\ hot' = [hot EXCEPT ![e] = Gone]
    /\ doomed' = {}
    /\ UNCHANGED <<rows, pass, batch, updates, removable, recalled, clock, historyVars>>

\* HDEL raises, before or after it took effect.
RemoveFieldFails(e) ==
    /\ e \in doomed
    /\ Spend("faults")
    /\ \/ UNCHANGED hot
       \/ hot' = [hot EXCEPT ![e] = Gone]
    /\ doomed' = {}
    /\ UNCHANGED <<rows, pass, batch, updates, removable, recalled, historyVars>>

EndPromotion ==
    /\ pass = "promote"
    /\ batch = {}
    /\ doomed = {}
    /\ pass' = "decay"
    /\ UNCHANGED <<hot, rows, batch, doomed, updates, removable, recalled, clock, historyVars>>

-----------------------------------------------------------------------------
(* run_maintenance: the decay and expiration passes.                       *)

\* The rows in S are read, and what is to become of each is computed.  What was not
\* accessed for half a life is older than DECAY_GRACE_DAYS.
Evaluate(S) ==
    LET faded(r) == rows[r].faded + rows[r].idle
        out == {r \in S : faded(r) > FloorDays}
    IN  /\ removable' = out
        /\ updates' = {<<r, faded(r)>> : r \in S \ out}

\* Faulty variant: every row is read, however recently it was accessed.
SelectAll ==
    /\ pass = "decay"
    /\ Evaluate(Live)
    /\ touched' = {}
    /\ pass' = "update"
    /\ UNCHANGED <<hot, rows, batch, doomed, recalled, clock, inserted, last, overtaken>>

\* The SELECT of decay_stale_entries.
SelectStale ==
    /\ pass = "decay"
    /\ Evaluate({r \in Unexpired : rows[r].idle >= HalfLife /\ rows[r].faded < FloorDays})
    /\ touched' = {}
    /\ pass' = "update"
    /\ UNCHANGED <<hot, rows, batch, doomed, recalled, clock, inserted, last, overtaken>>

\* The UPDATE of one row, with the importance computed from the SELECT.
Decay(u) ==
    /\ pass = "update"
    /\ u \in updates
    /\ updates' = updates \ {u}
    /\ rows' = IF u[1] \in Live THEN [rows EXCEPT ![u[1]].faded = u[2]] ELSE rows
    /\ UNCHANGED <<hot, pass, batch, doomed, removable, recalled, clock, historyVars>>

\* The UPDATE raises; one that took effect is a Decay.
DecayFails(u) ==
    /\ pass = "update"
    /\ u \in updates
    /\ Spend("faults")
    /\ updates' = updates \ {u}
    /\ UNCHANGED <<hot, rows, pass, batch, doomed, removable, recalled, historyVars>>

\* The DELETE of removable_ids, or its failure.
Remove ==
    /\ pass = "update"
    /\ updates = {}
    /\ \/ DeleteRows(removable) /\ UNCHANGED clock
       \/ Spend("faults") /\ UNCHANGED rows
    /\ removable' = {}
    /\ touched' = {}
    /\ pass' = "expire"
    /\ UNCHANGED <<hot, batch, doomed, updates, recalled, inserted, last,
                   overtaken>>

\* expire_entries, or the failure of its DELETE; the run is over.
Expire ==
    /\ pass = "expire"
    /\ \/ DeleteRows(Live \ Unexpired) /\ UNCHANGED clock
       \/ Spend("faults") /\ UNCHANGED rows
    /\ pass' = "idle"
    /\ UNCHANGED <<hot, batch, doomed, updates, removable, recalled, historyVars>>

\* The run is killed, or a statement that nothing guards raises (SCAN, HGETALL, the
\* SELECT): what was done stays done.
Killed ==
    /\ pass # "idle"
    /\ Spend("faults")
    /\ pass' = "idle"
    /\ batch' = {}
    /\ doomed' = {}
    /\ updates' = {}
    /\ removable' = {}
    /\ touched' = {}
    /\ UNCHANGED <<hot, rows, recalled, inserted, last, overtaken>>

-----------------------------------------------------------------------------
RunStep ==
    \/ \E b \in batch : Skip(b) \/ Stumble(b) \/ Promote(b) \/ PromoteFails(b)
    \/ \E e \in Entries : RemoveField(e) \/ RemoveFieldFails(e)
    \/ EndPromotion
    \/ SelectStale
    \/ \E u \in updates : Decay(u) \/ DecayFails(u)
    \/ Remove
    \/ Expire

Next ==
    \/ \E e \in Entries, s \in Shapes : AgentWrites(e, s)
    \/ \E left \in Lifetimes : StoreMemory(left)
    \/ \E S \in SUBSET Live : Recall(S)
    \/ Touch
    \/ NextDay
    \/ StartRun
    \/ RunStep
    \/ Killed

Spec == Init /\ [][Next]_vars

\* The timer fires again and again (twice a day), and a run that is not killed goes
\* on.  Nobody is obliged to write, store or recall, and days need not pass.
FairSpec == Spec /\ WF_vars(StartRun) /\ WF_vars(RunStep)

-----------------------------------------------------------------------------
(* Properties.                                                             *)

\* What an agent wrote last is in the hash or was promoted, whatever fails or is
\* killed, unless it was written while a run already held an older value: HDEL
\* removes the field, not the value that was inserted.
NothingLost ==
    \A e \in Entries :
        (hot[e] = Gone /\ last[e] # Gone /\ e \notin overtaken)
            => <<e, last[e].access>> \in inserted

\* A value is promoted once, unless something failed between INSERT and HDEL: the
\* ON CONFLICT clause prevents no second copy.
PromotedOnce ==
    clock.faults = 0 =>
        \A r, s \in Live : (rows[r].of = rows[s].of /\ rows[r].of # Stored) => r = s

\* The decay pass removes only what nobody accessed for half a life, and what was
\* recalled after the pass had read it: the ids are removed, not the stale rows.
RemovedIsStale ==
    [][\A r \in removable \ removable' :
        (r \in Live /\ rows'[r] = Free) => (rows[r].idle >= HalfLife \/ r \in touched)]_vars

\* A value that deserves promotion gets promoted or rewritten, whatever else is in the
\* hash that is not JSON, as long as there is room (bound: MaxRows).  (A field that is
\* JSON but not as expected ends every run before the decay pass, and before what comes
\* after it in the hash.)
WorthyIsPromoted ==
    \A e \in Entries :
        Worthy(e, hot[e]) ~>
            \/ ~Worthy(e, hot[e])
            \/ FreeIds = {}
            \/ \E f \in Entries : hot[f].shape = "wrong"
=============================================================================

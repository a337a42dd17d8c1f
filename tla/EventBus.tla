------------------------------ MODULE EventBus ------------------------------
(***************************************************************************)
(* core/events/bus.py for one stream, its consumer group and the           *)
(* dead-letter stream.  A consumer is a caller iterating over subscribe(); *)
(* a replayer is a call of replay_dead_letters (POST                       *)
(* /events/dead-letter/replay).  pc names the await each is at, and a step *)
(* is one Redis command taking effect, plus the Python up to the next      *)
(* await.  A command whose reply is lost may have taken effect: every      *)
(* failing step has both outcomes.                                         *)
(*                                                                         *)
(* Redis is external: the log is a sequence, a message-id is a position in *)
(* it, XREADGROUP ">" hands out what lies behind the group's cursor and    *)
(* puts it on the consumer's pending list (PEL), XACK takes it off.  The   *)
(* code never reads a PEL again (no "0", XPENDING or XAUTOCLAIM), and it   *)
(* deletes from the dead-letter stream only.  What is handed out is thus   *)
(* an interval of positions, cur[c] .. upto[c].                            *)
(***************************************************************************)
EXTENDS Integers, Sequences, FiniteSets

CONSTANTS
    Events,      \* event_ids that publishers send
    Malformed,   \* those whose fields from_dict cannot read
    Consumers,   \* consumer_names in the group osmen-workers
    Replayers,   \* calls of replay_dead_letters
    BatchSize,   \* batch_size of subscribe
    Count,       \* count of replay_dead_letters
    MaxLog,      \* bound on the length of the stream
    MaxFaults,   \* bound on commands whose caller sees an error
    MaxStops     \* bound on raising bodies, cancellations and crashes

ASSUME ConstantsAssumption ==
    /\ Malformed \subseteq Events
    /\ BatchSize \in Nat \ {0}
    /\ Count \in Nat \ {0}
    /\ MaxLog \in Nat
    /\ MaxFaults \in Nat
    /\ MaxStops \in Nat

VARIABLES
    log,        \* the stream: the event, and the dead letter it is a copy of or 0
    sent,       \* events whose publish() has returned
    group,      \* does the consumer group exist?
    last,       \* the group's last delivered position
    pel,        \* positions pending for each consumer
    letters,    \* the dead-letter stream: the positions its entries came from
    deleted,    \* indices of dead letters removed with XDEL
    pc,         \* the await each consumer is at, "down" when not subscribed
    cur, upto,  \* the current position and the last of the batch in hand
    rpc,        \* the await each replayer is at
    todo,       \* dead letters of its snapshot a replayer still has to copy
    deleting,   \* delete_replayed of its call
    faults,     \* errors so far
    stops,      \* stopped subscriptions and replays so far
    yielded,    \* history: positions ever yielded to a body
    again,      \* history: positions yielded more than once
    handled,    \* history: positions whose body has returned
    failed,     \* history: positions whose body has raised
    acked       \* history: positions taken off a PEL by XACK

streamVars == <<log, sent, group, last, pel>>
deadVars == <<letters, deleted>>
consumerVars == <<pc, cur, upto>>
replayVars == <<rpc, todo, deleting>>
boundVars == <<faults, stops>>
historyVars == <<yielded, again, handled, failed, acked>>
vars == <<streamVars, deadVars, consumerVars, replayVars, boundVars, historyVars>>

Entry == [event : Events, of : Nat]
Positions == 1 .. Len(log)

TypeOK ==
    /\ log \in Seq(Entry)
    /\ sent \subseteq Events
    /\ group \in BOOLEAN
    /\ last \in 0 .. Len(log)
    /\ pel \in [Consumers -> SUBSET (1 .. last)]
    /\ letters \in Seq(1 .. last)
    /\ deleted \subseteq DOMAIN letters
    /\ pc \in [Consumers -> {"down", "read", "next", "body", "ack", "dead"}]
    /\ cur \in [Consumers -> Nat]
    /\ upto \in [Consumers -> 0 .. last]
    /\ rpc \in [Replayers -> {"idle", "add", "del"}]
    /\ todo \in [Replayers -> SUBSET DOMAIN letters]
    /\ deleting \in [Replayers -> BOOLEAN]
    /\ faults \in 0 .. MaxFaults
    /\ stops \in 0 .. MaxStops
    /\ yielded \subseteq 1 .. last
    /\ again \subseteq 1 .. last
    /\ handled \subseteq 1 .. last
    /\ failed \subseteq 1 .. last
    /\ acked \subseteq 1 .. last

Init ==
    /\ log = <<>>
    /\ sent = {}
    /\ group = FALSE
    /\ last = 0
    /\ pel = [c \in Consumers |-> {}]
    /\ letters = <<>>
    /\ deleted = {}
    /\ pc = [c \in Consumers |-> "down"]
    /\ cur = [c \in Consumers |-> 1]
    /\ upto = [c \in Consumers |-> 0]
    /\ rpc = [r \in Replayers |-> "idle"]
    /\ todo = [r \in Replayers |-> {}]
    /\ deleting = [r \in Replayers |-> FALSE]
    /\ faults = 0
    /\ stops = 0
    /\ yielded = {}
    /\ again = {}
    /\ handled = {}
    /\ failed = {}
    /\ acked = {}

-----------------------------------------------------------------------------
(* What the Redis commands do.                                             *)

\* XADD of event e, a copy of dead letter k or an original (k = 0).
Append1(e, k) ==
    /\ Len(log) < MaxLog
    /\ log' = Append(log, [event |-> e, of |-> k])

\* XREADGROUP ">" COUNT BatchSize for c: what it returns ends at the position n.
BatchEnd == IF Len(log) - last < BatchSize THEN Len(log) ELSE last + BatchSize

ReadGroup(c) ==
    /\ last' = BatchEnd
    /\ pel' = [pel EXCEPT ![c] = @ \cup (last + 1 .. BatchEnd)]

\* XACK of the message in hand.
Acknowledge(c) ==
    /\ pel' = [pel EXCEPT ![c] = @ \ {cur[c]}]
    /\ acked' = acked \cup {cur[c]}

\* XADD of the message in hand to the dead-letter stream.
AddLetter(c) == letters' = Append(letters, cur[c])

Fault == faults < MaxFaults /\ faults' = faults + 1
Stop == stops < MaxStops /\ stops' = stops + 1

-----------------------------------------------------------------------------
(* publish.                                                                *)

Publish(e) ==
    /\ e \notin sent
    /\ Append1(e, 0)
    /\ sent' = sent \cup {e}
    /\ UNCHANGED <<group, last, pel, deadVars, consumerVars, replayVars, boundVars,
                   historyVars>>

\* EventBusError; the caller may publish the same envelope once more.
PublishFails(e) ==
    /\ e \notin sent
    /\ Fault
    /\ Append1(e, 0) \/ UNCHANGED log
    /\ UNCHANGED <<sent, group, last, pel, deadVars, consumerVars, replayVars, stops,
                   historyVars>>

-----------------------------------------------------------------------------
(* subscribe.                                                              *)

\* The consumer goes on with the next message of its batch, or reads again.
Advance(c) ==
    /\ cur' = [cur EXCEPT ![c] = @ + 1]
    /\ pc' = [pc EXCEPT ![c] = IF cur[c] < upto[c] THEN "next" ELSE "read"]
    /\ UNCHANGED upto

\* The generator is gone, and with it what it had not yielded yet.
Unsubscribe(c) ==
    /\ pc' = [pc EXCEPT ![c] = "down"]
    /\ UNCHANGED <<cur, upto>>

\* _ensure_group: BUSYGROUP is as good as success.
Subscribe(c) ==
    /\ pc[c] = "down"
    /\ group' = TRUE
    /\ pc' = [pc EXCEPT ![c] = "read"]
    /\ UNCHANGED <<log, sent, last, pel, deadVars, cur, upto, replayVars, boundVars,
                   historyVars>>

\* _ensure_group swallows every other error as well.
EnsureGroupFails(c) ==
    /\ pc[c] = "down"
    /\ Fault
    /\ group' \in {group, TRUE}
    /\ pc' = [pc EXCEPT ![c] = "read"]
    /\ UNCHANGED <<log, sent, last, pel, deadVars, cur, upto, replayVars, stops, historyVars>>

\* Faulty variant: read with NOACK, so that nothing is pending.
ReadNoAck(c) ==
    /\ pc[c] = "read"
    /\ group
    /\ last < Len(log)
    /\ last' = BatchEnd
    /\ cur' = [cur EXCEPT ![c] = last + 1]
    /\ upto' = [upto EXCEPT ![c] = BatchEnd]
    /\ pc' = [pc EXCEPT ![c] = "next"]
    /\ UNCHANGED <<log, sent, group, pel, deadVars, replayVars, boundVars, historyVars>>

\* One XREADGROUP that finds something; one that finds nothing changes nothing.
Read(c) ==
    /\ pc[c] = "read"
    /\ group
    /\ last < Len(log)
    /\ ReadGroup(c)
    /\ cur' = [cur EXCEPT ![c] = last + 1]
    /\ upto' = [upto EXCEPT ![c] = BatchEnd]
    /\ pc' = [pc EXCEPT ![c] = "next"]
    /\ UNCHANGED <<log, sent, group, deadVars, replayVars, boundVars, historyVars>>

\* EventBusError: the group could not be created.
ReadWithoutGroup(c) ==
    /\ pc[c] = "read"
    /\ ~group
    /\ Unsubscribe(c)
    /\ UNCHANGED <<streamVars, deadVars, replayVars, boundVars, historyVars>>

\* EventBusError: the command or its reply is lost.
ReadFails(c) ==
    /\ pc[c] = "read"
    /\ Fault
    /\ UNCHANGED <<last, pel>> \/ (group /\ ReadGroup(c))
    /\ Unsubscribe(c)
    /\ UNCHANGED <<log, sent, group, deadVars, replayVars, stops, historyVars>>

\* Faulty variant: from_dict is outside the try.
DeliverUnprotected(c) ==
    /\ pc[c] = "next"
    /\ IF log[cur[c]].event \in Malformed
       THEN /\ Unsubscribe(c)
            /\ UNCHANGED <<yielded, again>>
       ELSE /\ pc' = [pc EXCEPT ![c] = "body"]
            /\ yielded' = yielded \cup {cur[c]}
            /\ again' = again \cup ({cur[c]} \cap yielded)
            /\ UNCHANGED <<cur, upto>>
    /\ UNCHANGED <<streamVars, deadVars, replayVars, boundVars, handled, failed, acked>>

\* from_dict, and either the message is yielded or its failure is dead-lettered.
Deliver(c) ==
    /\ pc[c] = "next"
    /\ IF log[cur[c]].event \in Malformed
       THEN /\ pc' = [pc EXCEPT ![c] = "dead"]
            /\ UNCHANGED <<yielded, again>>
       ELSE /\ pc' = [pc EXCEPT ![c] = "body"]
            /\ yielded' = yielded \cup {cur[c]}
            /\ again' = again \cup ({cur[c]} \cap yielded)
    /\ UNCHANGED <<streamVars, deadVars, cur, upto, replayVars, boundVars, handled,
                   failed, acked>>

\* The caller's loop body returns and asks for the next message.
BodyDone(c) ==
    /\ pc[c] = "body"
    /\ handled' = handled \cup {cur[c]}
    /\ pc' = [pc EXCEPT ![c] = "ack"]
    /\ UNCHANGED <<streamVars, deadVars, cur, upto, replayVars, boundVars, yielded,
                   again, failed, acked>>

\* Faulty variant: the XACK is in a finally clause.
BodyRaisesAcking(c) ==
    /\ pc[c] = "body"
    /\ Stop
    /\ failed' = failed \cup {cur[c]}
    /\ Acknowledge(c)
    /\ Unsubscribe(c)
    /\ UNCHANGED <<log, sent, group, last, deadVars, replayVars, faults, yielded, again,
                   handled>>

\* The body raises: its exception leaves the async for, and the generator is
\* closed at the yield with GeneratorExit, which the except clause does not catch.
BodyRaises(c) ==
    /\ pc[c] = "body"
    /\ Stop
    /\ failed' = failed \cup {cur[c]}
    /\ Unsubscribe(c)
    /\ UNCHANGED <<streamVars, deadVars, replayVars, faults, yielded, again, handled,
                   acked>>

Ack(c) ==
    /\ pc[c] = "ack"
    /\ Acknowledge(c)
    /\ Advance(c)
    /\ UNCHANGED <<log, sent, group, last, deadVars, replayVars, boundVars, yielded,
                   again, handled, failed>>

\* XACK raises, and a message that was handled goes to the dead letters.
AckFails(c) ==
    /\ pc[c] = "ack"
    /\ Fault
    /\ Acknowledge(c) \/ UNCHANGED <<pel, acked>>
    /\ pc' = [pc EXCEPT ![c] = "dead"]
    /\ UNCHANGED <<log, sent, group, last, deadVars, cur, upto, replayVars, stops,
                   yielded, again, handled, failed>>

\* _dead_letter; the message stays pending.
DeadLetter(c) ==
    /\ pc[c] = "dead"
    /\ AddLetter(c)
    /\ Advance(c)
    /\ UNCHANGED <<streamVars, deleted, replayVars, boundVars, historyVars>>

\* _dead_letter gives up: the error is logged and swallowed.
DeadLetterFails(c) ==
    /\ pc[c] = "dead"
    /\ Fault
    /\ AddLetter(c) \/ UNCHANGED letters
    /\ Advance(c)
    /\ UNCHANGED <<streamVars, deleted, replayVars, stops, historyVars>>

\* The caller breaks out of its loop, its task is cancelled or its process dies;
\* a command that is on its way may land.
StopConsumer(c) ==
    /\ pc[c] # "down"
    /\ Stop
    /\ \/ UNCHANGED <<last, pel, letters, acked>>
       \/ pc[c] = "read" /\ group /\ ReadGroup(c) /\ UNCHANGED <<letters, acked>>
       \/ pc[c] = "ack" /\ Acknowledge(c) /\ UNCHANGED <<last, letters>>
       \/ pc[c] = "dead" /\ AddLetter(c) /\ UNCHANGED <<last, pel, acked>>
    /\ Unsubscribe(c)
    /\ UNCHANGED <<log, sent, group, deleted, replayVars, faults, yielded, again,
                   handled, failed>>

-----------------------------------------------------------------------------
(* replay_dead_letters.                                                    *)

\* The dead letters XRANGE - + COUNT returns: the oldest Count that are left.
Oldest ==
    LET left == DOMAIN letters \ deleted IN
      {k \in left : Cardinality({j \in left : j < k}) < Count}

\* The letter a replayer is at, the first of its snapshot.
IsCurrent(r, k) == k \in todo[r] /\ \A j \in todo[r] : k <= j

\* The replayer is done with letter k.
ReplayNext(r, k) ==
    /\ todo' = [todo EXCEPT ![r] = @ \ {k}]
    /\ rpc' = [rpc EXCEPT ![r] = IF todo[r] = {k} THEN "idle" ELSE "add"]
    /\ UNCHANGED deleting

\* read_dead_letters finds something to replay.
BeginReplay(r, d) ==
    /\ rpc[r] = "idle"
    /\ Oldest # {}
    /\ todo' = [todo EXCEPT ![r] = Oldest]
    /\ deleting' = [deleting EXCEPT ![r] = d]
    /\ rpc' = [rpc EXCEPT ![r] = "add"]
    /\ UNCHANGED <<streamVars, deadVars, consumerVars, boundVars, historyVars>>

\* XADD of the original fields to the original stream, a new message there.
ReplayAdd(r, k) ==
    /\ rpc[r] = "add"
    /\ IsCurrent(r, k)
    /\ Append1(log[letters[k]].event, k)
    /\ IF deleting[r]
       THEN rpc' = [rpc EXCEPT ![r] = "del"] /\ UNCHANGED <<todo, deleting>>
       ELSE ReplayNext(r, k)
    /\ UNCHANGED <<sent, group, last, pel, deadVars, consumerVars, boundVars, historyVars>>

\* Faulty variant: the XDEL is not skipped when the XADD raises.
ReplayAddFailsOn(r, k) ==
    /\ rpc[r] = "add"
    /\ IsCurrent(r, k)
    /\ Fault
    /\ Append1(log[letters[k]].event, k) \/ UNCHANGED log
    /\ IF deleting[r]
       THEN rpc' = [rpc EXCEPT ![r] = "del"] /\ UNCHANGED <<todo, deleting>>
       ELSE ReplayNext(r, k)
    /\ UNCHANGED <<sent, group, last, pel, deadVars, consumerVars, stops, historyVars>>

\* The XADD raises: counted as an error, and on to the next letter.
ReplayAddFails(r, k) ==
    /\ rpc[r] = "add"
    /\ IsCurrent(r, k)
    /\ Fault
    /\ Append1(log[letters[k]].event, k) \/ UNCHANGED log
    /\ ReplayNext(r, k)
    /\ UNCHANGED <<sent, group, last, pel, deadVars, consumerVars, stops, historyVars>>

ReplayDelete(r, k) ==
    /\ rpc[r] = "del"
    /\ IsCurrent(r, k)
    /\ deleted' = deleted \cup {k}
    /\ ReplayNext(r, k)
    /\ UNCHANGED <<streamVars, letters, consumerVars, boundVars, historyVars>>

ReplayDeleteFails(r, k) ==
    /\ rpc[r] = "del"
    /\ IsCurrent(r, k)
    /\ Fault
    /\ deleted' \in {deleted, deleted \cup {k}}
    /\ ReplayNext(r, k)
    /\ UNCHANGED <<streamVars, letters, consumerVars, stops, historyVars>>

\* The request is cancelled or the gateway dies.
StopReplay(r, k) ==
    /\ rpc[r] # "idle"
    /\ IsCurrent(r, k)
    /\ Stop
    /\ \/ UNCHANGED <<log, deleted>>
       \/ rpc[r] = "add" /\ Append1(log[letters[k]].event, k) /\ UNCHANGED deleted
       \/ rpc[r] = "del" /\ deleted' = deleted \cup {k} /\ UNCHANGED log
    /\ rpc' = [rpc EXCEPT ![r] = "idle"]
    /\ todo' = [todo EXCEPT ![r] = {}]
    /\ UNCHANGED <<sent, group, last, pel, letters, consumerVars, deleting, faults,
                   historyVars>>

-----------------------------------------------------------------------------
(* The specification.                                                      *)

\* What a subscription does once it is running and nothing else fails.
ConsumerStep(c) ==
    \/ Read(c) \/ ReadWithoutGroup(c)
    \/ Deliver(c) \/ BodyDone(c) \/ Ack(c) \/ DeadLetter(c)

ConsumerFailure(c) ==
    \/ EnsureGroupFails(c) \/ ReadFails(c) \/ BodyRaises(c)
    \/ AckFails(c) \/ DeadLetterFails(c) \/ StopConsumer(c)

ReplayStep(r) ==
    \/ \E d \in BOOLEAN : BeginReplay(r, d)
    \/ \E k \in DOMAIN letters :
        \/ ReplayAdd(r, k) \/ ReplayAddFails(r, k)
        \/ ReplayDelete(r, k) \/ ReplayDeleteFails(r, k)
        \/ StopReplay(r, k)

Next ==
    \/ \E e \in Events : Publish(e) \/ PublishFails(e)
    \/ \E c \in Consumers : Subscribe(c) \/ ConsumerStep(c) \/ ConsumerFailure(c)
    \/ \E r \in Replayers : ReplayStep(r)

Spec == Init /\ [][Next]_vars

\* A running subscription keeps polling, bodies return, and Redis answers.
\* Nobody is obliged to subscribe, to publish or to replay.
Fairness == \A c \in Consumers : WF_vars(ConsumerStep(c))

FairSpec == Spec /\ Fairness

-----------------------------------------------------------------------------
(* Properties.                                                             *)

Lettered == {letters[k] : k \in DOMAIN letters}

\* subscribe acknowledges "after successful yield": no message is off the pending
\* list unless the caller's body has run to its end for it, whatever raises, is
\* cancelled or crashes in between.
AckedIsHandled == acked \subseteq handled

\* A message is yielded to one body, once, for good: neither competing consumers
\* nor a consumer that subscribes again after a failure sees it a second time.
YieldedOnce == again = {}

\* No message is lost to Redis: whatever the group has handed out is acknowledged
\* or still on the list of exactly one consumer, so that it could be claimed.
PendingOrAcked ==
    /\ 1 .. last = acked \cup UNION {pel[c] : c \in Consumers}
    /\ \A c \in Consumers :
        /\ pel[c] \cap acked = {}
        /\ \A d \in Consumers \ {c} : pel[c] \cap pel[d] = {}

\* A dead letter is deleted only when a copy of it is back in its stream, although
\* copying and deleting are two commands and two replays may overlap.
CopiedBeforeDeleted ==
    \A k \in deleted : \E p \in Positions : log[p].of = k

\* A message has one dead letter at most, although the XADD that writes it may have
\* landed when it raises: one replay of all letters copies each failed message once.
OneLetterEach ==
    \A j, k \in DOMAIN letters : letters[j] = letters[k] => j = k

Running == {c \in Consumers : pc[c] # "down"}

\* The part of its batch that c still has to deal with.
InHand(c) == IF pc[c] \in {"down", "read"} THEN {} ELSE cur[c] .. upto[c]

\* p was handed to a subscription that has gone, or has moved past it.
Stranded(p) == \E c \in Consumers : p \in pel[c] \ InHand(c)

\* What was handed out is acknowledged, dead-lettered or still to be dealt with by the
\* subscription that has it.
Accounted(p) == p \in acked \cup Lettered \/ \E c \in Consumers : p \in InHand(c)

\* A message that is handed out, and so never read again, is stranded only by an error or
\* a stop of the subscription that has it: not by malformed messages before it, by other
\* consumers, or by replays.
StrandedByFailure ==
    [][\A p \in 1 .. last' :
         (p <= last => Accounted(p)) /\ ~Accounted(p)' =>
             \E c \in Consumers : /\ ConsumerFailure(c)
                                  /\ p \in InHand(c) \/ (p > last /\ pc[c] = "read")]_vars

\* While somebody is subscribed, every message of the stream is acknowledged or
\* dead-lettered: malformed messages never block the ones behind them.  Only after an
\* error or a stop may it be stranded, on the list of a subscription that has gone or
\* could not write the dead letter.
Settled ==
    \A p \in 1 .. MaxLog :
        (p <= Len(log) /\ Running # {})
            ~> \/ p \in acked \cup Lettered
               \/ faults + stops > 0 /\ Stranded(p)
               \/ Running = {}

\* "Failed messages are routed to DEAD_LETTER_STREAM": a message whose body raised
\* gets a dead letter.
FailedIsDeadLettered ==
    \A p \in 1 .. MaxLog : p \in failed ~> p \in Lettered
=============================================================================

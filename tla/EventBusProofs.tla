--------------------------- MODULE EventBusProofs ---------------------------
(***************************************************************************)
(* The safety of EventBus, proved for any number of events, consumers and  *)
(* replayers and any bounds.  The messages the group has handed out form   *)
(* one interval per running consumer, and the intervals never meet: all    *)
(* else follows from what a consumer knows of its own interval.            *)
(***************************************************************************)
EXTENDS EventBus, TLAPS

Busy == {"next", "body", "ack", "dead"}

\* The message in hand is a message of the batch.
BatchInv == \A c \in Consumers : pc[c] \in Busy => cur[c] \in 1 .. upto[c]

\* What is in hand is no other consumer's, has no dead letter, is not yet yielded
\* if it is still to come, and is pending unless its XACK has raised.
HandInv ==
    \A c \in Consumers : pc[c] \in Busy =>
      \A p \in cur[c] .. upto[c] :
        /\ p \notin Lettered
        /\ (p # cur[c] \/ pc[c] = "next") => p \notin yielded
        /\ (p # cur[c] \/ pc[c] # "dead") => p \in pel[c]
        /\ \A d \in Consumers \ {c} : pc[d] \in Busy => p \notin cur[d] .. upto[d]

\* PendingOrAcked, position by position.
PelInv ==
    /\ \A p \in 1 .. last : p \in acked \/ \E c \in Consumers : p \in pel[c]
    /\ \A c \in Consumers : \A p \in pel[c] :
        p \notin acked /\ \A d \in Consumers \ {c} : p \notin pel[d]

\* A body has returned for the message that is being acknowledged.
AckInv == \A c \in Consumers : pc[c] = "ack" => cur[c] \in handled

\* A letter that is being deleted has been copied.
CopyInv ==
    \A r \in Replayers : rpc[r] = "del" =>
      \A k \in DOMAIN letters : IsCurrent(r, k) => \E p \in Positions : log[p].of = k

HandedOut == BatchInv /\ HandInv /\ PelInv
Safe == AckInv /\ AckedIsHandled /\ YieldedOnce /\ OneLetterEach
Copied == CopyInv /\ CopiedBeforeDeleted

IInv == TypeOK /\ HandedOut /\ Safe /\ Copied

-----------------------------------------------------------------------------
(* Facts about the helpers.                                                *)

\* Appending a letter adds its position to the lettered ones, at a new index.
LEMMA LetterAppended ==
    ASSUME TypeOK, NEW c \in Consumers, cur[c] \in 1 .. last, AddLetter(c)
    PROVE  /\ letters' \in Seq(1 .. last)
           /\ Lettered' = Lettered \cup {cur[c]}
           /\ DOMAIN letters' = DOMAIN letters \cup {Len(letters) + 1}
           /\ \A k \in DOMAIN letters : k # Len(letters) + 1 /\ letters'[k] = letters[k]
           /\ letters'[Len(letters) + 1] = cur[c]
  <1>1. /\ letters \in Seq(1 .. last)
        /\ letters' = Append(letters, cur[c])
    BY DEF TypeOK, AddLetter
  <1>2. /\ letters' \in Seq(1 .. last)
        /\ DOMAIN letters' = DOMAIN letters \cup {Len(letters) + 1}
        /\ \A k \in DOMAIN letters : k # Len(letters) + 1 /\ letters'[k] = letters[k]
        /\ letters'[Len(letters) + 1] = cur[c]
    BY <1>1
  <1>3. Lettered' = Lettered \cup {cur[c]}
    BY <1>2 DEF Lettered
  <1>4. QED
    BY <1>2, <1>3

\* A read hands out positions behind the last one, at least one if there is one.
LEMMA BatchIsNew ==
    ASSUME TypeOK
    PROVE  /\ last \in Nat
           /\ BatchEnd \in last .. Len(log)
           /\ last < Len(log) => BatchEnd > last
  <1>1. QED
    BY ConstantsAssumption DEF TypeOK, BatchEnd

\* The stream only grows.
LEMMA StreamGrows ==
    ASSUME TypeOK, NEW e \in Events, NEW k \in Nat, Append1(e, k)
    PROVE  /\ log' \in Seq(Entry)
           /\ Len(log') = Len(log) + 1
           /\ \A p \in Positions : p \in Positions' /\ log'[p] = log[p]
           /\ Len(log') \in Positions' /\ log'[Len(log')].of = k
  <1>1. [event |-> e, of |-> k] \in Entry
    BY DEF Entry
  <1>2. QED
    BY <1>1 DEF TypeOK, Append1, Positions

-----------------------------------------------------------------------------
(* The types.                                                              *)

TypeInv == TypeOK /\ BatchInv

LEMMA InitTypeInv == Init => TypeInv
  <1> SUFFICES ASSUME Init PROVE TypeInv
    OBVIOUS
  <1> USE ConstantsAssumption DEF Init
  <1>1. BatchInv
    BY DEF BatchInv, Busy
  <1>2. log \in Seq(Entry) /\ letters \in Seq(1 .. last) /\ Len(log) = 0
    OBVIOUS
  <1>3. /\ pel \in [Consumers -> SUBSET (1 .. last)]
        /\ pc \in [Consumers -> {"down", "read", "next", "body", "ack", "dead"}]
        /\ cur \in [Consumers -> Nat]
        /\ upto \in [Consumers -> 0 .. last]
    OBVIOUS
  <1>4. /\ rpc \in [Replayers -> {"idle", "add", "del"}]
        /\ todo \in [Replayers -> SUBSET DOMAIN letters]
        /\ deleting \in [Replayers -> BOOLEAN]
    OBVIOUS
  <1>5. /\ sent \subseteq Events /\ group \in BOOLEAN
        /\ deleted \subseteq DOMAIN letters
        /\ last = 0 /\ last \in 0 .. Len(log)
    <2>1. last \in 0 .. Len(log)
      BY <1>2
    <2>2. QED
      BY <2>1
  <1>6. /\ faults \in 0 .. MaxFaults /\ stops \in 0 .. MaxStops
        /\ yielded \subseteq 1 .. last /\ again \subseteq 1 .. last
        /\ handled \subseteq 1 .. last /\ failed \subseteq 1 .. last
        /\ acked \subseteq 1 .. last
    OBVIOUS
  <1>7. TypeOK
    BY <1>2, <1>3, <1>4, <1>5, <1>6 DEF TypeOK
  <1>8. QED
    BY <1>1, <1>7 DEF TypeInv

\* Steps of publishers and replayers leave the consumers alone.
LEMMA PublisherTypes ==
    ASSUME TypeInv, NEW e \in Events, Publish(e) \/ PublishFails(e)
    PROVE  TypeInv'
  <1>1. TypeOK /\ BatchInv
    BY DEF TypeInv
  <1>2. /\ log' \in Seq(Entry)
        /\ Len(log') \in Nat /\ Len(log) \in Nat /\ Len(log') >= Len(log)
    BY <1>1, StreamGrows DEF Publish, PublishFails, TypeOK
  <1>3. /\ UNCHANGED <<group, last, pel, deadVars, consumerVars, replayVars, stops,
                       historyVars>>
        /\ sent' \subseteq Events
        /\ faults' \in 0 .. MaxFaults
    BY <1>1, ConstantsAssumption DEF Publish, PublishFails, Fault, boundVars, TypeOK
  <1>4. TypeOK'
    BY <1>1, <1>2, <1>3 DEF TypeOK, deadVars, consumerVars, replayVars, historyVars
  <1>5. BatchInv'
    BY <1>1, <1>3 DEF BatchInv, consumerVars
  <1>6. QED
    BY <1>4, <1>5 DEF TypeInv

LEMMA ReplayerTypes ==
    ASSUME TypeInv, NEW r \in Replayers, ReplayStep(r)
    PROVE  TypeInv'
  <1> USE ConstantsAssumption DEF TypeInv, TypeOK, Fault, Stop
  <1>1. ASSUME NEW d \in BOOLEAN, BeginReplay(r, d)
        PROVE  TypeInv'
    <2>1. Oldest \subseteq DOMAIN letters
      BY DEF Oldest
    <2>2. QED
      BY <1>1, <2>1 DEF BeginReplay, BatchInv, streamVars, deadVars, consumerVars,
                        boundVars, historyVars
  <1>2. ASSUME NEW k \in DOMAIN letters,
               \/ ReplayAdd(r, k) \/ ReplayAddFails(r, k)
               \/ ReplayDelete(r, k) \/ ReplayDeleteFails(r, k)
               \/ StopReplay(r, k)
        PROVE  TypeInv'
    <2>1. letters[k] \in Positions /\ k \in Nat
      BY DEF Positions
    <2>2. log[letters[k]] \in Entry
      BY <2>1 DEF Positions
    <2>3. log[letters[k]].event \in Events
      BY <2>2 DEF Entry
    <2>4. /\ log' \in Seq(Entry)
          /\ Len(log') \in Nat /\ Len(log) \in Nat /\ Len(log') >= Len(log)
      <3>1. CASE Append1(log[letters[k]].event, k)
        <4>1. \A e \in Events, j \in Nat : Append1(e, j) =>
                log' \in Seq(Entry) /\ Len(log') = Len(log) + 1
          BY StreamGrows
        <4>2. Len(log) \in Nat
          OBVIOUS
        <4>3. log' \in Seq(Entry) /\ Len(log') = Len(log) + 1
          BY <2>1, <2>3, <3>1, <4>1 DEF Append1
        <4>4. QED
          BY <4>2, <4>3
      <3>2. CASE UNCHANGED log
        BY <3>2
      <3>3. QED
        BY <1>2, <3>1, <3>2 DEF ReplayAdd, ReplayAddFails, ReplayDelete, ReplayDeleteFails,
           StopReplay, streamVars
    <2>5. /\ UNCHANGED <<sent, group, last, pel, letters, consumerVars, historyVars>>
          /\ faults' \in 0 .. MaxFaults /\ stops' \in 0 .. MaxStops
          /\ deleted' \subseteq DOMAIN letters
      BY <1>2 DEF ReplayAdd, ReplayAddFails, ReplayDelete, ReplayDeleteFails, StopReplay,
         streamVars, deadVars, boundVars
    <2>6. /\ rpc' \in [Replayers -> {"idle", "add", "del"}]
          /\ todo' \in [Replayers -> SUBSET DOMAIN letters]
          /\ deleting' \in [Replayers -> BOOLEAN]
      <3>1. CASE ReplayNext(r, k)
        BY <3>1 DEF ReplayNext
      <3>2. CASE rpc' = [rpc EXCEPT ![r] = "del"] /\ UNCHANGED <<todo, deleting>>
        BY <3>2
      <3>3. CASE StopReplay(r, k)
        BY <3>3 DEF StopReplay
      <3>4. QED
        BY <1>2, <3>1, <3>2, <3>3 DEF ReplayAdd, ReplayAddFails, ReplayDelete,
           ReplayDeleteFails
    <2>7. TypeOK'
      BY <2>4, <2>5, <2>6 DEF consumerVars, historyVars
    <2>8. QED
      BY <2>5, <2>7 DEF BatchInv, consumerVars
  <1>3. QED
    BY <1>1, <1>2 DEF ReplayStep

\* A consumer has at most one command take effect in a step.
NoCommand == UNCHANGED <<last, pel, letters, acked>>

Command(c) ==
    \/ NoCommand
    \/ ReadGroup(c) /\ UNCHANGED <<letters, acked>>
    \/ pc[c] = "ack" /\ Acknowledge(c) /\ UNCHANGED <<last, letters>>
    \/ pc[c] = "dead" /\ AddLetter(c) /\ UNCHANGED <<last, pel, acked>>

LEMMA CommandTypes ==
    ASSUME TypeInv, NEW c \in Consumers, Command(c)
    PROVE  /\ last' \in last .. Len(log) /\ last \in Nat /\ last' \in Nat
           /\ pel' \in [Consumers -> SUBSET (1 .. last')]
           /\ letters' \in Seq(1 .. last') /\ DOMAIN letters \subseteq DOMAIN letters'
           /\ acked' \subseteq 1 .. last'
  <1> USE DEF TypeInv, TypeOK
  <1>1. CASE NoCommand
    BY <1>1 DEF NoCommand
  <1>2. CASE ReadGroup(c) /\ UNCHANGED <<letters, acked>>
    <2>1. last' = BatchEnd /\ last' \in last .. Len(log) /\ last \in Nat
      BY <1>2, BatchIsNew DEF ReadGroup
    <2>2. 1 .. last \subseteq 1 .. last'
      BY <2>1
    <2>3. pel' \in [Consumers -> SUBSET (1 .. last')]
      <3>1. (last + 1 .. BatchEnd) \subseteq 1 .. last'
        BY <2>1
      <3>2. QED
        BY <1>2, <2>2, <3>1 DEF ReadGroup
    <2>4. letters' \in Seq(1 .. last') /\ DOMAIN letters \subseteq DOMAIN letters'
      BY <1>2, <2>1, <2>2
    <2>5. QED
      BY <1>2, <2>1, <2>2, <2>3, <2>4
  <1>3. last \in last .. Len(log) /\ last \in Nat
    OBVIOUS
  <1>4. ASSUME pc[c] \in {"ack", "dead"}
        PROVE  cur[c] \in 1 .. last
    BY <1>3, <1>4 DEF BatchInv, Busy
  <1>5. CASE pc[c] = "ack" /\ Acknowledge(c) /\ UNCHANGED <<last, letters>>
    <2>1. acked' \subseteq 1 .. last
      BY <1>4, <1>5 DEF Acknowledge
    <2>2. pel' \in [Consumers -> SUBSET (1 .. last)]
      BY <1>5 DEF Acknowledge
    <2>3. QED
      BY <1>3, <1>5, <2>1, <2>2
  <1>6. CASE pc[c] = "dead" /\ AddLetter(c) /\ UNCHANGED <<last, pel, acked>>
    <2>1. /\ letters' \in Seq(1 .. last)
          /\ DOMAIN letters' = DOMAIN letters \cup {Len(letters) + 1}
      <3> HIDE DEF TypeOK
      <3>1. QED
        BY <1>4, <1>6, LetterAppended
    <2>2. QED
      BY <1>3, <1>6, <2>1
  <1>7. QED
    BY <1>1, <1>2, <1>5, <1>6 DEF Command

\* Each step of a consumer has at most one command and notes its message at most.
LEMMA ConsumerFrame ==
    ASSUME TypeInv, NEW c \in Consumers, Subscribe(c) \/ ConsumerStep(c) \/ ConsumerFailure(c)
    PROVE  /\ UNCHANGED <<log, sent, replayVars, deleted>>
           /\ Command(c)
           /\ faults' \in 0 .. MaxFaults /\ stops' \in 0 .. MaxStops /\ group' \in BOOLEAN
           /\ \A d \in Consumers \ {c} :
                pc'[d] = pc[d] /\ cur'[d] = cur[d] /\ upto'[d] = upto[d]
           /\ again' \subseteq yielded \cup again
           /\ UNCHANGED <<yielded, handled, failed>>
              \/ /\ pc[c] \in Busy
                 /\ yielded' \subseteq yielded \cup {cur[c]}
                 /\ handled' \subseteq handled \cup {cur[c]}
                 /\ failed' \subseteq failed \cup {cur[c]}
  <1> USE ConstantsAssumption DEF TypeInv, TypeOK, Busy, Fault, Stop, Command, NoCommand,
      replayVars, streamVars, deadVars, consumerVars, boundVars, historyVars, Unsubscribe,
      Advance
  <1>1. CASE Subscribe(c)
    BY <1>1 DEF Subscribe
  <1>2. CASE EnsureGroupFails(c)
    <2>1. group' \in BOOLEAN
      BY <1>2 DEF EnsureGroupFails
    <2>2. QED
      BY <1>2, <2>1 DEF EnsureGroupFails
  <1>3. CASE Read(c)
    BY <1>3 DEF Read
  <1>4. CASE ReadFails(c) \/ ReadWithoutGroup(c)
    BY <1>4 DEF ReadFails, ReadWithoutGroup
  <1>5. CASE Deliver(c)
    BY <1>5 DEF Deliver
  <1>6. CASE BodyDone(c)
    BY <1>6 DEF BodyDone
  <1>7. CASE BodyRaises(c)
    BY <1>7 DEF BodyRaises
  <1>8. CASE Ack(c)
    BY <1>8 DEF Ack
  <1>9. CASE AckFails(c)
    BY <1>9 DEF AckFails
  <1>10. CASE DeadLetter(c) \/ DeadLetterFails(c)
    BY <1>10 DEF DeadLetter, DeadLetterFails
  <1>11. CASE StopConsumer(c)
    BY <1>11 DEF StopConsumer
  <1>12. QED
    BY <1>1, <1>2, <1>3, <1>4, <1>5, <1>6, <1>7, <1>8, <1>9, <1>10, <1>11
    DEF ConsumerStep, ConsumerFailure

\* What a step makes of the consumer's place in its batch.
LEMMA ConsumerPlace ==
    ASSUME TypeInv, NEW c \in Consumers, Subscribe(c) \/ ConsumerStep(c) \/ ConsumerFailure(c)
    PROVE  /\ pc' \in [Consumers -> {"down", "read", "next", "body", "ack", "dead"}]
           /\ cur' \in [Consumers -> Nat]
           /\ upto' \in [Consumers -> 0 .. last']
           /\ pc'[c] \in Busy => cur'[c] \in 1 .. upto'[c]
           /\ pc'[c] \in Busy =>
                \/ cur'[c] = cur[c] /\ pc[c] \in Busy /\ upto'[c] = upto[c]
                   /\ (pc'[c] = "next" => pc[c] = "next")
                \/ cur'[c] = cur[c] + 1 /\ pc[c] \in Busy /\ upto'[c] = upto[c]
                \/ Read(c)
  <1> USE DEF TypeInv, TypeOK, Busy, replayVars, streamVars, consumerVars, Unsubscribe
  <1>0. last' \in last .. Len(log) /\ last \in Nat /\ last' \in Nat
    BY ConsumerFrame, CommandTypes
  <1>1. CASE Subscribe(c) \/ EnsureGroupFails(c)
    BY <1>0, <1>1 DEF Subscribe, EnsureGroupFails
  <1>2. CASE Read(c)
    BY <1>0, <1>2, BatchIsNew DEF Read, ReadGroup
  <1>3. CASE ReadFails(c) \/ ReadWithoutGroup(c) \/ BodyRaises(c) \/ StopConsumer(c)
    <2>1. pc' = [pc EXCEPT ![c] = "down"] /\ UNCHANGED <<cur, upto>>
      BY <1>3 DEF ReadFails, ReadWithoutGroup, BodyRaises, StopConsumer
    <2>2. upto' \in [Consumers -> 0 .. last']
      BY <1>0, <2>1
    <2>3. QED
      BY <2>1, <2>2
  <1>4. CASE Deliver(c)
    BY <1>0, <1>4 DEF Deliver, BatchInv
  <1>5. CASE BodyDone(c) \/ AckFails(c)
    BY <1>0, <1>5 DEF BodyDone, AckFails, BatchInv
  <1>6. CASE Ack(c) \/ DeadLetter(c) \/ DeadLetterFails(c)
    <2>1. /\ Advance(c) /\ pc[c] \in Busy
          /\ cur[c] \in 1 .. upto[c] /\ upto[c] \in Nat
      BY <1>6 DEF Ack, DeadLetter, DeadLetterFails, BatchInv
    <2>2. upto' \in [Consumers -> 0 .. last']
      BY <1>0, <2>1 DEF Advance
    <2>3. QED
      BY <2>1, <2>2 DEF Advance
  <1>7. QED
    BY <1>1, <1>2, <1>3, <1>4, <1>5, <1>6 DEF ConsumerStep, ConsumerFailure

LEMMA ConsumerTypes ==
    ASSUME TypeInv, NEW c \in Consumers, Subscribe(c) \/ ConsumerStep(c) \/ ConsumerFailure(c)
    PROVE  TypeInv'
  <1>1. TypeOK /\ BatchInv
    BY DEF TypeInv
  <1>2. /\ last' \in last .. Len(log) /\ last \in Nat /\ last' \in Nat
        /\ pel' \in [Consumers -> SUBSET (1 .. last')]
        /\ letters' \in Seq(1 .. last') /\ DOMAIN letters \subseteq DOMAIN letters'
        /\ acked' \subseteq 1 .. last'
    BY ConsumerFrame, CommandTypes
  <1>3. 1 .. last \subseteq 1 .. last'
    BY <1>2
  <1>4. /\ yielded' \subseteq 1 .. last' /\ again' \subseteq 1 .. last'
        /\ handled' \subseteq 1 .. last' /\ failed' \subseteq 1 .. last'
    <2>1. pc[c] \in Busy => cur[c] \in 1 .. last
      BY <1>1 DEF BatchInv, TypeOK
    <2>2. /\ yielded \subseteq 1 .. last /\ again \subseteq 1 .. last
          /\ handled \subseteq 1 .. last /\ failed \subseteq 1 .. last
      BY <1>1 DEF TypeOK
    <2>3. QED
      BY <1>3, <2>1, <2>2, ConsumerFrame
  <1>5. /\ log' \in Seq(Entry) /\ sent' \subseteq Events /\ last' \in 0 .. Len(log')
        /\ rpc' \in [Replayers -> {"idle", "add", "del"}]
        /\ deleting' \in [Replayers -> BOOLEAN]
        /\ deleted' \subseteq DOMAIN letters'
    BY <1>1, <1>2, ConsumerFrame DEF TypeOK, replayVars
  <1>6. todo' \in [Replayers -> SUBSET DOMAIN letters']
    BY <1>1, <1>2, ConsumerFrame DEF TypeOK, replayVars
  <1>7. TypeOK'
    BY <1>2, <1>4, <1>5, <1>6, ConsumerFrame, ConsumerPlace DEF TypeOK
  <1>8. BatchInv'
    BY <1>1, ConsumerFrame, ConsumerPlace DEF BatchInv
  <1>9. QED
    BY <1>7, <1>8 DEF TypeInv

-----------------------------------------------------------------------------
(* The messages handed out.                                                *)

\* What a consumer's command does to the lists, in terms of their members.
LEMMA CommandEffect ==
    ASSUME TypeInv, NEW c \in Consumers, Command(c)
    PROVE  /\ \A d \in Consumers \ {c} : pel'[d] = pel[d]
           /\ \/ NoCommand /\ Lettered' = Lettered
              \/ /\ last' = BatchEnd /\ acked' = acked /\ Lettered' = Lettered
                 /\ pel'[c] = pel[c] \cup (last + 1 .. last')
              \/ /\ pc[c] = "ack" /\ last' = last /\ Lettered' = Lettered
                 /\ pel'[c] = pel[c] \ {cur[c]}
                 /\ acked' = acked \cup {cur[c]}
              \/ /\ pc[c] = "dead" /\ UNCHANGED <<last, pel, acked>>
                 /\ Lettered' = Lettered \cup {cur[c]}
  <1>1. TypeOK /\ BatchInv /\ pel \in [Consumers -> SUBSET (1 .. last)]
    BY DEF TypeInv, TypeOK
  <1>2. UNCHANGED letters => Lettered' = Lettered
    BY DEF Lettered
  <1>3. ASSUME pc[c] = "dead" PROVE cur[c] \in 1 .. last
    BY <1>1, <1>3 DEF BatchInv, Busy, TypeOK
  <1>4. CASE NoCommand
    BY <1>2, <1>4 DEF NoCommand
  <1>5. CASE ReadGroup(c) /\ UNCHANGED <<letters, acked>>
    BY <1>1, <1>2, <1>5 DEF ReadGroup
  <1>6. CASE pc[c] = "ack" /\ Acknowledge(c) /\ UNCHANGED <<last, letters>>
    BY <1>1, <1>2, <1>6 DEF Acknowledge
  <1>7. CASE pc[c] = "dead" /\ AddLetter(c) /\ UNCHANGED <<last, pel, acked>>
    BY <1>1, <1>3, <1>7, LetterAppended
  <1>8. QED
    BY <1>4, <1>5, <1>6, <1>7 DEF Command

\* Only a message that is pending is acknowledged, so PendingOrAcked is kept.
LEMMA PelKept ==
    ASSUME TypeInv, HandInv, PelInv, NEW c \in Consumers, Command(c)
    PROVE  PelInv'
  <1> USE DEF PelInv
  <1>1. /\ \A d \in Consumers : pel[d] \subseteq 1 .. last
        /\ acked \subseteq 1 .. last /\ last \in Nat /\ BatchEnd >= last /\ BatchEnd \in Nat
    BY BatchIsNew DEF TypeInv, TypeOK
  <1>2. pc[c] = "ack" => cur[c] \in pel[c]
    BY DEF HandInv, TypeInv, TypeOK, BatchInv, Busy
  <1>3. CASE UNCHANGED <<last, pel, acked>>
    BY <1>3
  <1>4. CASE last' = BatchEnd /\ acked' = acked /\ pel'[c] = pel[c] \cup (last + 1 .. last')
    <2>1. \A d \in Consumers \ {c} : pel'[d] = pel[d]
      BY CommandEffect
    <2>2. \A p \in 1 .. last' : p \in 1 .. last \/ p \in last + 1 .. last'
      BY <1>1, <1>4
    <2>3. \A p \in last + 1 .. last' : p \notin acked /\ \A d \in Consumers : p \notin pel[d]
      BY <1>1, <1>4
    <2>4. \A p \in 1 .. last' : p \in acked' \/ \E d \in Consumers : p \in pel'[d]
      BY <1>4, <2>1, <2>2
    <2>5. QED
      BY <1>4, <2>1, <2>3, <2>4
  <1>5. CASE pc[c] = "ack" /\ last' = last /\ pel'[c] = pel[c] \ {cur[c]}
             /\ acked' = acked \cup {cur[c]}
    <2>1. \A d \in Consumers \ {c} : pel'[d] = pel[d] /\ cur[c] \notin pel[d]
      BY <1>2, <1>5, CommandEffect
    <2>2. QED
      BY <1>5, <2>1
  <1>6. QED
    BY <1>3, <1>4, <1>5, CommandEffect DEF NoCommand

\* What one consumer does leaves what the others have in hand alone.
LEMMA OthersKept ==
    ASSUME TypeInv, HandInv, PelInv,
           NEW c \in Consumers, Subscribe(c) \/ ConsumerStep(c) \/ ConsumerFailure(c),
           NEW d \in Consumers \ {c}, pc[d] \in Busy,
           NEW p \in cur[d] .. upto[d]
    PROVE  /\ pc'[d] = pc[d] /\ cur'[d] = cur[d] /\ upto'[d] = upto[d]
           /\ p \notin Lettered'
           /\ (p # cur'[d] \/ pc'[d] = "next") => p \notin yielded'
           /\ (p # cur'[d] \/ pc'[d] # "dead") => p \in pel'[d]
           /\ pc'[c] \in Busy => p \notin cur'[c] .. upto'[c]
  <1>1. /\ pc'[d] = pc[d] /\ cur'[d] = cur[d] /\ upto'[d] = upto[d]
        /\ pel'[d] = pel[d]
    BY ConsumerFrame, CommandEffect
  <1>2. pc[c] \in Busy => p # cur[c] /\ p \notin cur[c] .. upto[c]
    BY DEF HandInv, TypeInv, TypeOK, BatchInv
  <1>3. p \in 1 .. last /\ last \in Nat
    BY DEF TypeInv, TypeOK, BatchInv
  <1>4. p \notin Lettered'
    BY <1>2, ConsumerFrame, CommandEffect DEF HandInv, Busy
  <1>5. (p # cur[d] \/ pc[d] = "next") => p \notin yielded'
    BY <1>2, ConsumerFrame DEF HandInv
  <1>6. pc'[c] \in Busy => p \notin cur'[c] .. upto'[c]
    <2>1. CASE Read(c)
      <3>1. cur'[c] = last + 1
        BY <2>1 DEF Read, TypeInv, TypeOK
      <3>2. QED
        BY <1>3, <3>1
    <2>2. QED
      BY <1>2, <2>1, ConsumerPlace DEF TypeInv, TypeOK
  <1>7. QED
    BY <1>1, <1>4, <1>5, <1>6 DEF HandInv

\* What the consumer itself has in hand after a step.
LEMMA OwnKept ==
    ASSUME TypeInv, HandInv, PelInv,
           NEW c \in Consumers, Subscribe(c) \/ ConsumerStep(c) \/ ConsumerFailure(c),
           pc'[c] \in Busy, NEW p \in cur'[c] .. upto'[c]
    PROVE  /\ p \notin Lettered'
           /\ (p # cur'[c] \/ pc'[c] = "next") => p \notin yielded'
           /\ (p # cur'[c] \/ pc'[c] # "dead") => p \in pel'[c]
  <1>1. /\ pc[c] \in {"down", "read", "next", "body", "ack", "dead"}
        /\ pc \in [Consumers -> {"down", "read", "next", "body", "ack", "dead"}]
        /\ cur \in [Consumers -> Nat] /\ upto \in [Consumers -> Nat] /\ last \in Nat
        /\ pel \in [Consumers -> SUBSET (1 .. last)]
        /\ cur[c] \in Nat /\ upto[c] \in Nat
    BY DEF TypeInv, TypeOK
  <1>2. Command(c)
    BY ConsumerFrame
  <1>3. CASE Read(c)
    <2>1. /\ cur'[c] = last + 1 /\ upto'[c] = BatchEnd /\ UNCHANGED <<letters, yielded>>
          /\ p \in pel'[c]
      BY <1>1, <1>3 DEF Read, ReadGroup, deadVars, historyVars
    <2>2. p > last
      BY <1>1, <2>1, BatchIsNew DEF TypeInv
    <2>3. \A k \in DOMAIN letters : letters[k] \in 1 .. last
      BY DEF TypeInv, TypeOK
    <2>4. p \notin Lettered' /\ p \notin yielded'
      BY <1>1, <2>1, <2>2, <2>3 DEF Lettered, TypeInv, TypeOK
    <2>5. QED
      BY <2>1, <2>4
  <1>4. CASE Deliver(c)
    BY <1>1, <1>4 DEF Deliver, HandInv, Busy, streamVars, deadVars, Lettered
  <1>5. CASE BodyDone(c)
    BY <1>1, <1>5 DEF BodyDone, HandInv, Busy, streamVars, deadVars, Lettered
  <1>6. CASE Ack(c)
    BY <1>1, <1>6 DEF Ack, Acknowledge, Advance, HandInv, Busy, deadVars, Lettered
  <1>7. CASE AckFails(c)
    BY <1>1, <1>7 DEF AckFails, Acknowledge, HandInv, Busy, deadVars, Lettered
  <1>8. CASE DeadLetter(c) \/ DeadLetterFails(c)
    <2>1. pc[c] = "dead" /\ Advance(c) /\ UNCHANGED <<streamVars, yielded>>
      BY <1>8 DEF DeadLetter, DeadLetterFails, historyVars
    <2>2. /\ cur'[c] = cur[c] + 1 /\ upto'[c] = upto[c] /\ pel'[c] = pel[c]
          /\ p \in cur[c] .. upto[c] /\ p # cur[c]
      BY <1>1, <2>1 DEF Advance, streamVars
    <2>3. Lettered' \subseteq Lettered \cup {cur[c]}
      BY <1>2, CommandEffect
    <2>4. QED
      BY <2>1, <2>2, <2>3 DEF HandInv, Busy
  <1>9. CASE pc'[c] = "read" \/ pc'[c] = "down"
    BY <1>9 DEF Busy
  <1>10. Subscribe(c) \/ EnsureGroupFails(c) => pc'[c] = "read"
    BY <1>1 DEF Subscribe, EnsureGroupFails
  <1>11. ReadFails(c) \/ ReadWithoutGroup(c) \/ BodyRaises(c) \/ StopConsumer(c) => pc'[c] = "down"
    BY <1>1 DEF ReadFails, ReadWithoutGroup, BodyRaises, StopConsumer, Unsubscribe
  <1>12. QED
    BY <1>3, <1>4, <1>5, <1>6, <1>7, <1>8, <1>9, <1>10, <1>11
    DEF ConsumerStep, ConsumerFailure

LEMMA ConsumerHands ==
    ASSUME TypeInv, HandInv, PelInv,
           NEW c \in Consumers, Subscribe(c) \/ ConsumerStep(c) \/ ConsumerFailure(c)
    PROVE  HandInv' /\ PelInv'
  <1>1. PelInv'
    BY PelKept, ConsumerFrame
  <1>2. ASSUME NEW d \in Consumers, pc'[d] \in Busy, NEW p \in cur'[d] .. upto'[d],
               NEW e \in Consumers \ {d}, pc'[e] \in Busy
        PROVE  p \notin cur'[e] .. upto'[e]
    <2>1. CASE d # c /\ e # c
      BY <1>2, <2>1, ConsumerFrame DEF HandInv
    <2>2. CASE d # c /\ e = c
      BY <1>2, <2>2, OthersKept, ConsumerFrame
    <2>3. CASE d = c
      BY <1>2, <2>3, OthersKept, ConsumerFrame
    <2>4. QED
      BY <2>1, <2>2, <2>3
  <1>3. ASSUME NEW d \in Consumers, pc'[d] \in Busy, NEW p \in cur'[d] .. upto'[d]
        PROVE  /\ p \notin Lettered'
               /\ (p # cur'[d] \/ pc'[d] = "next") => p \notin yielded'
               /\ (p # cur'[d] \/ pc'[d] # "dead") => p \in pel'[d]
    <2>1. CASE d = c
      BY <1>3, <2>1, OwnKept
    <2>2. CASE d # c
      BY <1>3, <2>2, OthersKept, ConsumerFrame
    <2>3. QED
      BY <2>1, <2>2
  <1>4. QED
    BY <1>1, <1>2, <1>3 DEF HandInv

-----------------------------------------------------------------------------
(* What follows for the histories and the letters.                         *)

LEMMA ConsumerSafe ==
    ASSUME TypeInv, HandInv, PelInv, Safe,
           NEW c \in Consumers, Subscribe(c) \/ ConsumerStep(c) \/ ConsumerFailure(c)
    PROVE  Safe'
  <1>1. /\ pc \in [Consumers -> {"down", "read", "next", "body", "ack", "dead"}]
        /\ cur \in [Consumers -> Nat]
    BY DEF TypeInv, TypeOK
  <1>2. Command(c) /\ \A d \in Consumers \ {c} : pc'[d] = pc[d] /\ cur'[d] = cur[d]
    BY ConsumerFrame
  <1>3. handled \subseteq handled'
    BY DEF Subscribe, ConsumerStep, ConsumerFailure, Read, Deliver, BodyDone, Ack,
       DeadLetter, EnsureGroupFails, ReadFails, ReadWithoutGroup, BodyRaises, AckFails, DeadLetterFails,
       StopConsumer, historyVars
  <1>4. pc'[c] = "ack" => cur'[c] \in handled'
    BY <1>1, ConsumerPlace DEF Subscribe, ConsumerStep, ConsumerFailure, Read, Deliver,
       BodyDone, Ack, DeadLetter, EnsureGroupFails, ReadFails, ReadWithoutGroup, BodyRaises, AckFails,
       DeadLetterFails, StopConsumer, Advance, Unsubscribe
  <1>5. AckInv'
    BY <1>2, <1>3, <1>4 DEF Safe, AckInv
  <1>6. AckedIsHandled'
    <2>1. acked' \subseteq acked \cup (IF pc[c] = "ack" THEN {cur[c]} ELSE {})
      BY <1>2, CommandEffect DEF NoCommand
    <2>2. QED
      BY <1>3, <2>1 DEF Safe, AckInv, AckedIsHandled
  <1>7. YieldedOnce'
    <2>1. CASE Deliver(c)
      <3>1. cur[c] \notin yielded
        BY <2>1 DEF Deliver, HandInv, TypeInv, TypeOK, BatchInv, Busy
      <3>2. QED
        BY <2>1, <3>1 DEF Deliver, Safe, YieldedOnce
    <2>2. CASE ~Deliver(c)
      <3>1. again' = again
        BY <2>2 DEF Subscribe, ConsumerStep, ConsumerFailure, Read, BodyDone, Ack,
           DeadLetter, EnsureGroupFails, ReadFails, ReadWithoutGroup, BodyRaises, AckFails, DeadLetterFails,
           StopConsumer, historyVars
      <3>2. QED
        BY <3>1 DEF Safe, YieldedOnce
    <2>3. QED
      BY <2>1, <2>2
  <1>8. OneLetterEach'
    <2>1. CASE UNCHANGED letters
      BY <2>1 DEF Safe, OneLetterEach
    <2>2. CASE pc[c] = "dead" /\ AddLetter(c)
      <3>1. cur[c] \in 1 .. last /\ cur[c] \notin Lettered
        BY <2>2 DEF HandInv, TypeInv, TypeOK, BatchInv, Busy
      <3>2. \A k \in DOMAIN letters : letters[k] # cur[c]
        BY <3>1 DEF Lettered
      <3>3. /\ DOMAIN letters' = DOMAIN letters \cup {Len(letters) + 1}
            /\ \A k \in DOMAIN letters : k # Len(letters) + 1 /\ letters'[k] = letters[k]
            /\ letters'[Len(letters) + 1] = cur[c]
        BY <2>2, <3>1, LetterAppended DEF TypeInv
      <3>4. QED
        BY <3>2, <3>3 DEF Safe, OneLetterEach
    <2>3. QED
      BY <1>2, <2>1, <2>2 DEF Command, NoCommand
  <1>9. QED
    BY <1>5, <1>6, <1>7, <1>8 DEF Safe

\* Consumers leave the replays alone: the stream is as it was, and letters only grow.
LEMMA ConsumerCopied ==
    ASSUME TypeInv, Copied,
           NEW c \in Consumers, Subscribe(c) \/ ConsumerStep(c) \/ ConsumerFailure(c)
    PROVE  Copied'
  <1>1. UNCHANGED <<log, replayVars, deleted>>
    BY ConsumerFrame
  <1>2. \A r \in Replayers : todo[r] \subseteq DOMAIN letters
    BY DEF TypeInv, TypeOK
  <1>3. CopyInv'
    BY <1>1, <1>2 DEF Copied, CopyInv, IsCurrent, Positions, replayVars
  <1>4. CopiedBeforeDeleted'
    BY <1>1 DEF Copied, CopiedBeforeDeleted, Positions
  <1>5. QED
    BY <1>3, <1>4 DEF Copied

\* Publishers and replayers leave alone what HandedOut and Safe speak of.
LEMMA OutsideKept ==
    ASSUME HandedOut, Safe,
           UNCHANGED <<last, pel, letters, consumerVars, yielded, again, handled, acked>>
    PROVE  HandedOut' /\ Safe'
  <1>1. Lettered' = Lettered
    BY DEF Lettered
  <1>2. HandedOut'
    BY <1>1 DEF HandedOut, BatchInv, HandInv, PelInv, consumerVars
  <1>3. Safe'
    BY DEF Safe, AckInv, AckedIsHandled, YieldedOnce, OneLetterEach, consumerVars
  <1>4. QED
    BY <1>2, <1>3

\* Copies stay where they are when the stream grows.
LEMMA CopiesStay ==
    ASSUME TypeOK, UNCHANGED log \/ \E e \in Events, j \in Nat : Append1(e, j), NEW k,
           \E p \in Positions : log[p].of = k
    PROVE  \E p \in Positions' : log'[p].of = k
  <1>1. CASE UNCHANGED log
    BY <1>1 DEF Positions
  <1>2. ASSUME NEW e \in Events, NEW j \in Nat, Append1(e, j)
        PROVE  \A p \in Positions : p \in Positions' /\ log'[p] = log[p]
    BY <1>2, StreamGrows
  <1>3. QED
    BY <1>1, <1>2

LEMMA PublisherCopied ==
    ASSUME TypeOK, Copied, NEW e \in Events, Publish(e) \/ PublishFails(e)
    PROVE  Copied'
  <1>1. /\ UNCHANGED log \/ Append1(e, 0)
        /\ UNCHANGED <<deadVars, replayVars>>
    BY DEF Publish, PublishFails
  <1>2. \A k : (\E p \in Positions : log[p].of = k) => \E p \in Positions' : log'[p].of = k
    BY <1>1, CopiesStay
  <1>3. QED
    BY <1>1, <1>2 DEF Copied, CopyInv, CopiedBeforeDeleted, IsCurrent, deadVars, replayVars

\* A replayer comes to the XDEL of a letter by its XADD only.
LEMMA ReplayerCopied ==
    ASSUME TypeOK, Copied, NEW r \in Replayers, ReplayStep(r)
    PROVE  Copied'
  <1> DEFINE HasCopy(k) == \E p \in Positions : log[p].of = k
  <1>1. CASE \E d \in BOOLEAN : BeginReplay(r, d)
    <2>1. /\ rpc' = [rpc EXCEPT ![r] = "add"]
          /\ todo' = [todo EXCEPT ![r] = Oldest]
          /\ UNCHANGED <<streamVars, deadVars>>
      BY <1>1 DEF BeginReplay
    <2>2. CopyInv'
      BY <2>1 DEF TypeOK, Copied, CopyInv, IsCurrent, Positions, streamVars, deadVars
    <2>3. CopiedBeforeDeleted'
      BY <2>1 DEF Copied, CopiedBeforeDeleted, Positions, streamVars, deadVars
    <2>4. QED
      BY <2>2, <2>3 DEF Copied
  <1>2. ASSUME NEW k \in DOMAIN letters,
               \/ ReplayAdd(r, k) \/ ReplayAddFails(r, k)
               \/ ReplayDelete(r, k) \/ ReplayDeleteFails(r, k)
               \/ StopReplay(r, k)
        PROVE  Copied'
    <2>1. k \in Nat /\ log[letters[k]].event \in Events /\ IsCurrent(r, k)
      <3>1. letters[k] \in Positions /\ k \in Nat
        BY DEF Positions, TypeOK
      <3>2. log[letters[k]] \in Entry
        BY <3>1 DEF Positions, TypeOK
      <3>3. QED
        BY <1>2, <3>1, <3>2 DEF Entry, ReplayAdd, ReplayAddFails, ReplayDelete,
           ReplayDeleteFails, StopReplay
    <2>2. UNCHANGED log \/ Append1(log[letters[k]].event, k)
      BY <1>2 DEF ReplayAdd, ReplayAddFails, ReplayDelete, ReplayDeleteFails, StopReplay,
         streamVars
    <2>3. \A j : HasCopy(j) => HasCopy(j)'
      <3>1. UNCHANGED log \/ \E e \in Events, j \in Nat : Append1(e, j)
        BY <2>1, <2>2
      <3>2. QED
        BY <3>1, CopiesStay
    <2>4. /\ UNCHANGED letters
          /\ \A q \in Replayers \ {r} : rpc'[q] = rpc[q] /\ todo'[q] = todo[q]
      BY <1>2 DEF ReplayAdd, ReplayAddFails, ReplayDelete, ReplayDeleteFails, StopReplay,
         ReplayNext, deadVars, TypeOK
    <2>5. rpc'[r] = "del" => /\ Append1(log[letters[k]].event, k)
                             /\ todo'[r] = todo[r]
      BY <1>2 DEF ReplayAdd, ReplayAddFails, ReplayDelete, ReplayDeleteFails, StopReplay,
         ReplayNext, TypeOK
    <2>6. rpc'[r] = "del" => HasCopy(k)'
      <3>1. \A e \in Events, j \in Nat : Append1(e, j) => \E p \in Positions' : log'[p].of = j
        BY StreamGrows
      <3>2. QED
        BY <2>1, <2>5, <3>1 DEF Append1
    <2>7. CopyInv'
      <3> SUFFICES ASSUME NEW q \in Replayers, rpc'[q] = "del",
                          NEW j \in DOMAIN letters, IsCurrent(q, j)'
                   PROVE  HasCopy(j)'
        BY <2>4 DEF CopyInv
      <3>1. CASE q # r
        <4>1. rpc[q] = "del" /\ IsCurrent(q, j)
          BY <2>4, <3>1 DEF IsCurrent
        <4>2. QED
          BY <2>3, <4>1 DEF Copied, CopyInv
      <3>2. CASE q = r
        <4>1. j = k
          BY <2>1, <2>5, <3>2 DEF IsCurrent, TypeOK
        <4>2. QED
          BY <2>6, <3>2, <4>1
      <3>3. QED
        BY <3>1, <3>2
    <2>8. CopiedBeforeDeleted'
      <3>1. \A j \in deleted' : j \in deleted \/ (j = k /\ rpc[r] = "del")
        BY <1>2 DEF ReplayAdd, ReplayAddFails, ReplayDelete, ReplayDeleteFails, StopReplay,
           deadVars
      <3>2. rpc[r] = "del" => HasCopy(k)
        BY <2>1 DEF Copied, CopyInv
      <3>3. QED
        BY <2>3, <3>1, <3>2 DEF Copied, CopiedBeforeDeleted
    <2>9. QED
      BY <2>7, <2>8 DEF Copied
  <1>3. QED
    BY <1>1, <1>2 DEF ReplayStep

-----------------------------------------------------------------------------
(* The invariant.                                                          *)

LEMMA InitIInv == Init => IInv
  <1> SUFFICES ASSUME Init PROVE IInv
    OBVIOUS
  <1>1. TypeOK /\ BatchInv
    BY InitTypeInv DEF TypeInv
  <1>2. HandInv /\ PelInv
    BY DEF Init, HandInv, PelInv, Busy
  <1>3. Safe
    BY DEF Init, Safe, AckInv, AckedIsHandled, YieldedOnce, OneLetterEach
  <1>4. Copied
    BY DEF Init, Copied, CopyInv, CopiedBeforeDeleted
  <1>5. QED
    BY <1>1, <1>2, <1>3, <1>4 DEF IInv, HandedOut

LEMMA IInvStep == IInv /\ [Next]_vars => IInv'
  <1> SUFFICES ASSUME IInv, [Next]_vars PROVE IInv'
    OBVIOUS
  <1>1. TypeInv /\ HandedOut /\ HandInv /\ PelInv /\ Safe /\ Copied /\ TypeOK
    BY DEF IInv, HandedOut, TypeInv
  <1>2. ASSUME NEW e \in Events, Publish(e) \/ PublishFails(e) PROVE IInv'
    <2>1. UNCHANGED <<last, pel, letters, consumerVars, yielded, again, handled, acked>>
      BY <1>2 DEF Publish, PublishFails, deadVars, historyVars
    <2>2. QED
      BY <1>1, <1>2, <2>1, PublisherTypes, OutsideKept, PublisherCopied DEF IInv, TypeInv
  <1>3. ASSUME NEW c \in Consumers, Subscribe(c) \/ ConsumerStep(c) \/ ConsumerFailure(c)
        PROVE  IInv'
    <2>1. TypeInv' /\ HandInv' /\ PelInv' /\ Safe' /\ Copied'
      BY <1>1, <1>3, ConsumerTypes, ConsumerHands, ConsumerSafe, ConsumerCopied
    <2>2. QED
      BY <2>1 DEF IInv, HandedOut, TypeInv
  <1>4. ASSUME NEW r \in Replayers, ReplayStep(r) PROVE IInv'
    <2>1. UNCHANGED <<last, pel, letters, consumerVars, yielded, again, handled, acked>>
      BY <1>4 DEF ReplayStep, BeginReplay, ReplayAdd, ReplayAddFails, ReplayDelete,
         ReplayDeleteFails, StopReplay, streamVars, deadVars, historyVars
    <2>2. QED
      BY <1>1, <1>4, <2>1, ReplayerTypes, OutsideKept, ReplayerCopied DEF IInv, TypeInv
  <1>5. CASE UNCHANGED vars
    <2>1. TypeOK'
      BY <1>1, <1>5 DEF TypeOK, vars, streamVars, deadVars, consumerVars, replayVars,
         boundVars, historyVars
    <2>2. HandedOut' /\ Safe'
      BY <1>1, <1>5, OutsideKept DEF vars, streamVars, deadVars, historyVars
    <2>3. Copied'
      BY <1>1, <1>5 DEF Copied, CopyInv, CopiedBeforeDeleted, IsCurrent, Positions, vars,
         streamVars, deadVars, replayVars
    <2>4. QED
      BY <2>1, <2>2, <2>3 DEF IInv
  <1>6. QED
    BY <1>2, <1>3, <1>4, <1>5 DEF Next

LEMMA Invariance == Spec => []IInv
  <1>1. QED
    BY InitIInv, IInvStep, PTL DEF Spec

-----------------------------------------------------------------------------
(* The theorems.                                                           *)

\* The variables keep their types, the bounds of the batches among them: a position
\* that the code acknowledges, dead-letters or copies is one the group has handed out.
THEOREM TypeCorrect == Spec => []TypeOK
  <1>1. IInv => TypeOK
    BY DEF IInv
  <1>2. QED
    BY <1>1, Invariance, PTL

\* subscribe acknowledges a message only after the body has returned for it.
THEOREM AckedIsHandledTheorem == Spec => []AckedIsHandled
  <1>1. IInv => AckedIsHandled
    BY DEF IInv, Safe
  <1>2. QED
    BY <1>1, Invariance, PTL

\* However many consumers compete, fail and subscribe again, none sees a message twice.
THEOREM YieldedOnceTheorem == Spec => []YieldedOnce
  <1>1. IInv => YieldedOnce
    BY DEF IInv, Safe
  <1>2. QED
    BY <1>1, Invariance, PTL

\* What the group has handed out is acknowledged, or pending for exactly one consumer.
THEOREM PendingOrAckedTheorem == Spec => []PendingOrAcked
  <1>1. IInv => PendingOrAcked
    <2> SUFFICES ASSUME IInv PROVE PendingOrAcked
      OBVIOUS
    <2>1. /\ \A c \in Consumers : pel[c] \subseteq 1 .. last
          /\ acked \subseteq 1 .. last
      BY DEF IInv, TypeOK
    <2>2. PelInv
      BY DEF IInv, HandedOut
    <2>3. 1 .. last = acked \cup UNION {pel[c] : c \in Consumers}
      <3> DEFINE pending == UNION {pel[c] : c \in Consumers}
      <3>1. \A p : p \in pending <=> \E c \in Consumers : p \in pel[c]
        OBVIOUS
      <3>2. \A p : p \in 1 .. last <=> p \in acked \cup pending
        BY <2>1, <2>2, <3>1 DEF PelInv
      <3>3. QED
        BY <3>2
    <2>4. QED
      BY <2>2, <2>3 DEF PelInv, PendingOrAcked
  <1>2. QED
    BY <1>1, Invariance, PTL

\* Overlapping, failing and interrupted replays delete no letter that is not copied.
THEOREM CopiedBeforeDeletedTheorem == Spec => []CopiedBeforeDeleted
  <1>1. IInv => CopiedBeforeDeleted
    BY DEF IInv, Copied
  <1>2. QED
    BY <1>1, Invariance, PTL

\* No message gets a second dead letter, lost replies included.
THEOREM OneLetterEachTheorem == Spec => []OneLetterEach
  <1>1. IInv => OneLetterEach
    BY DEF IInv, Safe
  <1>2. QED
    BY <1>1, Invariance, PTL

-----------------------------------------------------------------------------
(* Stranded messages.                                                      *)

\* What a consumer does leaves what the others have in hand alone, and takes back no
\* acknowledgement and no letter; it reads when it is at its read.
LEMMA OthersAccounted ==
    ASSUME TypeInv, NEW c \in Consumers, Subscribe(c) \/ ConsumerStep(c) \/ ConsumerFailure(c)
    PROVE  /\ acked \subseteq acked' /\ Lettered \subseteq Lettered'
           /\ \A d \in Consumers \ {c} : InHand(d)' = InHand(d)
           /\ last' = last \/ pc[c] = "read"
  <1>1. \A d \in Consumers \ {c} : InHand(d)' = InHand(d)
    BY ConsumerFrame DEF InHand
  <1>2. acked \subseteq acked' /\ Lettered \subseteq Lettered'
    BY ConsumerFrame, CommandEffect DEF NoCommand
  <1>3. last' = last \/ pc[c] = "read"
    <2> USE DEF streamVars, Acknowledge
    <2>1. CASE Subscribe(c) \/ EnsureGroupFails(c)
      BY <2>1 DEF Subscribe, EnsureGroupFails
    <2>2. CASE ConsumerStep(c)
      BY <2>2 DEF ConsumerStep, Read, ReadWithoutGroup, Deliver, BodyDone, Ack, DeadLetter
    <2>3. CASE ReadFails(c) \/ BodyRaises(c) \/ AckFails(c)
      BY <2>3 DEF ReadFails, BodyRaises, AckFails
    <2>4. CASE DeadLetterFails(c) \/ StopConsumer(c)
      BY <2>4 DEF DeadLetterFails, StopConsumer
    <2>5. QED
      BY <2>1, <2>2, <2>3, <2>4 DEF ConsumerFailure
  <1>4. QED
    BY <1>1, <1>2, <1>3

\* What a consumer that neither fails nor stops lets go of is acknowledged or has a dead
\* letter, and what it takes in hand is what it reads.
LEMMA ConsumerAccounts ==
    ASSUME TypeInv, NEW c \in Consumers, Subscribe(c) \/ ConsumerStep(c),
           NEW p \in 1 .. last', p <= last => Accounted(p)
    PROVE  Accounted(p)'
  <1> USE DEF TypeInv, TypeOK
  <1>1. SUFFICES ASSUME p <= last => p \in InHand(c)
                 PROVE  p \in InHand(c)' \/ p \in acked' \cup Lettered'
    BY OthersAccounted DEF Accounted
  <1>2. CASE Subscribe(c) \/ ReadWithoutGroup(c)
    <2>1. InHand(c) = {} /\ last' = last
      BY <1>2 DEF Subscribe, ReadWithoutGroup, InHand, streamVars
    <2>2. QED
      BY <1>1, <2>1
  <1>3. CASE Read(c)
    <2>1. InHand(c) = {} /\ InHand(c)' = last + 1 .. last'
      BY <1>3 DEF Read, ReadGroup, InHand
    <2>2. QED
      BY <1>1, <2>1, ConsumerFrame, CommandTypes
  <1>4. CASE Deliver(c) \/ BodyDone(c)
    <2>1. UNCHANGED <<last, cur, upto>> /\ pc[c] \in {"next", "body"}
      BY <1>4 DEF Deliver, BodyDone, streamVars
    <2>2. pc'[c] \in {"dead", "body", "ack"}
      BY <1>4 DEF Deliver, BodyDone
    <2>3. InHand(c)' = InHand(c)
      BY <2>1, <2>2 DEF InHand
    <2>4. QED
      BY <1>1, <2>1, <2>3
  <1>5. CASE Ack(c) \/ DeadLetter(c)
    <2>1. cur[c] \in acked' \cup Lettered'
      <3>1. CASE Ack(c)
        BY <3>1 DEF Ack, Acknowledge
      <3>2. CASE DeadLetter(c)
        <4>1. cur[c] \in 1 .. last
          BY <3>2 DEF DeadLetter, BatchInv, Busy
        <4> HIDE DEF TypeOK
        <4>2. TypeOK /\ AddLetter(c)
          BY <3>2 DEF DeadLetter
        <4>3. QED
          BY <4>1, <4>2, LetterAppended
      <3>3. QED
        BY <1>5, <3>1, <3>2
    <2>2. InHand(c) \subseteq {cur[c]} \cup InHand(c)'
      <3>1. Advance(c) /\ pc[c] \in {"ack", "dead"}
        BY <1>5 DEF Ack, DeadLetter
      <3>2. QED
        BY <3>1 DEF Advance, InHand
    <2>3. last' = last
      BY <1>5 DEF Ack, Acknowledge, DeadLetter, streamVars
    <2>4. QED
      BY <1>1, <2>1, <2>2, <2>3
  <1>6. QED
    BY <1>2, <1>3, <1>4, <1>5 DEF ConsumerStep

\* A message that was handed out is stranded only by an error or a stop of the consumer
\* that has it, or is reading it: malformed messages, other consumers and replays leave
\* what a subscription has in hand to be acknowledged or dead-lettered.
THEOREM StrandedByFailureTheorem == Spec => StrandedByFailure
  <1> DEFINE Strands(c, p) == /\ ConsumerFailure(c)
                              /\ p \in InHand(c) \/ (p > last /\ pc[c] = "read")
  <1>1. ASSUME TypeInv, [Next]_vars, NEW p \in 1 .. last', p <= last => Accounted(p),
               ~Accounted(p)'
        PROVE  \E c \in Consumers : Strands(c, p)
    <2>1. ASSUME NEW c \in Consumers, Subscribe(c) \/ ConsumerStep(c)
          PROVE  FALSE
      BY <1>1, <2>1, ConsumerAccounts
    <2>2. ASSUME NEW c \in Consumers, ConsumerFailure(c)
          PROVE  Strands(c, p)
      <3>1. p <= last => p \in InHand(c)
        BY <1>1, <2>2, OthersAccounted DEF Accounted
      <3>2. p > last => pc[c] = "read"
        BY <1>1, <2>2, OthersAccounted DEF TypeInv, TypeOK
      <3>3. p <= last \/ p > last
        <4>1. last' \in Nat /\ last \in Nat
          BY <2>2, ConsumerFrame, CommandTypes, <1>1
        <4>2. p \in Nat
          BY <1>1, <4>1
        <4>3. QED
          BY <4>1, <4>2
      <3>4. QED
        BY <2>2, <3>1, <3>2, <3>3
    <2>3. CASE \/ \E e \in Events : Publish(e) \/ PublishFails(e)
               \/ \E r \in Replayers : ReplayStep(r)
               \/ UNCHANGED vars
      <3>1. UNCHANGED <<last, acked, letters, pc, cur, upto>>
        BY <2>3 DEF Publish, PublishFails, ReplayStep, BeginReplay, ReplayAdd, ReplayAddFails,
           ReplayDelete, ReplayDeleteFails, StopReplay, vars, streamVars, deadVars,
           consumerVars, historyVars
      <3>2. Accounted(p)' <=> Accounted(p)
        BY <3>1 DEF Accounted, Lettered, InHand
      <3>3. QED
        BY <1>1, <3>1, <3>2
    <2>4. QED
      BY <1>1, <2>1, <2>2, <2>3 DEF Next
  <1>2. TypeInv /\ [Next]_vars =>
          [\A p \in 1 .. last' :
             (p <= last => Accounted(p)) /\ ~Accounted(p)' =>
                 \E c \in Consumers : /\ ConsumerFailure(c)
                                      /\ p \in InHand(c) \/ (p > last /\ pc[c] = "read")]_vars
    BY <1>1
  <1>3. IInv => TypeInv
    BY DEF IInv, HandedOut, TypeInv
  <1>4. QED
    BY <1>2, <1>3, Invariance, PTL DEF Spec, StrandedByFailure
=============================================================================

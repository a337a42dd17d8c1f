------------------------------- MODULE Outbox -------------------------------
(***************************************************************************)
(* What core/tasks promises to Taskwarrior's hooks: an event they managed  *)
(* to enqueue is published at least once before it is settled, and never   *)
(* again afterwards.                                                       *)
(***************************************************************************)
EXTENDS Sequences

CONSTANT Events

VARIABLES
    state,   \* of each event: "new", "accepted" or "settled"
    stream   \* what was published, in order, duplicates included

Init ==
    /\ state = [e \in Events |-> "new"]
    /\ stream = <<>>

Accept(e) ==
    /\ state[e] = "new"
    /\ state' = [state EXCEPT ![e] = "accepted"]
    /\ UNCHANGED stream

Deliver(e) ==
    /\ state[e] = "accepted"
    /\ stream' = Append(stream, e)
    /\ UNCHANGED state

\* A batch of events is settled at once.
Settle(done) ==
    /\ \A e \in done : state[e] = "accepted" /\ \E i \in DOMAIN stream : stream[i] = e
    /\ state' = [e \in Events |-> IF e \in done THEN "settled" ELSE state[e]]
    /\ UNCHANGED stream

Next ==
    \/ \E e \in Events : Accept(e) \/ Deliver(e)
    \/ \E done \in SUBSET Events : Settle(done)

Spec == Init /\ [][Next]_<<state, stream>>
=============================================================================

------------------------------- MODULE Intake -------------------------------
(***************************************************************************)
(* Messages from OpenClaw on their way to a workflow: the reconnecting     *)
(* client of core/bridge/ws_client.py, the handler that                    *)
(* core/orchestration/gateway.py builds around BridgeAdapter of            *)
(* core/orchestration/bridge_adapter.py, and SessionClassifier of          *)
(* core/orchestration/session.py, which resumes a workflow or creates one. *)
(*                                                                         *)
(* The client is given that handler when it is constructed.  (The gateway  *)
(* gives it the handler that only publishes on the bus, and                *)
(* init_orchestration replaces an attribute the client does not read.)     *)
(*                                                                         *)
(* The receive loop awaits the handler of one message before it takes the  *)
(* next.  The rows of the workflows are in the order of their creation;    *)
(* the engines and the operators, not modelled here, move their status     *)
(* along the ledger's table.                                               *)
(***************************************************************************)
EXTENDS Integers, Sequences, FiniteSets, Ledger

CONSTANTS
    Messages,     \* frames OpenClaw may send
    Type,         \* type of each message
    Correlation,  \* its correlation id, or "none"
    Class,        \* request_class of its text
    Window,       \* rows list_workflows returns by default
    FreshLimit,   \* completed rows _find_fresh_workflow looks at
    MaxBackoff,   \* max_backoff_seconds
    MaxSends,     \* bound on frames
    MaxMoves,     \* bound on changes of a status
    MaxFaults     \* bound on broken sessions, failing commands and outages

IntakeAssumption ==
    /\ {Window, FreshLimit, MaxSends, MaxMoves, MaxFaults} \subseteq Nat
    /\ MaxBackoff \in Nat \ {0}

VARIABLES
    serverUp,  \* does OpenClaw accept connections?
    socket,    \* the session: closed, open, ended by the server, or broken
    inbox,     \* frames of the session the client has not taken
    client,    \* where run_forever is, and its backoff
    active,    \* is _active_ws set?
    handling,  \* handlers under way
    rows,      \* the workflows; again: has it been started after it failed? (history)
    used       \* frames, moves and faults so far

clientVars == <<serverUp, socket, inbox, client, active>>
vars == <<clientVars, handling, rows, used>>

Limits == [sends |-> MaxSends, moves |-> MaxMoves, faults |-> MaxFaults]

OpenStatus == {"created", "running", "suspended"}

TypeOK ==
    /\ serverUp \in BOOLEAN
    /\ socket \in {"closed", "open", "ended", "broken"}
    /\ inbox \in Seq(Messages)
    /\ client \in [at : {"connect", "receive", "sleep"}, backoff : 1 .. MaxBackoff]
    /\ active \in BOOLEAN
    /\ handling \subseteq [of : Messages, id : 0 .. Len(rows),
                           at : {"lookup", "fresh", "create", "start", "publish"}]
    /\ rows \in Seq([mode : {"cooperative", "discussion"}, class : {Class[m] : m \in Messages},
                     correlation : {Correlation[m] : m \in Messages},
                     status : WorkflowStatus, fresh : BOOLEAN, again : BOOLEAN])
    /\ used \in [DOMAIN Limits -> Nat]

Init ==
    /\ serverUp \in BOOLEAN
    /\ socket = "closed"
    /\ inbox = <<>>
    /\ client = [at |-> "connect", backoff |-> 1]
    /\ active = FALSE
    /\ handling = {}
    /\ rows = <<>>
    /\ used = [b \in DOMAIN Limits |-> 0]

Spend(b) == used[b] < Limits[b] /\ used' = [used EXCEPT ![b] = @ + 1]

Least(a, b) == IF a <= b THEN a ELSE b

-----------------------------------------------------------------------------
(* OpenClaw and the network (external).                                    *)

SendFrame(m) ==
    /\ socket = "open"
    /\ Spend("sends")
    /\ inbox' = Append(inbox, m)
    /\ UNCHANGED <<serverUp, socket, client, active, handling, rows>>

\* The session breaks, or the server closes it; frames that have arrived are still read.
EndSession(how) ==
    /\ socket = "open"
    /\ Spend("faults")
    /\ socket' = how
    /\ UNCHANGED <<serverUp, inbox, client, active, handling, rows>>

ServerStops ==
    /\ serverUp
    /\ Spend("faults")
    /\ serverUp' = FALSE
    /\ socket' = IF socket = "open" THEN "ended" ELSE socket
    /\ UNCHANGED <<inbox, client, active, handling, rows>>

ServerStarts ==
    /\ ~serverUp
    /\ serverUp' = TRUE
    /\ UNCHANGED <<socket, inbox, client, active, handling, rows, used>>

-----------------------------------------------------------------------------
(* run_forever.                                                            *)

\* A session resets the backoff.
Connect ==
    /\ client.at = "connect"
    /\ serverUp
    /\ socket' = "open"
    /\ active' = TRUE
    /\ client' = [at |-> "receive", backoff |-> 1]
    /\ UNCHANGED <<serverUp, inbox, handling, rows, used>>

\* An exception in a cycle: sleep for the backoff.
Failed == client' = [client EXCEPT !.at = "sleep"]

ConnectFails ==
    /\ client.at = "connect"
    /\ ~serverUp
    /\ Failed
    /\ UNCHANGED <<serverUp, socket, inbox, active, handling, rows, used>>

\* The sleep is over; then the backoff doubles and _active_ws is cleared.
Wake ==
    /\ client.at = "sleep"
    /\ client' = [at |-> "connect", backoff |-> Least(2 * client.backoff, MaxBackoff)]
    /\ active' = FALSE
    /\ UNCHANGED <<serverUp, socket, inbox, handling, rows, used>>

\* No frame is left of a session that the server has closed: the next cycle starts at once.
NoticeEnd ==
    /\ client.at = "receive"
    /\ handling = {}
    /\ inbox = <<>>
    /\ socket = "ended"
    /\ socket' = "closed"
    /\ active' = FALSE
    /\ client' = [client EXCEPT !.at = "connect"]
    /\ UNCHANGED <<serverUp, inbox, handling, rows, used>>

\* No frame is left of a broken session: the iterator raises.
NoticeBreak ==
    /\ client.at = "receive"
    /\ handling = {}
    /\ inbox = <<>>
    /\ socket = "broken"
    /\ socket' = "closed"
    /\ Failed
    /\ UNCHANGED <<serverUp, inbox, active, handling, rows, used>>

\* Where handle_message begins: requests go to the classifier; the rest, and requests
\* without a text, have no workflow.
Entry(m) == IF Type[m] \in {"task_request", "conversation"} THEN "lookup" ELSE "publish"

Handler(m) == [of |-> m, id |-> 0, at |-> Entry(m)]

\* Faulty variant: a task is created for each message.
ReceiveAtOnce ==
    /\ client.at = "receive"
    /\ inbox # <<>>
    /\ inbox' = Tail(inbox)
    /\ handling' = handling \cup {Handler(Head(inbox))}
    /\ UNCHANGED <<serverUp, socket, client, active, rows, used>>

\* The next frame; a malformed one is dropped.
Receive ==
    /\ client.at = "receive"
    /\ handling = {}
    /\ inbox # <<>>
    /\ inbox' = Tail(inbox)
    /\ handling' = IF Type[Head(inbox)] = "malformed" THEN {} ELSE {Handler(Head(inbox))}
    /\ UNCHANGED <<serverUp, socket, client, active, rows, used>>

-----------------------------------------------------------------------------
(* The handler of a message.                                               *)

Proceed(h, at, id) ==
    handling' = (handling \ {h}) \cup {[h EXCEPT !.at = at, !.id = id]}

Newest(S) == CHOOSE i \in S : \A j \in S : j <= i

\* _find_resumable_workflow: an open one with this correlation id among the newest rows.
Resumable(c) ==
    {i \in DOMAIN rows : /\ i > Len(rows) - Window
                         /\ rows[i].correlation = c
                         /\ rows[i].status \in OpenStatus}

\* _find_fresh_workflow: a recently completed one of the class among the newest completed.
Fresh(class) ==
    LET completed == {i \in DOMAIN rows : rows[i].status = "completed"}
    IN  {i \in completed : /\ Cardinality({j \in completed : j > i}) < FreshLimit
                           /\ rows[i].class = class
                           /\ rows[i].fresh}

LookUp(h) ==
    /\ h.at = "lookup"
    /\ LET found == IF Correlation[h.of] = "none" THEN {} ELSE Resumable(Correlation[h.of])
       IN  IF found = {} THEN Proceed(h, "fresh", 0) ELSE Proceed(h, "publish", Newest(found))
    /\ UNCHANGED <<clientVars, rows, used>>

LookUpFresh(h) ==
    /\ h.at = "fresh"
    /\ LET found == Fresh(Class[h.of])
       IN  IF found = {} THEN Proceed(h, "create", 0) ELSE Proceed(h, "publish", Newest(found))
    /\ UNCHANGED <<clientVars, rows, used>>

NewRow(m) ==
    [mode |-> IF Type[m] = "conversation" THEN "discussion" ELSE "cooperative",
     class |-> Class[m], correlation |-> Correlation[m], status |-> "created",
     fresh |-> FALSE, again |-> FALSE]

\* A new workflow; the discussion of a conversation is started, a task is not.
Create(h) ==
    /\ h.at = "create"
    /\ rows' = Append(rows, NewRow(h.of))
    /\ Proceed(h, IF Type[h.of] = "conversation" THEN "start" ELSE "publish", Len(rows) + 1)
    /\ UNCHANGED <<clientVars, used>>

\* start_discussion: the status becomes running, if the table allows it.
StartDiscussion(h) ==
    /\ h.at = "start"
    /\ rows' = IF "running" \in valid_transitions[rows[h.id].status]
               THEN [rows EXCEPT ![h.id].status = "running"] ELSE rows
    /\ Proceed(h, "publish", h.id)
    /\ UNCHANGED <<clientVars, used>>

\* The original handler publishes the message on the bus, or fails to and says nothing.
PublishMessage(h) ==
    /\ h.at = "publish"
    /\ handling' = handling \ {h}
    /\ UNCHANGED <<clientVars, rows, used>>

\* A command of the ledger fails: the exception ends the session, and the frames that
\* have arrived are gone.
HandlerRaises(h) ==
    /\ h.at # "publish"
    /\ Spend("faults")
    /\ handling' = handling \ {h}
    /\ socket' = "closed"
    /\ inbox' = <<>>
    /\ Failed
    /\ UNCHANGED <<serverUp, active, rows>>

-----------------------------------------------------------------------------
(* The engines and the clock.                                              *)

Progress(i) ==
    /\ Spend("moves")
    /\ \E s \in valid_transitions[rows[i].status] :
         rows' = [rows EXCEPT ![i].status = s, ![i].fresh = (s = "completed"),
                              ![i].again = @ \/ rows[i].status = "failed"]
    /\ UNCHANGED <<clientVars, handling>>

\* freshness_window seconds pass.
Age(i) ==
    /\ rows[i].fresh
    /\ rows' = [rows EXCEPT ![i].fresh = FALSE]
    /\ UNCHANGED <<clientVars, handling, used>>

-----------------------------------------------------------------------------
HandlerStep ==
    \E h \in handling :
        LookUp(h) \/ LookUpFresh(h) \/ Create(h) \/ StartDiscussion(h) \/ PublishMessage(h)

ClientStep ==
    \/ Connect \/ ConnectFails \/ Wake \/ NoticeEnd \/ NoticeBreak \/ Receive
    \/ HandlerStep

Next ==
    \/ ClientStep
    \/ \E h \in handling : HandlerRaises(h)
    \/ \E m \in Messages : SendFrame(m)
    \/ \E how \in {"ended", "broken"} : EndSession(how)
    \/ ServerStops \/ ServerStarts
    \/ \E i \in DOMAIN rows : Progress(i) \/ Age(i)

Spec == Init /\ [][Next]_vars

-----------------------------------------------------------------------------
(* Properties.                                                             *)

\* Two open workflows never have one correlation id, unless so many were created between
\* them that the older one was out of the classifier's sight, or the older one had failed
\* and was started again: between its look and its insert no other message is handled.
OneOpenPerCorrelation ==
    \A i, j \in DOMAIN rows :
        (/\ i < j /\ j <= i + Window
         /\ rows[i].correlation = rows[j].correlation
         /\ rows[i].correlation # "none"
         /\ {rows[i].status, rows[j].status} \subseteq OpenStatus) => rows[i].again

\* A conversation that was created has its discussion started, unless its handler is
\* still at it or a command failed.  (After a failure the workflow stays created for
\* ever: whoever asks again resumes it, and resuming does not start it.)
ConversationsStart ==
    used.faults = 0 =>
        \A i \in DOMAIN rows :
            (rows[i].mode = "discussion" /\ rows[i].status = "created") =>
                \E h \in handling : h.id = i /\ h.at = "start"

\* Requests find their workflow and get it going.
RequestsArrive == OneOpenPerCorrelation /\ ConversationsStart
=============================================================================

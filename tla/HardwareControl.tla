-------------------------- MODULE HardwareControl --------------------------
(***************************************************************************)
(* set_power_profile and set_fan_curve of core/gateway/builtin_handlers.py *)
(* run ryzenadj, nvidia-smi and nbfc (external) as processes, each for ten *)
(* seconds at most.  A process may change some of its limits and then      *)
(* fail, or be killed when its time is over; two calls may be under way    *)
(* together, and a call whose second command fails does not take the first *)
(* one back.                                                               *)
(***************************************************************************)
EXTENDS Naturals, Sequences, FiniteSets

CONSTANTS
    Calls,      \* calls that may be under way at the same time
    Profiles,   \* _POWER_PROFILES: watts of each limit, by name
    Explicit,   \* parameters in watts a call may give: functions on some of the limits
    Fans,       \* fans nbfc knows
    Speeds,     \* what a call may say for speed_percent
    Auto, None, Bad,  \* speed auto; a parameter that is null; one that is no number
    MaxCalls,   \* bound on calls
    MaxFaults   \* bound on commands that fail

Cpu == {"stapm", "fast", "slow"}
Limits == Cpu \cup {"gpu"}

HardwareAssumption ==
    /\ \A p \in DOMAIN Profiles : Profiles[p] \in [Limits -> Nat]
    /\ \A e \in Explicit : DOMAIN e \subseteq Limits
    /\ Fans \cap Limits = {}
    /\ None \notin Fans \cup DOMAIN Profiles
    /\ {MaxCalls, MaxFaults} \subseteq Nat

VARIABLES
    setting,  \* the limits and speeds of the machine
    call,     \* what each call asked for and how far it is
    last,     \* history: the call that began last
    used      \* calls and faults so far

vars == <<setting, call, last, used>>

Idle == [at |-> "idle", commands |-> <<>>, todo |-> <<>>, left |-> {}, applied |-> {},
         before |-> <<>>, alone |-> FALSE]

Bounds == [calls |-> MaxCalls, faults |-> MaxFaults]

TypeOK ==
    /\ DOMAIN setting = Limits \cup Fans
    /\ \A c \in Calls :
         /\ call[c].at \in {"idle", "next", "run", "ended"}
         /\ call[c].left \subseteq Limits \cup Fans
         /\ call[c].applied \subseteq {"ryzenadj", "nvidia-smi", "nbfc"}
         /\ call[c].alone \in BOOLEAN
    /\ last \in Calls \cup {None}
    /\ used \in [DOMAIN Bounds -> Nat]

Init ==
    /\ setting = [k \in Limits \cup Fans |-> IF k \in Fans THEN Auto ELSE 0]
    /\ call = [c \in Calls |-> Idle]
    /\ last = None
    /\ used = [b \in DOMAIN Bounds |-> 0]

Spend(b) == used[b] < Bounds[b] /\ used' = [used EXCEPT ![b] = @ + 1]

Running(c) == call[c].at \in {"next", "run"}

-----------------------------------------------------------------------------
(* The commands of a call.                                                 *)

\* parameters.get(limit, default): a null in the parameters leaves the limit alone, even
\* in a profile.
Effective(profile, explicit) ==
    [k \in Limits |-> IF k \in DOMAIN explicit THEN explicit[k]
                      ELSE IF profile = None THEN None ELSE Profiles[profile][k]]

Command(tool, sets) ==
    IF DOMAIN sets = {} THEN <<>> ELSE << [tool |-> tool, sets |-> sets] >>

PowerCommands(profile, explicit) ==
    LET watts == Effective(profile, explicit)
        Given(S) == [k \in {l \in S : watts[l] # None} |-> watts[k]]
    IN  Command("ryzenadj", Given(Cpu)) \o Command("nvidia-smi", Given({"gpu"}))

\* A speed that is missing, no number or no percentage gives an error and no command.
FanCommands(fan, speed) ==
    IF speed \in {Auto} \cup 0 .. 100
    THEN Command("nbfc", [f \in IF fan = None THEN Fans ELSE {fan} |-> speed])
    ELSE <<>>

-----------------------------------------------------------------------------
(* The handlers.                                                           *)

Begin(c, commands) ==
    /\ ~Running(c)
    /\ Spend("calls")
    /\ LET others == {d \in Calls \ {c} : Running(d)}
       IN  call' = [d \in Calls |->
             IF d = c THEN [Idle EXCEPT !.at = "next", !.commands = commands, !.todo = commands,
                                        !.before = setting, !.alone = (others = {})]
             ELSE IF d \in others THEN [call[d] EXCEPT !.alone = FALSE] ELSE call[d]]
    /\ last' = c
    /\ UNCHANGED setting

SetPowerProfile(c) ==
    \E profile \in DOMAIN Profiles \cup {None}, explicit \in Explicit :
        Begin(c, PowerCommands(profile, explicit))

SetFanCurve(c) ==
    \E fan \in Fans \cup {None}, speed \in Speeds : Begin(c, FanCommands(fan, speed))

Sets(c) == Head(call[c].todo).sets

IsBad(c) == \E k \in DOMAIN Sets(c) : Sets(c)[k] = Bad

StartCommand(c) ==
    /\ call[c].at = "next"
    /\ call[c].todo # <<>>
    /\ ~IsBad(c)
    /\ call' = [call EXCEPT ![c].at = "run", ![c].left = DOMAIN Sets(c)]
    /\ UNCHANGED <<setting, last, used>>

\* int(...) raises, whatever commands have been run.
Raise(c) ==
    /\ call[c].at = "next"
    /\ call[c].todo # <<>>
    /\ IsBad(c)
    /\ call' = [call EXCEPT ![c].at = "ended"]
    /\ UNCHANGED <<setting, last, used>>

\* The process changes a limit.
Apply(c) ==
    /\ call[c].at = "run"
    /\ \E k \in call[c].left :
         /\ setting' = [setting EXCEPT ![k] = Sets(c)[k]]
         /\ call' = [call EXCEPT ![c].left = @ \ {k}]
    /\ UNCHANGED <<last, used>>

\* On to the next command; tools are those that are now reported as applied.
GoOn(c, tools) ==
    call' = [call EXCEPT ![c].at = "next", ![c].todo = Tail(@), ![c].left = {},
                         ![c].applied = @ \cup tools]

\* Faulty variant: the return code is not looked at.
ExitsUnchecked(c) ==
    /\ call[c].at = "run"
    /\ GoOn(c, {Head(call[c].todo).tool})
    /\ UNCHANGED <<setting, last, used>>

\* It exits with return code 0.
Exits(c) ==
    /\ call[c].at = "run"
    /\ call[c].left = {}
    /\ GoOn(c, {Head(call[c].todo).tool})
    /\ UNCHANGED <<setting, last, used>>

\* It is not there, exits with another code, or is killed after ten seconds, maybe when
\* all was done.
CommandFails(c) ==
    /\ call[c].at = "run"
    /\ Spend("faults")
    /\ GoOn(c, {})
    /\ UNCHANGED <<setting, last>>

\* The answer: ok when a command was applied, else an error.
Answer(c) ==
    /\ call[c].at = "next"
    /\ call[c].todo = <<>>
    /\ call' = [call EXCEPT ![c].at = "ended"]
    /\ UNCHANGED <<setting, last, used>>

-----------------------------------------------------------------------------
Next ==
    \E c \in Calls :
        \/ SetPowerProfile(c) \/ SetFanCurve(c)
        \/ StartCommand(c) \/ Raise(c) \/ Apply(c)
        \/ Exits(c) \/ CommandFails(c) \/ Answer(c)

Spec == Init /\ [][Next]_vars

-----------------------------------------------------------------------------
(* Properties.                                                             *)

Commands(c) == {call[c].commands[i] : i \in DOMAIN call[c].commands}

\* When the last call is over and no other overlapped with it, a limit of a command that
\* is reported as applied has the value that was asked for, one of a command that is not
\* reported has that value or the one from before, and all others are as they were, also
\* when a later command failed or its number raised.
AnswersMatchMachine ==
    \A c \in Calls :
      call[c].at = "ended" /\ last = c /\ call[c].alone =>
        \A k \in DOMAIN setting :
          \/ /\ setting[k] = call[c].before[k]
             /\ \A m \in Commands(c) : k \in DOMAIN m.sets /\ m.tool \in call[c].applied =>
                                         setting[k] = m.sets[k]
          \/ \E m \in Commands(c) : k \in DOMAIN m.sets /\ setting[k] = m.sets[k]
=============================================================================

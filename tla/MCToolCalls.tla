----------------------------- MODULE MCToolCalls -----------------------------
(***************************************************************************)
(* An instance of ToolCalls for TLC.                                       *)
(***************************************************************************)
EXTENDS ToolCalls

CONSTANTS fetch, send, lost, p1, r1, owner

StepOn(t, names) == [tool |-> t, depends_on |-> names]

\* Dependencies against the order of the file, one on a tool that is not registered;
\* and a list that cannot be sorted.
MCConfigs ==
    {[p \in {p1} |-> s] : s \in {
        <<StepOn(send, <<lost, fetch>>), StepOn(lost, <<fetch>>), StepOn(fetch, <<>>)>>,
        <<StepOn(fetch, <<send>>), StepOn(send, <<fetch>>)>>}}

MCDeclaredRisk == [t \in {fetch, send} |-> IF t = fetch THEN "low" ELSE "high"]

MCAgentOf == [c \in {p1, r1} |-> owner]
=============================================================================

------------------------------ MODULE StepLists ------------------------------
(***************************************************************************)
(* Lists of pipeline steps (PipelineStep in core/pipelines/runner.py), and *)
(* what their depends_on say: a graph whose edge <<k, j>> is the j-th name *)
(* in depends_on of step k.                                                *)
(***************************************************************************)
EXTENDS Integers, Sequences, FiniteSets

StepsOn(tools) == [tool : tools, depends_on : Seq(tools)]

NamesIn(s) == {s[k].tool : k \in DOMAIN s}

EdgesIn(s) == UNION {{k} \X DOMAIN s[k].depends_on : k \in DOMAIN s}

Dependent(s, e) == s[e[1]].tool
Dependency(s, e) == s[e[1]].depends_on[e[2]]

EdgesInto(s, t) == {e \in EdgesIn(s) : Dependent(s, e) = t}
EdgesFrom(s, t) == {e \in EdgesIn(s) : Dependency(s, e) = t}

\* Every reference names a step, and no two steps have one tool.
KnownReferences(s) == \A e \in EdgesIn(s) : Dependency(s, e) \in NamesIn(s)
DistinctTools(s) == \A k, m \in DOMAIN s : s[k].tool = s[m].tool => k = m

\* Tools each of which waits for another one of them.
Waiting(s, C) == \A t \in C : \E e \in EdgesInto(s, t) : Dependency(s, e) \in C
Cyclic(s) == \E C \in SUBSET NamesIn(s) : C # {} /\ Waiting(s, C)

\* o is a re-ordering of s with all dependencies before each step.
IsOrderOf(o, s) ==
    /\ Len(o) = Len(s)
    /\ \A k \in DOMAIN s : \E n \in DOMAIN o : o[n] = k
    /\ \A n \in DOMAIN o : \A e \in EdgesIn(s) : e[1] = o[n] =>
        \A m \in DOMAIN o : s[o[m]].tool = Dependency(s, e) => m < n

=============================================================================

------------------------------ MODULE StepOrder ------------------------------
(***************************************************************************)
(* _topological_sort of core/pipelines/runner.py: Kahn's algorithm on the  *)
(* steps of a pipeline, which name each other by their tools.  The code    *)
(* keeps a list of dependents per tool; here an entry of such a list is    *)
(* the edge <<k, j>> it was made from (the j-th name in depends_on of step *)
(* k), and the list is the set of these edges, handled in their order.     *)
(***************************************************************************)
EXTENDS StepLists

CONSTANTS
    Tools,      \* names of tools
    Lists       \* the lists of steps the function is called with

Step == StepsOn(Tools)

ASSUME ListsAssumption == Lists \subseteq Seq(Step)

VARIABLES
    steps,          \* the argument
    pc,             \* where the call is; at the end its outcome
    i,              \* the next step of the comprehension that fills the queue
    in_degree,      \* for every tool, its dependencies still to come
    queue,          \* tools without any
    children,       \* edges of the tool just popped still to be followed
    sorted_tools    \* tools popped so far

vars == <<steps, pc, i, in_degree, queue, children, sorted_tools>>

-----------------------------------------------------------------------------
(* The function.                                                           *)

\* Lists of dependents are filled in the order of the steps.
Before(e, f) == e[1] < f[1] \/ (e[1] = f[1] /\ e[2] <= f[2])

TypeOK ==
    /\ steps \in Lists
    /\ pc \in {"start", "enqueue", "pop", "unknown", "cycle", "returned"}
    /\ i \in 1 .. Len(steps) + 1
    /\ in_degree \in [NamesIn(steps) -> Int]
    /\ queue \in Seq(NamesIn(steps))
    /\ children \subseteq EdgesIn(steps)
    /\ sorted_tools \in Seq(NamesIn(steps))

Init ==
    /\ steps \in Lists
    /\ pc = "start"
    /\ i = 1
    /\ in_degree = [t \in NamesIn(steps) |-> 0]
    /\ queue = <<>>
    /\ children = {}
    /\ sorted_tools = <<>>

\* The references are validated, then the in-degrees counted.
Validate ==
    /\ pc = "start"
    /\ IF KnownReferences(steps)
       THEN /\ in_degree' = [t \in NamesIn(steps) |-> Cardinality(EdgesInto(steps, t))]
            /\ pc' = "enqueue"
       ELSE /\ pc' = "unknown"
            /\ UNCHANGED in_degree
    /\ UNCHANGED <<steps, i, queue, children, sorted_tools>>

\* Tools without dependencies enter the queue in the order of the steps.
Enqueue ==
    /\ pc = "enqueue"
    /\ IF i <= Len(steps)
       THEN /\ queue' = IF in_degree[steps[i].tool] = 0 THEN Append(queue, steps[i].tool)
                        ELSE queue
            /\ i' = i + 1
            /\ UNCHANGED pc
       ELSE /\ pc' = "pop"
            /\ UNCHANGED <<queue, i>>
    /\ UNCHANGED <<steps, in_degree, children, sorted_tools>>

Pop ==
    /\ pc = "pop"
    /\ children = {}
    /\ queue # <<>>
    /\ queue' = Tail(queue)
    /\ sorted_tools' = Append(sorted_tools, Head(queue))
    /\ children' = EdgesFrom(steps, Head(queue))
    /\ UNCHANGED <<steps, pc, i, in_degree>>

\* Faulty variant: a dependent enters the queue with its first dependency.
ReleaseAtOnce ==
    /\ pc = "pop"
    /\ \E e \in children :
        /\ \A f \in children : Before(e, f)
        /\ in_degree' = [in_degree EXCEPT ![Dependent(steps, e)] = @ - 1]
        /\ queue' = IF in_degree[Dependent(steps, e)]
                          = Cardinality(EdgesInto(steps, Dependent(steps, e)))
                    THEN Append(queue, Dependent(steps, e)) ELSE queue
        /\ children' = children \ {e}
    /\ UNCHANGED <<steps, pc, i, sorted_tools>>

Release ==
    /\ pc = "pop"
    /\ \E e \in children :
        /\ \A f \in children : Before(e, f)
        /\ in_degree' = [in_degree EXCEPT ![Dependent(steps, e)] = @ - 1]
        /\ queue' = IF in_degree[Dependent(steps, e)] = 1
                    THEN Append(queue, Dependent(steps, e)) ELSE queue
        /\ children' = children \ {e}
    /\ UNCHANGED <<steps, pc, i, sorted_tools>>

\* Faulty variant: an empty result is taken for a cycle, a short one is not.
FinishUnchecked ==
    /\ pc = "pop"
    /\ children = {}
    /\ queue = <<>>
    /\ pc' = IF sorted_tools # <<>> \/ steps = <<>> THEN "returned" ELSE "cycle"
    /\ UNCHANGED <<steps, i, in_degree, queue, children, sorted_tools>>

Finish ==
    /\ pc = "pop"
    /\ children = {}
    /\ queue = <<>>
    /\ pc' = IF Len(sorted_tools) = Len(steps) THEN "returned" ELSE "cycle"
    /\ UNCHANGED <<steps, i, in_degree, queue, children, sorted_tools>>

Next == Validate \/ Enqueue \/ Pop \/ Release \/ Finish

Spec == Init /\ [][Next]_vars

\* by_tool: the last step with this tool; and the list returned, as positions.
ByTool(t) ==
    CHOOSE k \in DOMAIN steps :
        steps[k].tool = t /\ \A m \in DOMAIN steps : steps[m].tool = t => m <= k
Returned == [n \in DOMAIN sorted_tools |-> ByTool(sorted_tools[n])]

-----------------------------------------------------------------------------
(* Properties.                                                             *)

\* What is returned for steps with distinct tools is a re-ordering of them in which
\* every step comes after all its dependencies (_topological_sort, "Returns").
SortedIsOrder == DistinctTools(steps) /\ pc = "returned" => IsOrderOf(Returned, steps)

\* For distinct tools PipelineError is raised exactly when a reference is unknown or
\* the dependencies are cyclic (_topological_sort, "Raises"), a step that depends on
\* itself included.
ErrorsAreTrue ==
    /\ pc = "unknown" => ~KnownReferences(steps)
    /\ DistinctTools(steps) =>
        /\ pc = "cycle" => Cyclic(steps)
        /\ pc = "returned" => KnownReferences(steps) /\ ~Cyclic(steps)
=============================================================================

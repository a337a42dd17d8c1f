--------------------------- MODULE StepOrderProofs ---------------------------
(***************************************************************************)
(* The topological sort is right for steps with distinct tools, however    *)
(* many there are.  What is still to come is the set of edges whose        *)
(* dependency has not been popped, or has just been popped and is being    *)
(* followed: the in-degrees count it.                                      *)
(***************************************************************************)
EXTENDS StepOrder, FiniteSetTheorems, FunctionTheorems, TLAPS

Popped == {sorted_tools[n] : n \in DOMAIN sorted_tools}
Queued == {queue[n] : n \in DOMAIN queue}

Remaining == {e \in EdgesIn(steps) : Dependency(steps, e) \notin Popped} \cup children
RemainingInto(t) == {e \in Remaining : Dependent(steps, e) = t}

\* Before the loop nothing is popped; what is followed has been popped.
PhaseInv ==
    /\ pc \in {"start", "unknown"} => queue = <<>> /\ i = 1
    /\ pc \in {"start", "unknown", "enqueue"} => sorted_tools = <<>> /\ children = {}
    /\ pc = "unknown" => ~KnownReferences(steps)
    /\ pc \in {"enqueue", "pop", "cycle", "returned"} => KnownReferences(steps)
    /\ pc = "cycle" =>
        Len(sorted_tools) # Len(steps) /\ queue = <<>> /\ children = {}
    /\ pc = "returned" => Len(sorted_tools) = Len(steps)
    /\ \A e \in children : Dependency(steps, e) \in Popped

\* The in-degrees count the edges that remain.
DegreeInv ==
    pc \in {"enqueue", "pop"} =>
        \A t \in NamesIn(steps) : in_degree[t] = Cardinality(RemainingInto(t))

\* A tool is queued once, and popped once.
OnceInv ==
    /\ \A m, n \in DOMAIN queue : queue[m] = queue[n] => m = n
    /\ \A m, n \in DOMAIN sorted_tools : sorted_tools[m] = sorted_tools[n] => m = n
    /\ Queued \cap Popped = {}

\* Queued or popped are exactly the tools into which no edge remains; while the queue
\* is being filled, those of the steps seen so far.
FreeInv ==
    /\ \A t \in Queued \cup Popped : RemainingInto(t) = {}
    /\ pc = "enqueue" =>
        /\ \A t \in Queued : \E k \in 1 .. i - 1 : t = steps[k].tool
        /\ \A k \in 1 .. i - 1 : RemainingInto(steps[k].tool) = {} => steps[k].tool \in Queued
    /\ pc \in {"pop", "cycle"} =>
        \A t \in NamesIn(steps) : RemainingInto(t) = {} => t \in Queued \cup Popped

\* A popped tool comes after its dependencies, and is on no cycle.
OrderInv ==
    \A n \in DOMAIN sorted_tools : \A e \in EdgesInto(steps, sorted_tools[n]) :
        \E m \in DOMAIN sorted_tools : m < n /\ sorted_tools[m] = Dependency(steps, e)
CycleInv ==
    \A C \in SUBSET NamesIn(steps) : Waiting(steps, C) => C \cap Popped = {}

IInv ==
    /\ TypeOK
    /\ PhaseInv
    /\ DistinctTools(steps) => DegreeInv /\ OnceInv /\ FreeInv /\ OrderInv /\ CycleInv

-----------------------------------------------------------------------------
(* Facts about the edges.                                                  *)

LEMMA ListsType ==
    ASSUME NEW s \in Lists
    PROVE  /\ s \in Seq(Step)
           /\ DOMAIN s = 1 .. Len(s)
           /\ Len(s) \in Nat
           /\ \A k \in DOMAIN s : s[k].depends_on \in Seq(Tools) /\ s[k].tool \in NamesIn(s)
  <1>1. s \in Seq(Step)
    BY ListsAssumption
  <1>2. DOMAIN s = 1 .. Len(s) /\ Len(s) \in Nat /\ \A k \in DOMAIN s : s[k] \in Step
    BY <1>1
  <1>3. \A k \in DOMAIN s : s[k].depends_on \in Seq(Tools)
    BY <1>2 DEF Step, StepsOn
  <1>4. \A k \in DOMAIN s : s[k].tool \in NamesIn(s)
    BY DEF NamesIn
  <1> QED
    BY <1>1, <1>2, <1>3, <1>4

\* There are finitely many edges.
LEMMA EdgesFinite ==
    ASSUME NEW s \in Lists
    PROVE  IsFiniteSet(EdgesIn(s))
  <1> DEFINE f == [k \in DOMAIN s |-> {k} \X DOMAIN s[k].depends_on]
             S == {f[k] : k \in DOMAIN s}
  <1>1. IsFiniteSet(DOMAIN s)
    BY ListsType, FS_Interval
  <1>2. f \in Surjection(DOMAIN s, S)
    BY DEF Surjection
  <1>3. IsFiniteSet(S)
    BY <1>1, <1>2, FS_Surjection
  <1>4. \A k \in DOMAIN s : IsFiniteSet(f[k])
    <2>1. TAKE k \in DOMAIN s
    <2>1a. s[k].depends_on \in Seq(Tools)
      BY <2>1, ListsType
    <2>1b. /\ DOMAIN s[k].depends_on = 1 .. Len(s[k].depends_on)
           /\ Len(s[k].depends_on) \in Nat
      BY <2>1a
    <2>2. IsFiniteSet(DOMAIN s[k].depends_on)
      BY <2>1b, FS_Interval
    <2>3. IsFiniteSet({k} \X DOMAIN s[k].depends_on)
      BY <2>2, FS_Singleton, FS_Product
    <2> QED
      BY <2>3
  <1>5. IsFiniteSet(UNION S)
    BY <1>3, <1>4, FS_UNION
  <1>6. UNION S = EdgesIn(s)
    BY DEF EdgesIn
  <1> QED
    BY <1>5, <1>6

\* What remains are edges, so what remains into a tool is a finite set.
LEMMA RemainingFinite ==
    ASSUME TypeOK
    PROVE  /\ Remaining \subseteq EdgesIn(steps)
           /\ \A t : IsFiniteSet(RemainingInto(t))
  <1>1. Remaining \subseteq EdgesIn(steps)
    BY DEF TypeOK, Remaining
  <1>2. \A t : RemainingInto(t) \in SUBSET EdgesIn(steps)
    BY <1>1 DEF RemainingInto
  <1>3. IsFiniteSet(EdgesIn(steps))
    BY EdgesFinite DEF TypeOK
  <1> QED
    BY <1>1, <1>2, <1>3, FS_Subset

\* The ends of an edge.
LEMMA EdgeEnds ==
    ASSUME NEW s \in Lists, NEW e \in EdgesIn(s)
    PROVE  /\ e[1] \in DOMAIN s
           /\ Dependent(s, e) = s[e[1]].tool
           /\ Dependent(s, e) \in NamesIn(s)
  BY ListsType DEF EdgesIn, Dependent, NamesIn

-----------------------------------------------------------------------------
(* Initially, and step by step.                                            *)

LEMMA InitInv == Init => IInv
  <1> SUFFICES ASSUME Init PROVE IInv
    OBVIOUS
  <1> USE DEF Init
  <1>1. TypeOK
    BY ListsType DEF TypeOK
  <1>2. PhaseInv
    BY DEF PhaseInv
  <1>3. Popped = {} /\ Queued = {}
    BY DEF Popped, Queued
  <1>4. DegreeInv /\ OnceInv /\ FreeInv /\ OrderInv /\ CycleInv
    BY <1>3 DEF DegreeInv, OnceInv, FreeInv, OrderInv, CycleInv
  <1> QED
    BY <1>1, <1>2, <1>4 DEF IInv

LEMMA ValidateInv == IInv /\ Validate => IInv'
  <1> SUFFICES ASSUME IInv, Validate PROVE IInv'
    OBVIOUS
  <1> USE DEF Validate
  <1>1. TypeOK /\ PhaseInv /\ steps \in Lists
    BY DEF IInv, TypeOK
  <1>2. \A t \in NamesIn(steps) : EdgesInto(steps, t) \subseteq EdgesIn(steps)
    BY DEF EdgesInto
  <1>3. \A t \in NamesIn(steps) : Cardinality(EdgesInto(steps, t)) \in Int
    BY <1>1, <1>2, EdgesFinite, FS_Subset, FS_CardinalityType
  <1>4. TypeOK'
    BY <1>1, <1>3 DEF TypeOK
  <1>5. PhaseInv'
    BY <1>1 DEF PhaseInv
  <1>6. ASSUME DistinctTools(steps)
        PROVE  (DegreeInv /\ OnceInv /\ FreeInv /\ OrderInv /\ CycleInv)'
    <2>1. /\ sorted_tools = <<>> /\ children = {} /\ queue = <<>> /\ i = 1
          /\ Popped' = {} /\ Queued' = {}
      BY <1>1 DEF PhaseInv, Popped, Queued
    <2>2. \A t : RemainingInto(t)' = EdgesInto(steps, t)
      BY <2>1 DEF RemainingInto, Remaining, EdgesInto
    <2>3. DegreeInv'
      BY <2>2 DEF DegreeInv
    <2>4. OnceInv' /\ FreeInv' /\ OrderInv' /\ CycleInv'
      BY <2>1 DEF OnceInv, FreeInv, OrderInv, CycleInv
    <2> QED
      BY <2>3, <2>4
  <1> QED
    BY <1>4, <1>5, <1>6 DEF IInv

\* The next step is queued if no edge remains into its tool.
LEMMA EnqueueInv == IInv /\ Enqueue => IInv'
  <1> SUFFICES ASSUME IInv, Enqueue PROVE IInv'
    OBVIOUS
  <1> USE DEF Enqueue
  <1>1. TypeOK /\ PhaseInv /\ steps \in Lists
    BY DEF IInv, TypeOK
  <1>2. i <= Len(steps) => i \in DOMAIN steps /\ steps[i].tool \in NamesIn(steps)
    BY <1>1, ListsType DEF TypeOK
  <1>3. TypeOK'
    <2>1. i' \in 1 .. Len(steps) + 1
      BY <1>1, ListsType DEF TypeOK
    <2>2. queue' \in Seq(NamesIn(steps))
      <3>1. queue \in Seq(NamesIn(steps))
        BY <1>1 DEF TypeOK
      <3>2. CASE i <= Len(steps)
        <4>1. queue' = queue \/ queue' = Append(queue, steps[i].tool)
          BY <3>2
        <4>2. steps[i].tool \in NamesIn(steps)
          BY <1>2, <3>2
        <4> QED
          BY <3>1, <4>1, <4>2
      <3>3. CASE ~(i <= Len(steps))
        BY <3>1, <3>3
      <3> QED
        BY <3>2, <3>3
    <2> QED
      BY <1>1, <2>1, <2>2 DEF TypeOK
  <1>4. /\ sorted_tools = <<>> /\ children = {} /\ Popped = {} /\ Popped' = {}
        /\ Remaining' = Remaining
    BY <1>1 DEF PhaseInv, Popped, Remaining
  <1>5. PhaseInv'
    BY <1>1, <1>4 DEF PhaseInv
  <1>6. ASSUME DistinctTools(steps)
        PROVE  (DegreeInv /\ OnceInv /\ FreeInv /\ OrderInv /\ CycleInv)'
    <2>1. DegreeInv /\ OnceInv /\ FreeInv
      BY <1>6 DEF IInv
    <2>2. \A t : RemainingInto(t)' = RemainingInto(t)
      BY <1>4 DEF RemainingInto
    <2>3. DegreeInv'
      BY <2>1, <2>2 DEF DegreeInv
    <2>4. OrderInv' /\ CycleInv'
      BY <1>4 DEF OrderInv, CycleInv
    <2>5. CASE i > Len(steps)
      <3>1. i = Len(steps) + 1 /\ queue' = queue /\ Queued' = Queued /\ pc' = "pop"
        BY <2>5, <1>1, ListsType DEF TypeOK, Queued
      <3>2. OnceInv'
        BY <2>1, <3>1, <1>4 DEF OnceInv
      <3>3. \A t \in NamesIn(steps) : \E k \in 1 .. i - 1 : t = steps[k].tool
        BY <3>1, <1>1, ListsType DEF NamesIn
      <3>4. FreeInv'
        BY <2>1, <2>2, <3>1, <3>3, <1>4 DEF FreeInv
      <3> QED
        BY <2>3, <2>4, <3>2, <3>4
    <2>6. CASE i <= Len(steps) /\ in_degree[steps[i].tool] # 0
      <3>1. queue' = queue /\ Queued' = Queued /\ pc' = "enqueue" /\ i' = i + 1
        BY <2>6 DEF Queued
      <3>2. OnceInv'
        BY <2>1, <3>1, <1>4 DEF OnceInv
      <3>3. RemainingInto(steps[i].tool) # {}
        BY <2>1, <2>6, <1>2, FS_EmptySet DEF DegreeInv
      <3>4. \A k \in 1 .. i' - 1 : k = i \/ k \in 1 .. i - 1
        BY <3>1, <1>1, ListsType DEF TypeOK
      <3>4a. 1 .. i - 1 \subseteq 1 .. i' - 1
        BY <3>1, <1>1, ListsType DEF TypeOK
      <3>5. FreeInv'
        BY <2>1, <2>2, <3>1, <3>3, <3>4, <3>4a, <1>4 DEF FreeInv
      <3> QED
        BY <2>3, <2>4, <3>2, <3>5
    <2>7. CASE i <= Len(steps) /\ in_degree[steps[i].tool] = 0
      <3> DEFINE t == steps[i].tool
      <3>1. queue' = Append(queue, t) /\ pc' = "enqueue" /\ i' = i + 1
        BY <2>7
      <3>2. /\ queue \in Seq(NamesIn(steps)) /\ t \in NamesIn(steps)
            /\ DOMAIN queue' = DOMAIN queue \cup {Len(queue) + 1}
            /\ Len(queue) + 1 \notin DOMAIN queue
            /\ \A n \in DOMAIN queue : queue'[n] = queue[n]
            /\ queue'[Len(queue) + 1] = t
        BY <3>1, <1>1, <1>2, <2>7 DEF TypeOK
      <3>3. Queued' = Queued \cup {t}
        BY <3>2 DEF Queued
      <3>4. t \notin Queued
        <4>1. SUFFICES ASSUME t \in Queued PROVE FALSE
          OBVIOUS
        <4>2. PICK k \in 1 .. i - 1 : t = steps[k].tool
          BY <4>1, <2>1 DEF FreeInv
        <4>3. k \in DOMAIN steps /\ k # i
          BY <1>1, <1>2, <2>7, ListsType DEF TypeOK
        <4> QED
          BY <4>2, <4>3, <1>2, <1>6, <2>7 DEF DistinctTools
      <3>5. \A n \in DOMAIN queue : queue[n] # t
        BY <3>4 DEF Queued
      <3>6. OnceInv'
        BY <2>1, <3>2, <3>3, <3>5, <1>4 DEF OnceInv
      <3>7. RemainingInto(t) = {}
        <4>1. Cardinality(RemainingInto(t)) = 0
          BY <2>1, <2>7, <3>2 DEF DegreeInv
        <4> QED
          BY <4>1, <1>1, RemainingFinite, FS_EmptySet
      <3>8. \A k \in 1 .. i' - 1 : k = i \/ k \in 1 .. i - 1
        BY <3>1, <1>1, ListsType DEF TypeOK
      <3>9. 1 .. i - 1 \subseteq 1 .. i' - 1 /\ i \in 1 .. i' - 1
        BY <3>1, <1>1, ListsType DEF TypeOK
      <3>10. FreeInv'
        BY <2>1, <2>2, <3>1, <3>3, <3>7, <3>8, <3>9, <1>4 DEF FreeInv
      <3> QED
        BY <2>3, <2>4, <3>6, <3>10
    <2> QED
      BY <2>5, <2>6, <2>7, <1>1, ListsType DEF TypeOK
  <1> QED
    BY <1>3, <1>5, <1>6 DEF IInv

\* The popped tool's edges go from not popped to being followed: nothing else changes.
LEMMA PopInv == IInv /\ Pop => IInv'
  <1> SUFFICES ASSUME IInv, Pop PROVE IInv'
    OBVIOUS
  <1> USE DEF Pop
  <1> DEFINE t == Head(queue)
  <1>1. TypeOK /\ PhaseInv /\ steps \in Lists
    BY DEF IInv, TypeOK
  <1>2. /\ queue \in Seq(NamesIn(steps)) /\ sorted_tools \in Seq(NamesIn(steps))
        /\ t = queue[1] /\ 1 \in DOMAIN queue /\ t \in NamesIn(steps)
        /\ queue' \in Seq(NamesIn(steps)) /\ sorted_tools' \in Seq(NamesIn(steps))
        /\ Len(queue) \in Nat /\ Len(queue') = Len(queue) - 1
        /\ \A n \in DOMAIN queue' : n + 1 \in DOMAIN queue /\ queue'[n] = queue[n + 1]
        /\ \A n \in DOMAIN queue : n # 1 => n - 1 \in DOMAIN queue' /\ queue'[n - 1] = queue[n]
    BY <1>1 DEF TypeOK
  <1>3. /\ DOMAIN sorted_tools = 1 .. Len(sorted_tools) /\ Len(sorted_tools) \in Nat
        /\ DOMAIN sorted_tools' = DOMAIN sorted_tools \cup {Len(sorted_tools) + 1}
        /\ Len(sorted_tools) + 1 \notin DOMAIN sorted_tools
        /\ \A n \in DOMAIN sorted_tools : sorted_tools'[n] = sorted_tools[n]
        /\ sorted_tools'[Len(sorted_tools) + 1] = t
    BY <1>2
  <1>4. Popped' = Popped \cup {t}
    BY <1>3 DEF Popped
  <1>5. children' = EdgesFrom(steps, t) /\ children' \subseteq EdgesIn(steps)
    BY DEF EdgesFrom
  <1>6. TypeOK'
    BY <1>1, <1>2, <1>5 DEF TypeOK
  <1>7. PhaseInv'
    BY <1>1, <1>4, <1>5 DEF PhaseInv, EdgesFrom
  <1>8. ASSUME DistinctTools(steps)
        PROVE  (DegreeInv /\ OnceInv /\ FreeInv /\ OrderInv /\ CycleInv)'
    <2>1. DegreeInv /\ OnceInv /\ FreeInv /\ OrderInv /\ CycleInv
      BY <1>8 DEF IInv
    <2>2. \A n \in DOMAIN queue' : queue'[n] # t
      BY <1>2, <2>1 DEF OnceInv
    <2>3. Queued = Queued' \cup {t} /\ t \notin Queued'
      <3>1. t \in Queued /\ t \notin Queued'
        BY <1>2, <2>2 DEF Queued
      <3>2. ASSUME NEW x \in Queued, x # t PROVE x \in Queued'
        <4>1. PICK n \in DOMAIN queue : x = queue[n]
          BY <3>2 DEF Queued
        <4>2. n # 1
          BY <3>2, <4>1, <1>2
        <4> QED
          BY <4>1, <4>2, <1>2 DEF Queued
      <3>3. ASSUME NEW x \in Queued' PROVE x \in Queued
        BY <1>2, <3>3 DEF Queued
      <3> QED
        BY <3>1, <3>2, <3>3
    <2>4. t \notin Popped
      BY <2>1, <2>3 DEF OnceInv
    <2>5. Remaining' = Remaining
      <3>1. Remaining = {e \in EdgesIn(steps) : Dependency(steps, e) \notin Popped}
        BY DEF Remaining
      <3>2. Remaining' = {e \in EdgesIn(steps) : Dependency(steps, e) \notin Popped'}
                           \cup EdgesFrom(steps, t)
        BY <1>5 DEF Remaining
      <3> QED
        BY <3>1, <3>2, <2>4, <1>4 DEF EdgesFrom
    <2>6. \A x : RemainingInto(x)' = RemainingInto(x)
      BY <2>5 DEF RemainingInto
    <2>7. DegreeInv'
      BY <2>1, <2>6 DEF DegreeInv
    <2>8. \A n \in DOMAIN sorted_tools : sorted_tools[n] # t
      BY <2>4 DEF Popped
    <2>9. OnceInv'
      <3>1. \A m, n \in DOMAIN queue' : queue'[m] = queue'[n] => m = n
        BY <1>2, <2>1 DEF OnceInv
      <3>2. \A m, n \in DOMAIN sorted_tools' : sorted_tools'[m] = sorted_tools'[n] => m = n
        BY <1>3, <2>1, <2>8 DEF OnceInv
      <3>3. Queued' \cap Popped' = {}
        BY <2>1, <2>3, <1>4 DEF OnceInv
      <3> QED
        BY <3>1, <3>2, <3>3 DEF OnceInv
    <2>10. FreeInv'
      BY <2>1, <2>3, <1>4, <2>6 DEF FreeInv
    <2>11. \A e \in EdgesInto(steps, t) : Dependency(steps, e) \in Popped
      <3>1. RemainingInto(t) = {}
        BY <2>1, <2>3 DEF FreeInv
      <3> QED
        BY <3>1 DEF RemainingInto, Remaining, EdgesInto
    <2>12. OrderInv'
      <3>1. SUFFICES ASSUME NEW n \in DOMAIN sorted_tools',
                            NEW e \in EdgesInto(steps, sorted_tools'[n])
                     PROVE  \E m \in DOMAIN sorted_tools' :
                              m < n /\ sorted_tools'[m] = Dependency(steps, e)
        BY DEF OrderInv
      <3>2. CASE n \in DOMAIN sorted_tools
        BY <3>1, <3>2, <2>1, <1>3 DEF OrderInv
      <3>3. CASE n = Len(sorted_tools) + 1
        <4>1. Dependency(steps, e) \in Popped
          BY <3>1, <3>3, <1>3, <2>11
        <4>2. PICK m \in DOMAIN sorted_tools : sorted_tools[m] = Dependency(steps, e)
          BY <4>1 DEF Popped
        <4> QED
          BY <4>2, <3>3, <1>3
      <3> QED
        BY <3>1, <3>2, <3>3, <1>3
    <2>13. CycleInv'
      <3>1. SUFFICES ASSUME NEW C \in SUBSET NamesIn(steps), Waiting(steps, C), t \in C
                     PROVE  FALSE
        BY <2>1, <1>4 DEF CycleInv
      <3>2. PICK e \in EdgesInto(steps, t) : Dependency(steps, e) \in C
        BY <3>1 DEF Waiting
      <3>3. Dependency(steps, e) \in Popped
        BY <2>11, <3>2
      <3> QED
        BY <3>1, <3>2, <3>3, <2>1 DEF CycleInv
    <2> QED
      BY <2>7, <2>9, <2>10, <2>12, <2>13
  <1> QED
    BY <1>6, <1>7, <1>8 DEF IInv

\* One edge less remains into the dependent; without any it is queued.
LEMMA ReleaseInv == IInv /\ Release => IInv'
  <1> SUFFICES ASSUME IInv, Release PROVE IInv'
    OBVIOUS
  <1>1. TypeOK /\ PhaseInv /\ steps \in Lists /\ in_degree \in [NamesIn(steps) -> Int]
    BY DEF IInv, TypeOK
  <1>2. PICK e \in children :
          /\ in_degree' = [in_degree EXCEPT ![Dependent(steps, e)] = @ - 1]
          /\ queue' = IF in_degree[Dependent(steps, e)] = 1
                      THEN Append(queue, Dependent(steps, e)) ELSE queue
          /\ children' = children \ {e}
    BY DEF Release
  <1>3. pc = "pop" /\ UNCHANGED <<steps, pc, i, sorted_tools>>
    BY DEF Release
  <1> DEFINE t == Dependent(steps, e)
  <1>4. e \in EdgesIn(steps) /\ t \in NamesIn(steps)
    BY <1>1, <1>2, EdgeEnds DEF TypeOK
  <1>5. queue' \in Seq(NamesIn(steps)) /\ queue \in Seq(NamesIn(steps))
    BY <1>1, <1>2, <1>4 DEF TypeOK
  <1>6. TypeOK'
    BY <1>1, <1>2, <1>3, <1>4, <1>5 DEF TypeOK
  <1>7. Popped' = Popped
    BY <1>3 DEF Popped
  <1>8. PhaseInv'
    BY <1>1, <1>2, <1>3, <1>7 DEF PhaseInv
  <1>9. Dependency(steps, e) \in Popped /\ e \in Remaining /\ Remaining' = Remaining \ {e}
    BY <1>1, <1>2, <1>3, <1>7 DEF PhaseInv, Remaining
  <1>10. /\ RemainingInto(t)' = RemainingInto(t) \ {e}
         /\ e \in RemainingInto(t)
         /\ \A x : x # t => RemainingInto(x)' = RemainingInto(x)
    BY <1>3, <1>9 DEF RemainingInto
  <1>11. IsFiniteSet(RemainingInto(t)) /\ IsFiniteSet(RemainingInto(t) \ {e})
    BY <1>1, RemainingFinite, FS_RemoveElement
  <1>12. ASSUME DistinctTools(steps)
         PROVE  (DegreeInv /\ OnceInv /\ FreeInv /\ OrderInv /\ CycleInv)'
    <2>1. DegreeInv /\ OnceInv /\ FreeInv /\ OrderInv /\ CycleInv
      BY <1>12 DEF IInv
    <2>2. /\ in_degree[t] = Cardinality(RemainingInto(t))
          /\ Cardinality(RemainingInto(t)') = Cardinality(RemainingInto(t)) - 1
          /\ Cardinality(RemainingInto(t)) \in Nat
      <3>1. in_degree[t] = Cardinality(RemainingInto(t))
        BY <2>1, <1>3, <1>4 DEF DegreeInv
      <3>2. Cardinality(RemainingInto(t) \ {e}) = Cardinality(RemainingInto(t)) - 1
        BY <1>10, <1>11, FS_RemoveElement
      <3> QED
        BY <3>1, <3>2, <1>10, <1>11, FS_CardinalityType
    <2>3. DegreeInv'
      <3>1. SUFFICES ASSUME NEW x \in NamesIn(steps)
                     PROVE  in_degree'[x] = Cardinality(RemainingInto(x)')
        BY <1>3 DEF DegreeInv
      <3>2. CASE x = t
        <4>1. in_degree'[t] = in_degree[t] - 1
          BY <1>1, <1>2, <1>4
        <4> QED
          BY <3>2, <4>1, <2>2, <1>3
      <3>3. CASE x # t
        <4>1. in_degree'[x] = in_degree[x]
          BY <3>1, <3>3, <1>1, <1>2
        <4>2. in_degree[x] = Cardinality(RemainingInto(x))
          BY <2>1, <3>1, <1>3 DEF DegreeInv
        <4> QED
          BY <4>1, <4>2, <3>3, <1>10
      <3> QED
        BY <3>2, <3>3
    <2>4. OrderInv' /\ CycleInv'
      BY <2>1, <1>3, <1>7 DEF OrderInv, CycleInv
    <2>5. t \notin Queued \cup Popped
      BY <2>1, <1>10 DEF FreeInv
    <2>6. CASE in_degree[t] = 1
      <3>1. /\ queue' = Append(queue, t)
            /\ DOMAIN queue' = DOMAIN queue \cup {Len(queue) + 1}
            /\ Len(queue) + 1 \notin DOMAIN queue
            /\ \A n \in DOMAIN queue : queue'[n] = queue[n]
            /\ queue'[Len(queue) + 1] = t
        BY <2>6, <1>2, <1>4, <1>5
      <3>2. Queued' = Queued \cup {t}
        BY <3>1 DEF Queued
      <3>3. \A n \in DOMAIN queue : queue[n] # t
        BY <2>5 DEF Queued
      <3>4. OnceInv'
        BY <2>1, <2>5, <3>1, <3>2, <3>3, <1>3, <1>7 DEF OnceInv
      <3>5. RemainingInto(t)' = {}
        BY <2>2, <2>6, <1>10, <1>11, FS_EmptySet
      <3>6. FreeInv'
        BY <2>1, <3>2, <3>5, <1>3, <1>7, <1>10 DEF FreeInv
      <3> QED
        BY <2>3, <2>4, <3>4, <3>6
    <2>7. CASE in_degree[t] # 1
      <3>1. queue' = queue /\ Queued' = Queued
        BY <2>7, <1>2 DEF Queued
      <3>2. OnceInv'
        BY <2>1, <3>1, <1>3, <1>7 DEF OnceInv
      <3>3. RemainingInto(t)' # {}
        <4>1. Cardinality(RemainingInto(t)') # 0
          BY <2>2, <2>7
        <4> QED
          BY <4>1, FS_EmptySet
      <3>4. FreeInv'
        BY <2>1, <3>1, <3>3, <1>3, <1>7, <1>10 DEF FreeInv
      <3> QED
        BY <2>3, <2>4, <3>2, <3>4
    <2> QED
      BY <2>6, <2>7
  <1> QED
    BY <1>3, <1>6, <1>8, <1>12 DEF IInv

LEMMA FinishInv == IInv /\ Finish => IInv'
  <1> SUFFICES ASSUME IInv, Finish PROVE IInv'
    OBVIOUS
  <1> USE DEF Finish
  <1>1. TypeOK /\ PhaseInv
    BY DEF IInv
  <1>2. TypeOK' /\ PhaseInv'
    BY <1>1 DEF TypeOK, PhaseInv, Popped
  <1>3. Popped' = Popped /\ Queued' = Queued /\ \A t : RemainingInto(t)' = RemainingInto(t)
    BY DEF Popped, Queued, RemainingInto, Remaining
  <1>4. ASSUME DistinctTools(steps)
        PROVE  (DegreeInv /\ OnceInv /\ FreeInv /\ OrderInv /\ CycleInv)'
    <2>1. OnceInv /\ FreeInv /\ OrderInv /\ CycleInv
      BY <1>4 DEF IInv
    <2>2. DegreeInv'
      BY DEF DegreeInv
    <2>3. OnceInv' /\ OrderInv' /\ CycleInv'
      BY <2>1, <1>3 DEF OnceInv, OrderInv, CycleInv
    <2>4. FreeInv'
      BY <2>1, <1>3 DEF FreeInv
    <2> QED
      BY <2>2, <2>3, <2>4
  <1> QED
    BY <1>2, <1>4 DEF IInv

\* A step preserves the invariant.
LEMMA StepInv == IInv /\ [Next]_vars => IInv'
  <1> SUFFICES ASSUME IInv, [Next]_vars PROVE IInv'
    OBVIOUS
  <1>1. CASE Next
    BY <1>1, ValidateInv, EnqueueInv, PopInv, ReleaseInv, FinishInv DEF Next
  <1>2. CASE UNCHANGED vars
    <2>1. /\ steps' = steps /\ pc' = pc /\ i' = i /\ in_degree' = in_degree /\ queue' = queue
          /\ children' = children /\ sorted_tools' = sorted_tools
      BY <1>2 DEF vars
    <2>2. Popped' = Popped /\ Queued' = Queued /\ \A t : RemainingInto(t)' = RemainingInto(t)
      BY <2>1 DEF Popped, Queued, RemainingInto, Remaining
    <2>3. (TypeOK /\ PhaseInv)' <=> TypeOK /\ PhaseInv
      BY <2>1, <2>2 DEF TypeOK, PhaseInv
    <2>4. DegreeInv' <=> DegreeInv
      BY <2>1, <2>2 DEF DegreeInv
    <2>5. (OnceInv /\ FreeInv)' <=> OnceInv /\ FreeInv
      BY <2>1, <2>2 DEF OnceInv, FreeInv
    <2>6. (OrderInv /\ CycleInv)' <=> OrderInv /\ CycleInv
      BY <2>1, <2>2 DEF OrderInv, CycleInv
    <2> QED
      BY <2>1, <2>3, <2>4, <2>5, <2>6 DEF IInv
  <1> QED
    BY <1>1, <1>2

-----------------------------------------------------------------------------
(* The theorems.                                                           *)

\* The call keeps its types, and the strengthened invariant.
THEOREM Invariance == Spec => []IInv
  BY InitInv, StepInv, PTL DEF Spec

\* Every variable of the sort stays in its type.
THEOREM TypeCorrect == Spec => []TypeOK
  <1>1. IInv => TypeOK
    BY DEF IInv
  <1> QED
    BY <1>1, Invariance, PTL

\* As many tools popped as there are steps, none twice: all of them.
LEMMA AllPopped ==
    ASSUME TypeOK, DistinctTools(steps), OnceInv
    PROVE  Len(sorted_tools) = Len(steps) <=> NamesIn(steps) \subseteq Popped
  <1> DEFINE tool_of == [k \in DOMAIN steps |-> steps[k].tool]
  <1>1. steps \in Lists /\ sorted_tools \in Seq(NamesIn(steps))
    BY DEF TypeOK
  <1>2. /\ DOMAIN steps = 1 .. Len(steps) /\ Len(steps) \in Nat
        /\ DOMAIN sorted_tools = 1 .. Len(sorted_tools) /\ Len(sorted_tools) \in Nat
        /\ sorted_tools \in [1 .. Len(sorted_tools) -> NamesIn(steps)]
    BY <1>1, ListsType
  <1>3. /\ IsFiniteSet(DOMAIN steps) /\ Cardinality(DOMAIN steps) = Len(steps)
        /\ IsFiniteSet(DOMAIN sorted_tools)
        /\ Cardinality(DOMAIN sorted_tools) = Len(sorted_tools)
    <2>1. \A n \in Nat : IsFiniteSet(1 .. n) /\ Cardinality(1 .. n) = n
      BY FS_Interval
    <2> QED
      BY <1>2, <2>1
  <1>4. tool_of \in Surjection(DOMAIN steps, NamesIn(steps))
    BY DEF Surjection, NamesIn
  <1>5. tool_of \in Injection(DOMAIN steps, NamesIn(steps))
    BY <1>4 DEF Surjection, Injection, IsInjective, DistinctTools
  <1>6. IsFiniteSet(NamesIn(steps)) /\ Cardinality(NamesIn(steps)) = Len(steps)
    BY <1>3, <1>4, <1>5, FS_Surjection
  <1>7. sorted_tools \in Injection(DOMAIN sorted_tools, NamesIn(steps))
    BY <1>2 DEF Injection, IsInjective, OnceInv
  <1>8. Len(sorted_tools) = Len(steps)
          <=> sorted_tools \in Surjection(DOMAIN sorted_tools, NamesIn(steps))
    BY <1>3, <1>6, <1>7, FS_Injection
  <1>9. sorted_tools \in Surjection(DOMAIN sorted_tools, NamesIn(steps))
          <=> NamesIn(steps) \subseteq Popped
    BY <1>2 DEF Surjection, Popped
  <1> QED
    BY <1>8, <1>9

\* With distinct tools, by_tool finds the step.
LEMMA ByToolFinds ==
    ASSUME TypeOK, DistinctTools(steps), NEW k \in DOMAIN steps
    PROVE  ByTool(steps[k].tool) = k
  <1>1. k \in Int
    BY ListsType DEF TypeOK
  <1>2. \A m \in DOMAIN steps : steps[m].tool = steps[k].tool => m = k
    BY DEF DistinctTools
  <1> QED
    BY <1>1, <1>2 DEF ByTool

\* What is returned for distinct tools is a re-ordering of the steps with every step
\* after its dependencies (_topological_sort).
THEOREM SortedIsOrderTheorem == Spec => []SortedIsOrder
  <1>1. IInv => SortedIsOrder
    <2>1. SUFFICES ASSUME IInv, DistinctTools(steps), pc = "returned"
                   PROVE  IsOrderOf(Returned, steps)
      BY DEF SortedIsOrder
    <2>2. TypeOK /\ PhaseInv /\ OnceInv /\ OrderInv /\ steps \in Lists
      BY <2>1 DEF IInv, TypeOK
    <2>3. /\ sorted_tools \in Seq(NamesIn(steps))
          /\ DOMAIN sorted_tools = 1 .. Len(sorted_tools) /\ Len(sorted_tools) \in Nat
          /\ \A n \in DOMAIN sorted_tools : sorted_tools[n] \in NamesIn(steps)
      BY <2>2 DEF TypeOK
    <2>4. \A n \in DOMAIN sorted_tools :
            Returned[n] \in DOMAIN steps /\ steps[Returned[n]].tool = sorted_tools[n]
      <3>1. TAKE n \in DOMAIN sorted_tools
      <3>2. PICK k \in DOMAIN steps : sorted_tools[n] = steps[k].tool
        BY <2>3, <3>1 DEF NamesIn
      <3>3. Returned[n] = k
        BY <2>1, <2>2, <3>1, <3>2, ByToolFinds DEF Returned
      <3> QED
        BY <3>2, <3>3
    <2>5. DOMAIN Returned = DOMAIN sorted_tools /\ Len(Returned) = Len(sorted_tools)
      BY <2>3 DEF Returned
    <2>6. Len(Returned) = Len(steps)
      BY <2>1, <2>2, <2>5 DEF PhaseInv
    <2>7. \A k \in DOMAIN steps : \E n \in DOMAIN Returned : Returned[n] = k
      <3>1. TAKE k \in DOMAIN steps
      <3>2. NamesIn(steps) \subseteq Popped
        BY <2>1, <2>2, <2>5, <2>6, AllPopped
      <3>3. PICK n \in DOMAIN sorted_tools : sorted_tools[n] = steps[k].tool
        BY <2>2, <3>1, <3>2, ListsType DEF Popped
      <3>4. Returned[n] = k
        BY <2>1, <2>2, <3>1, <3>3, ByToolFinds DEF Returned
      <3> QED
        BY <3>4, <2>5
    <2>8. ASSUME NEW n \in DOMAIN Returned, NEW e \in EdgesIn(steps), e[1] = Returned[n],
                 NEW m \in DOMAIN Returned,
                 steps[Returned[m]].tool = Dependency(steps, e)
          PROVE  m < n
      <3>1. e \in EdgesInto(steps, sorted_tools[n])
        BY <2>4, <2>5, <2>8 DEF EdgesInto, Dependent
      <3>2. PICK l \in DOMAIN sorted_tools :
              l < n /\ sorted_tools[l] = Dependency(steps, e)
        BY <3>1, <2>2, <2>5, <2>8 DEF OrderInv
      <3>3. sorted_tools[m] = sorted_tools[l]
        BY <3>2, <2>4, <2>5, <2>8
      <3> QED
        BY <3>2, <3>3, <2>2, <2>5, <2>8 DEF OnceInv
    <2> QED
      BY <2>6, <2>7, <2>8 DEF IsOrderOf
  <1> QED
    BY <1>1, Invariance, PTL

\* PipelineError tells of an unknown reference or a cycle, and is raised for each.
THEOREM ErrorsAreTrueTheorem == Spec => []ErrorsAreTrue
  <1>1. IInv => ErrorsAreTrue
    <2>1. SUFFICES ASSUME IInv PROVE ErrorsAreTrue
      OBVIOUS
    <2>2. TypeOK /\ PhaseInv /\ steps \in Lists
      BY <2>1 DEF IInv, TypeOK
    <2>3. ASSUME DistinctTools(steps), pc = "returned"
          PROVE  KnownReferences(steps) /\ ~Cyclic(steps)
      <3>1. OnceInv /\ CycleInv
        BY <2>1, <2>3 DEF IInv
      <3>2. NamesIn(steps) \subseteq Popped
        BY <2>2, <2>3, <3>1, AllPopped DEF PhaseInv
      <3> QED
        BY <2>2, <2>3, <3>1, <3>2 DEF PhaseInv, CycleInv, Cyclic
    <2>4. ASSUME DistinctTools(steps), pc = "cycle"
          PROVE  Cyclic(steps)
      <3> DEFINE C == NamesIn(steps) \ Popped
      <3>1. OnceInv /\ FreeInv
        BY <2>1, <2>4 DEF IInv
      <3>2. C # {}
        BY <2>2, <2>4, <3>1, AllPopped DEF PhaseInv
      <3>3. Queued = {} /\ children = {} /\ KnownReferences(steps)
        BY <2>2, <2>4 DEF PhaseInv, Queued
      <3>4. \A t \in C : \E e \in EdgesInto(steps, t) : Dependency(steps, e) \in C
        <4>1. TAKE t \in C
        <4>2. RemainingInto(t) # {}
          BY <3>1, <3>3, <4>1, <2>4 DEF FreeInv
        <4>3. PICK e \in EdgesInto(steps, t) : Dependency(steps, e) \notin Popped
          BY <3>3, <4>2 DEF RemainingInto, Remaining, EdgesInto
        <4>4. Dependency(steps, e) \in NamesIn(steps)
          BY <3>3 DEF KnownReferences, EdgesInto
        <4> QED
          BY <4>3, <4>4
      <3> QED
        BY <3>2, <3>4 DEF Cyclic, Waiting
    <2> QED
      BY <2>2, <2>3, <2>4 DEF ErrorsAreTrue, PhaseInv
  <1> QED
    BY <1>1, Invariance, PTL
=============================================================================

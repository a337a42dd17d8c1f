----------------------------- MODULE MCStepOrder -----------------------------
(***************************************************************************)
(* Lists of steps for TLC.                                                 *)
(***************************************************************************)
EXTENDS StepOrder

CONSTANTS a, b, c, d

\* At most two dependencies, or one named twice.
Dependencies(T) ==
    {<<>>} \cup {<<x>> : x \in T} \cup {<<x, y>> : x, y \in T}

StepsWith(T) == [tool : T, depends_on : Dependencies(T)]

\* Up to three steps on three tools, repeated and unknown tools included.
ShortLists ==
    LET S == StepsWith({a, b, c})
        T == [tool : {b, c}, depends_on : Dependencies({a, b})]
        U == [tool : {a, c}, depends_on : Dependencies({b, c})]
    IN  {<<>>} \cup {<<x>> : x \in S} \cup {<<x, y>> : x, y \in S}
            \cup {<<x, y, z>> : x \in S, y \in T, z \in U}

\* Four steps with distinct tools; which tool comes first is a matter of naming.
LongLists ==
    LET A == {<<>>, <<b>>, <<d>>, <<b, c>>, <<c, d>>}
        B == {<<>>, <<a>>, <<c>>, <<d>>, <<a, c>>, <<d, a>>}
        C == {<<>>, <<a>>, <<b>>, <<d>>, <<a, b>>, <<a, d>>, <<d, a>>}
        D == {<<>>, <<a>>, <<c>>, <<d>>, <<b, a>>, <<b, c>>}
    IN  {<<[tool |-> a, depends_on |-> w], [tool |-> b, depends_on |-> x],
           [tool |-> c, depends_on |-> y], [tool |-> d, depends_on |-> z]>> :
             w \in A, x \in B, y \in C, z \in D}

AllLists == ShortLists \cup LongLists
=============================================================================

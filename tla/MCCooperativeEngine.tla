------------------------ MODULE MCCooperativeEngine ------------------------
(***************************************************************************)
(* Instances of CooperativeEngine for TLC: two items, the second depending *)
(* on the first, so that a dispatch can come too early, a dependency can   *)
(* fail, and a batch can be listed in the wrong order.                     *)
(***************************************************************************)
EXTENDS CooperativeEngine, TLC

CONSTANTS first, second

MCDependsOn == first :> {} @@ second :> {first}

\* A driver may block, unblock or skip an item, a worker may start one.
AllMoves ==
    {<<"pending", "in_progress">>, <<"pending", "blocked">>,
     <<"blocked", "pending">>, <<"pending", "skipped">>}

\* Workers start items and drivers skip them.
PlainMoves == {<<"pending", "in_progress">>, <<"pending", "skipped">>}

NoMoves == {}

NoDependencies == [i \in Items |-> {}]

LoopSymmetry == Permutations(Loops)

TaskSymmetry == Permutations(Loops) \cup Permutations(Clients)
=============================================================================

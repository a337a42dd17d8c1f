---------------------------- MODULE MCDiscussion ----------------------------
(***************************************************************************)
(* Instances of Discussion for TLC.                                        *)
(***************************************************************************)
EXTENDS Discussion, TLC

LoopSymmetry == Permutations(Loops) \cup Permutations(Claims)
=============================================================================

----------------------------- MODULE MCEventBus -----------------------------
(***************************************************************************)
(* Instances of EventBus for TLC: two consumers, a readable and an         *)
(* unreadable event, and batches of two, so that a consumer can stop with  *)
(* part of its batch in hand.                                              *)
(***************************************************************************)
EXTENDS EventBus, TLC

PartySymmetry == Permutations(Consumers) \cup Permutations(Replayers)
=============================================================================

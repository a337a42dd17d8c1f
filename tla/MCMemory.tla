------------------------------ MODULE MCMemory ------------------------------
(***************************************************************************)
(* Instances of Memory for TLC: one field with content, and one that       *)
(* is not JSON, or not as expected, in a single hash.                      *)
(***************************************************************************)
EXTENDS Memory

CONSTANTS good, bad

MCWrites == {<<good, "good">>, <<bad, "bad">>, <<bad, "wrong">>}
=============================================================================

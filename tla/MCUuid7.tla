------------------------------ MODULE MCUuid7 ------------------------------
(* A generator with fields of a few values, for TLC.                       *)
EXTENDS Uuid7, TLC

Symmetry == Permutations(Caller)
=============================================================================

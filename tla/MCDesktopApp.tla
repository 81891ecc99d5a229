---------------------------- MODULE MCDesktopApp ----------------------------
(* DesktopApp for TLC: slots are interchangeable. *)
EXTENDS DesktopApp, TLC

Symmetry == Permutations(Task)
=============================================================================

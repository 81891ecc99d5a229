--------------------------- MODULE MCPaperTrading ---------------------------
(* Two symbols and a small account, for TLC.                               *)
EXTENDS PaperTrading, TLC

Symmetry == Permutations(Symbol)
=============================================================================

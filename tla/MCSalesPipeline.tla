--------------------------- MODULE MCSalesPipeline ---------------------------
(***************************************************************************)
(* The sales of one contact for TLC: handlers are interchangeable.         *)
(***************************************************************************)
EXTENDS SalesPipeline, TLC

Symmetry == Permutations(Slots)
=============================================================================

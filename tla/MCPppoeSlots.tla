---------------------------- MODULE MCPppoeSlots ----------------------------
(***************************************************************************)
(* TLC instance of PppoeSlots: the workers are interchangeable.            *)
(***************************************************************************)
EXTENDS PppoeSlots, TLC

Symmetry == Permutations(Workers)
=============================================================================

------------------------------- MODULE MCViews -------------------------------
(* Views with slots and memory that are interchangeable. *)
EXTENDS Views, TLC

Symmetry == Permutations(Slots) \cup Permutations(Heap)
=============================================================================

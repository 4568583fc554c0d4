-------------------------- MODULE MCFunctionHandles ---------------------------
(* FunctionHandles with slots that are interchangeable. *)
EXTENDS FunctionHandles, TLC

Symmetry == Permutations(Slots)
=============================================================================

------------------------------ MODULE MCLoops ------------------------------
(* A small instance of Loops. *)
EXTENDS Loops
=============================================================================

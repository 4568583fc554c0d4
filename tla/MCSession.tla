----------------------------- MODULE MCSession ------------------------------
(* A small instance of Session: the main thread and interchangeable workers. *)
EXTENDS Session, TLC

Workers == Permutations(Threads \ {Main})
=============================================================================

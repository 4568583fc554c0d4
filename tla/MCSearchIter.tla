---------------------------- MODULE MCSearchIter ----------------------------
(* Four addresses: a function of two, one of a single address, and one that *)
(* is in no function.                                                       *)
EXTENDS SearchIter

TwoFunctions ==
    {[start |-> 1, addresses |-> {1, 2}], [start |-> 3, addresses |-> {3}]}
=============================================================================

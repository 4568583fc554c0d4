-------------------------------- MODULE Ranks --------------------------------
(***************************************************************************)
(* How the SDK numbers what it keeps sorted by address, functions, strings *)
(* and names: the index of an element is its rank, the number of elements  *)
(* before it, and indexes start at 0.                                      *)
(***************************************************************************)
EXTENDS Naturals, FiniteSets

\* How many elements of the set S are below a.
Rank(S, a) == Cardinality({b \in S : b < a})
=============================================================================

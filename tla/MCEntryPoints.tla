--------------------------- MODULE MCEntryPoints ----------------------------
(* A small instance of EntryPoints. *)
EXTENDS EntryPoints, TLC

Renamings == Permutations(Addresses)
=============================================================================

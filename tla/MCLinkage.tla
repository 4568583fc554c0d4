------------------------------ MODULE MCLinkage ------------------------------
(* A small instance of Linkage. *)
EXTENDS Linkage
=============================================================================

---------------------------- MODULE MCStringList ----------------------------
(* A small instance of StringList. *)
EXTENDS StringList
=============================================================================

----------------------------- MODULE SessionLife ----------------------------
(***************************************************************************)
(* What the values of a session rely on: while the IDB value is there the  *)
(* decompiler is initialised throughout or not at all, and both go         *)
(* together.  Session promises it, with its lock, its threads and its      *)
(* panics; Views, where a session opens and closes in one step, takes it   *)
(* for granted.                                                            *)
(***************************************************************************)
VARIABLES
    opened,       \* the IDB value exists and its destruction has not begun
    decompiler    \* the Hex-Rays plugin is initialised

Init == opened = FALSE /\ decompiler = FALSE

\* IDB::open finds a decompiler or does not.
Begin ==
    /\ ~opened
    /\ opened' = TRUE
    /\ decompiler' \in BOOLEAN

\* Drop for IDB.
End ==
    /\ opened
    /\ opened' = FALSE
    /\ decompiler' = FALSE

Spec == Init /\ [][Begin \/ End]_<<opened, decompiler>>
=============================================================================

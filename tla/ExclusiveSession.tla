-------------------------- MODULE ExclusiveSession --------------------------
(***************************************************************************)
(* What the `IDB' handle of idalib promises to the program that uses it,   *)
(* without the lock, the once-cell and the threads that implement it: at   *)
(* any time at most one database session exists; it ends exactly once, and *)
(* what happens to the database on disk is what the owner of the session   *)
(* asked for last; after a panic inside IDA no session ever starts again.  *)
(***************************************************************************)
EXTENDS Naturals

CONSTANT NoSession      \* no IDB value is alive

VARIABLES
    session,   \* NoSession, or the save-on-close wish of the live session
    disk,      \* what the last finished session left: "untouched", ...
    broken     \* no session can start any more

absVars == <<session, disk, broken>>

SessionTypeOK ==
    /\ session \in BOOLEAN \cup {NoSession}
    /\ disk \in {"untouched", "saved", "discarded"}
    /\ broken \in BOOLEAN

SessionInit ==
    /\ session = NoSession
    /\ disk = "untouched"
    /\ broken = FALSE

\* A session starts: never a second one, never after the breakdown.
Begin ==
    /\ session = NoSession
    /\ ~broken
    /\ session' \in BOOLEAN
    /\ UNCHANGED <<disk, broken>>

\* The owner changes its mind about saving.
ChangeSave ==
    /\ session # NoSession
    /\ session' \in BOOLEAN
    /\ UNCHANGED <<disk, broken>>

\* The session ends and the database is saved or discarded as asked.
End ==
    /\ session # NoSession
    /\ session' = NoSession
    /\ disk' = IF session THEN "saved" ELSE "discarded"
    /\ UNCHANGED broken

\* Between two sessions the library may become unusable, for good.
Break ==
    /\ session = NoSession
    /\ broken' = TRUE
    /\ UNCHANGED <<session, disk>>

SessionNext == Begin \/ ChangeSave \/ End \/ Break

SessionSpec == SessionInit /\ [][SessionNext]_absVars
=============================================================================

------------------------------ MODULE Session -------------------------------
(***************************************************************************)
(* The life of the IDA library and of the one database session: the        *)
(* OnceLock and the Mutex of idalib/src/lib.rs, `IDB::open' and `Drop for  *)
(* IDB' of idalib/src/idb.rs, and the `ida' module of idalib-sys/src/lib.rs*)
(* with its main-thread assertions, run by several threads that may call   *)
(* any of them at any time and may panic while a session is alive.         *)
(*                                                                         *)
(* A thread is a state machine.  Its pc is "idle" in the program's own     *)
(* code, "dead" once it ended, and otherwise names the next step of the    *)
(* library call it is in.  The SDK is external: a call that can fail does  *)
(* so nondeterministically.  The end of the process is not an action: it   *)
(* only cuts a behaviour short.                                            *)
(*                                                                         *)
(* A definition whose name starts with Faulty is not part of the model: it *)
(* is the definition after it with a plausible mistake, kept to show that  *)
(* a property notices the mistake.                                         *)
(***************************************************************************)
EXTENDS Naturals

CONSTANTS
    Threads,           \* the threads of the process
    Main,              \* the thread `is_main_thread' recognises
    NoThread,          \* nobody holds the mutex
    NoIDB,             \* a thread that owns no IDB value
    NoReq,             \* a thread that is not in IDB::open
    AnalysisMayFail    \* whether auto_wait can return false while opening

ASSUME ThreadsAssumption == Main \in Threads /\ NoThread \notin Threads

IDBs == [save : BOOLEAN, decompiler : BOOLEAN]
Requests == [auto : BOOLEAN, save : BOOLEAN]

ASSUME NullAssumption ==
    NoIDB \notin IDBs /\ NoIDB \notin BOOLEAN /\ NoReq \notin Requests

ASSUME AnalysisAssumption == AnalysisMayFail \in BOOLEAN

VARIABLES
    once,        \* INIT, the OnceLock: "empty", "running" or "ready"
    owner,       \* who holds the mutex inside INIT
    poisoned,    \* the mutex's poison flag
    pc,          \* where each thread is
    req,         \* the options of the open call a thread is in
    idb,         \* the IDB value a thread owns
    panicking,   \* the thread is unwinding
    ret,         \* what a thread's last call returned
    db,          \* the SDK's current database: "closed" or "open"
    hexrays,     \* the Hex-Rays plugin is initialised
    disk         \* what the last close_database did to the file on disk

vars == <<once, owner, poisoned, pc, req, idb, panicking, ret, db, hexrays,
          disk>>

-----------------------------------------------------------------------------
(* Stages of a call.                                                       *)

\* Stages of IDB::open_full_with that run under the mutex.
OpenStages == {"check", "quiet", "initdb", "analyse", "hexrays"}
\* Stages of the destruction of a live IDB value.
DropStages == {"term", "close"}
\* Every stage at which a thread holds the guard of the mutex without being
\* back in the program's own code.
Holding == OpenStages \cup DropStages \cup {"release"}

Stages == {"idle", "once", "init", "lib", "lock", "unwound", "dead"} \cup Holding

Results == {"none", "ok", "FileNotFound", "InvalidLicense", "Ffi", "OpenDb", "panic"}

TypeOK ==
    /\ once \in {"empty", "running", "ready"}
    /\ owner \in Threads \cup {NoThread}
    /\ poisoned \in BOOLEAN
    /\ pc \in [Threads -> Stages]
    /\ req \in [Threads -> Requests \cup {NoReq}]
    /\ idb \in [Threads -> IDBs \cup {NoIDB}]
    /\ panicking \in [Threads -> BOOLEAN]
    /\ ret \in [Threads -> Results]
    /\ db \in {"closed", "open"}
    /\ hexrays \in BOOLEAN
    /\ disk \in {"untouched", "saved", "discarded"}

Init ==
    /\ once = "empty"
    /\ owner = NoThread
    /\ poisoned = FALSE
    /\ pc = [t \in Threads |-> "idle"]
    /\ req = [t \in Threads |-> NoReq]
    /\ idb = [t \in Threads |-> NoIDB]
    /\ panicking = [t \in Threads |-> FALSE]
    /\ ret = [t \in Threads |-> "none"]
    /\ db = "closed"
    /\ hexrays = FALSE
    /\ disk = "untouched"

-----------------------------------------------------------------------------
(* Steps of a thread that several actions share.                           *)

Goto(t, stage) == pc' = [pc EXCEPT ![t] = stage]

FaultyLanding(t) ==      \* unwinding does not drop the guard
    IF idb[t] # NoIDB THEN "term" ELSE "unwound"

\* What unwinding has to destroy first: the IDB value a thread owns, or else
\* the guard it holds, or else nothing.
Landing(t) ==
    IF idb[t] # NoIDB THEN "term" ELSE IF owner = t THEN "release" ELSE "unwound"

\* An assertion, an expect or the program's own code panics in thread t.
Panic(t) ==
    /\ panicking' = [panicking EXCEPT ![t] = TRUE]
    /\ Goto(t, Landing(t))

FaultyFail(t, e) ==      \* the guard is forgotten on the error path
    /\ ret' = [ret EXCEPT ![t] = e]
    /\ Goto(t, "idle")

\* open_full_with returns Err(e): what is left to do is to drop the guard.
Fail(t, e) ==
    /\ ret' = [ret EXCEPT ![t] = e]
    /\ Goto(t, "release")

FaultyIsMainThread(t) == t \in Threads      \* a missing assertion

\* assert!(is_main_thread()) of every function of the `ida' module.
IsMainThread(t) == t = Main

-----------------------------------------------------------------------------
(* Calls the program makes.                                                *)

\* IDB::open, IDB::open_with and IDBOpenOptions::open.
CallOpen(t, r) ==
    /\ pc[t] = "idle"
    /\ req' = [req EXCEPT ![t] = r]
    /\ Goto(t, "once")
    /\ UNCHANGED <<once, owner, poisoned, idb, panicking, ret, db, hexrays, disk>>

\* enable_console_messages, is_valid_license, license_id: init_library, then
\* a call into the SDK that takes no lock.
CallLibrary(t) ==
    /\ pc[t] = "idle"
    /\ Goto(t, "once")
    /\ UNCHANGED <<once, owner, poisoned, req, idb, panicking, ret, db, hexrays, disk>>

\* version(): a call into the SDK that does not even initialise the library.
CallVersion(t) ==
    /\ pc[t] = "idle"
    /\ Goto(t, "lib")
    /\ UNCHANGED <<once, owner, poisoned, req, idb, panicking, ret, db, hexrays, disk>>

\* The SDK call of a lock-free function, guarded by the main-thread assertion.
LibraryCall(t) ==
    /\ pc[t] = "lib"
    /\ \/ IsMainThread(t) /\ Goto(t, "idle") /\ UNCHANGED panicking
       \/ ~IsMainThread(t) /\ Panic(t)
    /\ UNCHANGED <<once, owner, poisoned, req, idb, ret, db, hexrays, disk>>

-----------------------------------------------------------------------------
(* init_library: INIT.get_or_init.                                         *)

\* The stage after get_or_init returned the mutex.
AfterOnce(t) == IF req[t] = NoReq THEN "lib" ELSE "lock"

\* The cell is set: get_or_init returns at once.
OnceReady(t) ==
    /\ pc[t] = "once"
    /\ once = "ready"
    /\ Goto(t, AfterOnce(t))
    /\ UNCHANGED <<once, owner, poisoned, req, idb, panicking, ret, db, hexrays, disk>>

FaultyOnceClaim(t) ==    \* nobody waits for a running initialiser
    /\ pc[t] = "once"
    /\ once \in {"empty", "running"}
    /\ once' = "running"
    /\ Goto(t, "init")
    /\ UNCHANGED <<owner, poisoned, req, idb, panicking, ret, db, hexrays, disk>>

\* The cell is empty: this thread runs the closure, the others wait.
OnceClaim(t) ==
    /\ pc[t] = "once"
    /\ once = "empty"
    /\ once' = "running"
    /\ Goto(t, "init")
    /\ UNCHANGED <<owner, poisoned, req, idb, panicking, ret, db, hexrays, disk>>

FaultyInitLibrary(t) ==  \* a panic in the closure leaves the cell half set
    /\ pc[t] = "init"
    /\ \/ /\ IsMainThread(t)
          /\ once' = "ready"
          /\ Goto(t, AfterOnce(t))
          /\ UNCHANGED panicking
       \/ UNCHANGED once /\ Panic(t)
    /\ UNCHANGED <<owner, poisoned, req, idb, ret, db, hexrays, disk>>

FaultyPoisonedOnce(t) == \* a panic poisons the cell, as Once::call_once would
    /\ pc[t] = "init"
    /\ \/ /\ IsMainThread(t)
          /\ once' = "ready"
          /\ Goto(t, AfterOnce(t))
          /\ UNCHANGED panicking
       \/ once' = "poisoned" /\ Panic(t)
    /\ UNCHANGED <<owner, poisoned, req, idb, ret, db, hexrays, disk>>

\* The closure: ida::init_library asserts the main thread and may report an
\* error, which `expect' turns into a panic; a panic empties the cell again.
InitLibrary(t) ==
    /\ pc[t] = "init"
    /\ \/ /\ IsMainThread(t)
          /\ once' = "ready"
          /\ Goto(t, AfterOnce(t))
          /\ UNCHANGED panicking
       \/ once' = "empty" /\ Panic(t)
    /\ UNCHANGED <<owner, poisoned, req, idb, ret, db, hexrays, disk>>

-----------------------------------------------------------------------------
(* prepare_library and open_full_with.                                     *)

FaultyLock(t) ==         \* the poison flag is ignored
    /\ pc[t] = "lock"
    /\ owner = NoThread
    /\ owner' = t
    /\ Goto(t, "check")
    /\ UNCHANGED <<once, poisoned, req, idb, panicking, ret, db, hexrays, disk>>

FaultyReentrantLock(t) == \* a thread may take the mutex it holds
    /\ pc[t] = "lock"
    /\ owner \in {NoThread, t}
    /\ owner' = t
    /\ panicking' = [panicking EXCEPT ![t] = poisoned]
    /\ Goto(t, IF poisoned THEN "release" ELSE "check")
    /\ UNCHANGED <<once, poisoned, req, idb, ret, db, hexrays, disk>>

\* mutex.lock().unwrap(): waits for the mutex, its own holder included.  A
\* poisoned mutex is acquired too, but the unwrap panics with the guard in
\* the error value, and unwinding releases it.
Lock(t) ==
    /\ pc[t] = "lock"
    /\ owner = NoThread
    /\ owner' = t
    /\ panicking' = [panicking EXCEPT ![t] = poisoned]
    /\ Goto(t, IF poisoned THEN "release" ELSE "check")
    /\ UNCHANGED <<once, poisoned, req, idb, ret, db, hexrays, disk>>

\* path.exists() and path.is_file(), whatever the file system says just now.
CheckPath(t) ==
    /\ pc[t] = "check"
    /\ \/ Goto(t, "quiet") /\ UNCHANGED ret
       \/ Fail(t, "FileNotFound")
    /\ UNCHANGED <<once, owner, poisoned, req, idb, panicking, db, hexrays, disk>>

\* open_database_quiet up to the shim: the main-thread assertion, the license,
\* and the conversion of the arguments, which refuses an embedded NUL.
OpenQuiet(t) ==
    /\ pc[t] = "quiet"
    /\ \/ /\ IsMainThread(t)
          /\ \/ Goto(t, "initdb") /\ UNCHANGED ret
             \/ Fail(t, "InvalidLicense")
             \/ Fail(t, "Ffi")
          /\ UNCHANGED panicking
       \/ ~IsMainThread(t) /\ Panic(t) /\ UNCHANGED ret
    /\ UNCHANGED <<once, owner, poisoned, req, idb, db, hexrays, disk>>

\* idalib_open_database_quiet: init_database, and ready_to_run on success.
InitDatabase(t) ==
    /\ pc[t] = "initdb"
    /\ \/ db' = "open" /\ Goto(t, "analyse") /\ UNCHANGED ret
       \/ Fail(t, "OpenDb") /\ UNCHANGED db
    /\ UNCHANGED <<once, owner, poisoned, req, idb, panicking, hexrays, disk>>

\* The rest of the shim: wait for the auto-analysis if it was asked for.  An
\* analysis that fails becomes the error code of the open; the database that
\* init_database opened stays open.
Analyse(t) ==
    /\ pc[t] = "analyse"
    /\ \/ Goto(t, "hexrays") /\ UNCHANGED ret
       \/ req[t].auto /\ AnalysisMayFail /\ Fail(t, "OpenDb")
    /\ UNCHANGED <<once, owner, poisoned, req, idb, panicking, db, hexrays, disk>>

\* init_hexrays_plugin, and the IDB value that owns the guard from now on.
InitHexrays(t) ==
    /\ pc[t] = "hexrays"
    /\ \E available \in BOOLEAN :
         /\ hexrays' = (hexrays \/ available)
         /\ idb' = [idb EXCEPT ![t] = [save |-> req[t].save, decompiler |-> available]]
    /\ req' = [req EXCEPT ![t] = NoReq]
    /\ ret' = [ret EXCEPT ![t] = "ok"]
    /\ Goto(t, "idle")
    /\ UNCHANGED <<once, owner, poisoned, panicking, db, disk>>

-----------------------------------------------------------------------------
(* The life of an IDB value.                                               *)

\* IDB::save_on_close.
SaveOnClose(t) ==
    /\ pc[t] = "idle"
    /\ idb[t] # NoIDB
    /\ \E status \in BOOLEAN : idb' = [idb EXCEPT ![t].save = status]
    /\ UNCHANGED <<once, owner, poisoned, pc, req, panicking, ret, db, hexrays, disk>>

\* The IDB value goes out of scope.
DropIDB(t) ==
    /\ pc[t] = "idle"
    /\ idb[t] # NoIDB
    /\ Goto(t, "term")
    /\ UNCHANGED <<once, owner, poisoned, req, idb, panicking, ret, db, hexrays, disk>>

\* The program's own code panics, with or without a live IDB value.
ProgramPanics(t) ==
    /\ pc[t] = "idle"
    /\ Panic(t)
    /\ UNCHANGED <<once, owner, poisoned, req, idb, ret, db, hexrays, disk>>

FaultyTermHexrays(t) ==  \* the plugin stays initialised
    /\ pc[t] = "term"
    /\ Goto(t, "close")
    /\ UNCHANGED <<once, owner, poisoned, req, idb, panicking, ret, db, hexrays, disk>>

\* Drop for IDB, first half: term_hexrays_plugin if open found a decompiler.
TermHexrays(t) ==
    /\ pc[t] = "term"
    /\ hexrays' = (hexrays /\ ~idb[t].decompiler)
    /\ Goto(t, "close")
    /\ UNCHANGED <<once, owner, poisoned, req, idb, panicking, ret, db, disk>>

FaultyCloseDatabase(t) == \* close_database(), which always saves
    /\ pc[t] = "close"
    /\ db' = "closed"
    /\ disk' = "saved"
    /\ idb' = [idb EXCEPT ![t] = NoIDB]
    /\ Goto(t, "release")
    /\ UNCHANGED <<once, owner, poisoned, req, panicking, ret, hexrays>>

\* Drop for IDB, second half: close_database_with(self.save).  The fields go
\* next, and the only one that matters, the guard, is dropped by Release.
CloseDatabase(t) ==
    /\ pc[t] = "close"
    /\ db' = "closed"
    /\ disk' = IF idb[t].save THEN "saved" ELSE "discarded"
    /\ idb' = [idb EXCEPT ![t] = NoIDB]
    /\ Goto(t, "release")
    /\ UNCHANGED <<once, owner, poisoned, req, panicking, ret, hexrays>>

FaultyRelease(t) ==      \* a guard dropped by a panic is leaked
    /\ pc[t] = "release"
    /\ owner' = IF panicking[t] THEN owner ELSE NoThread
    /\ poisoned' = (poisoned \/ panicking[t])
    /\ req' = [req EXCEPT ![t] = NoReq]
    /\ Goto(t, IF panicking[t] THEN "unwound" ELSE "idle")
    /\ UNCHANGED <<once, idb, panicking, ret, db, hexrays, disk>>

\* The guard is dropped: a guard dropped by unwinding poisons the mutex.
Release(t) ==
    /\ pc[t] = "release"
    /\ owner' = NoThread
    /\ poisoned' = (poisoned \/ panicking[t])
    /\ req' = [req EXCEPT ![t] = NoReq]
    /\ Goto(t, IF panicking[t] THEN "unwound" ELSE "idle")
    /\ UNCHANGED <<once, idb, panicking, ret, db, hexrays, disk>>

\* The panic reached the frame below the library: it is caught and the thread
\* goes on, or the thread ends.  The end of the main thread is that of the
\* process.
Unwound(t) ==
    /\ pc[t] = "unwound"
    /\ panicking' = [panicking EXCEPT ![t] = FALSE]
    /\ ret' = [ret EXCEPT ![t] = "panic"]
    /\ req' = [req EXCEPT ![t] = NoReq]
    /\ \/ Goto(t, "idle")
       \/ t # Main /\ Goto(t, "dead")
    /\ UNCHANGED <<once, owner, poisoned, idb, db, hexrays, disk>>

-----------------------------------------------------------------------------
\* What a thread does by itself once it is in a call, a drop or a panic.
Progress(t) ==
    \/ LibraryCall(t) \/ OnceReady(t) \/ OnceClaim(t) \/ InitLibrary(t)
    \/ Lock(t) \/ CheckPath(t) \/ OpenQuiet(t) \/ InitDatabase(t) \/ Analyse(t)
    \/ InitHexrays(t) \/ TermHexrays(t) \/ CloseDatabase(t) \/ Release(t)
    \/ Unwound(t)

\* What the program decides to do with it.
Program(t) ==
    \/ \E r \in Requests : CallOpen(t, r)
    \/ CallLibrary(t) \/ CallVersion(t)
    \/ SaveOnClose(t) \/ DropIDB(t) \/ ProgramPanics(t)

Next == \E t \in Threads : Progress(t) \/ Program(t)

Spec == Init /\ [][Next]_vars

\* The operating system keeps running every thread that can run; nothing is
\* assumed of the program, nor of the order in which the mutex is handed out.
FairSpec == Spec /\ \A t \in Threads : WF_vars(Progress(t))

-----------------------------------------------------------------------------
(* Properties.                                                             *)

\* Mutual exclusion and its scope: whoever is between prepare_library and the
\* drop of the guard holds the mutex, an idle thread holds it exactly when it
\* owns an IDB value, and a thread that waits for it holds it only if it owns one.
GuardDiscipline ==
    \A t \in Threads :
        /\ pc[t] \in Holding => owner = t
        /\ owner = t => pc[t] \in Holding \/ idb[t] # NoIDB

\* The session handle: an IDB value belongs to the main thread, its holder
\* has the mutex, the SDK has a database open, the mutex is not poisoned, and
\* the decompiler flag is true only while the plugin is initialised, so
\* `decompile' never reaches a terminated plugin.
HandleIsSound ==
    \A t \in Threads : idb[t] # NoIDB =>
        /\ t = Main
        /\ owner = t
        /\ db = "open"
        /\ ~poisoned
        /\ idb[t].decompiler /\ pc[t] # "close" => hexrays

\* Only the main thread changes anything inside the SDK, although any thread
\* may call open: the assertions fire before the first effect.
SDKChangeIsMains ==
    <<db, hexrays, disk>>' # <<db, hexrays, disk>>
        => pc'[Main] # pc[Main] /\ \A t \in Threads \ {Main} : pc'[t] = pc[t]
OnlyMainTouchesTheSDK == [][SDKChangeIsMains]_vars

\* The SDK is initialised at most once at a time and never again after a
\* success, however many threads race through get_or_init.
OneInitialiser ==
    /\ \A t, u \in Threads : pc[t] = "init" /\ pc[u] = "init" => t = u
    /\ \A t \in Threads : pc[t] = "init" => once = "running"
    /\ \A t \in Threads : pc[t] \in Holding \cup {"lock"} => once = "ready"

\* No database outlives its session: when nobody holds the mutex, the SDK has
\* no database open and the decompiler is terminated.
NoOrphanDatabase == owner = NoThread => db = "closed" /\ ~hexrays

\* What IDAError::OpenDb says, "could not open IDA database": a thread that
\* got it, and holds nothing, finds no database open in the SDK.
OpenErrorMeansNotOpen ==
    \A t \in Threads : ret[t] = "OpenDb" /\ pc[t] = "idle" /\ owner = NoThread
                        => db = "closed"

\* Poison is for good and total: once the mutex is poisoned no call of open
\* ever builds an IDB value again, on any thread.
PoisonRefuses == poisoned => poisoned' /\ \A t \in Threads : idb'[t] = NoIDB
PoisonIsFinal == [][PoisonRefuses]_vars

\* A second open while the first handle of the same thread is alive waits for
\* itself, and nothing any other thread does can free it.
SelfDeadlockHolds ==
    pc[Main] = "lock" /\ owner = Main
        => pc'[Main] = "lock" /\ owner' = Main /\ db' = db
SelfDeadlockIsPermanent == [][SelfDeadlockHolds]_vars

\* A call of open that got the mutex gives it back or hands it to an IDB
\* value: no error path and no panic path keeps it.
OpenFinishes ==
    \A t \in Threads :
        (pc[t] \in OpenStages) ~> (owner # t \/ (pc[t] = "idle" /\ idb[t] # NoIDB))

\* A handle that goes out of scope, or is unwound, closes its database and
\* frees the mutex.
DropFinishes ==
    \A t \in Threads :
        (pc[t] \in DropStages) ~> (owner = NoThread /\ idb[t] = NoIDB)

\* The closure of the once-cell settles: after a panic in it the cell is empty
\* again, so no caller waits for an initialiser that is gone.
InitSettles == once = "running" ~> once # "running"

-----------------------------------------------------------------------------
(* The session as its user sees it.                                        *)

\* The save wish of the live handle; HandleIsSound says there is at most one.
LiveSession ==
    IF idb[Main] = NoIDB THEN NoIDB ELSE idb[Main].save

Exclusive == INSTANCE ExclusiveSession WITH
    NoSession <- NoIDB, session <- LiveSession, disk <- disk, broken <- poisoned

\* Session implements the exclusive session: every step of a call, a drop or
\* a panic is one step of it or none.
ImplementsExclusiveSession == Exclusive!SessionSpec

\* To the values the main thread obtained from its handle, the session lasts
\* from the construction of the handle until its drop reaches the plugin.
Life == INSTANCE SessionLife WITH
    opened <- idb[Main] # NoIDB /\ pc[Main] # "close", decompiler <- hexrays

\* Session keeps what Views relies on: through failed opens, other threads and
\* panics the decompiler is there for the whole of a session or for none of it.
ImplementsSessionLife == Life!Spec
=============================================================================

--------------------------- MODULE SessionProofs ----------------------------
(***************************************************************************)
(* Proofs about Session, for every set of threads and whether or not the   *)
(* auto-analysis may fail: the invariants of the runs of MCSession, the    *)
(* action properties, and the refinements of ExclusiveSession and of       *)
(* SessionLife.                                                            *)
(***************************************************************************)
EXTENDS Session, TLAPS

(* What holds of one thread, stage by stage, beyond the checked invariants. *)

\* The arguments of open are there while it runs, and only then.
RequestInv(t) ==
    /\ pc[t] \in OpenStages \cup {"lock"} => req[t] # NoReq
    /\ pc[t] \in {"idle", "lib"} => req[t] = NoReq

\* A handle exists from its construction to its close.
StageInv(t) ==
    /\ pc[t] \in OpenStages \cup {"release", "unwound", "dead"} => idb[t] = NoIDB
    /\ pc[t] \in DropStages => idb[t] # NoIDB
    /\ panicking[t] => pc[t] \in DropStages \cup {"release", "unwound"}
    /\ pc[t] \in OpenStages => ~poisoned
    /\ pc[t] \in {"initdb", "analyse", "hexrays"} => t = Main
    /\ pc[t] \in {"analyse", "hexrays"} => db = "open"
    /\ idb[t] # NoIDB => once = "ready"

\* The plugin is initialised exactly for the handle that has a decompiler.
PluginInv ==
    hexrays => /\ idb[Main] # NoIDB
               /\ idb[Main].decompiler
               /\ pc[Main] # "close"

\* Where the database is closed if no analysis fails.
ClosedInv ==
    ~AnalysisMayFail =>
        /\ owner = NoThread => db = "closed"
        /\ \A t \in Threads : pc[t] \in {"check", "quiet", "initdb", "release"}
                                => db = "closed"

Inv ==
    /\ TypeOK
    /\ GuardDiscipline
    /\ HandleIsSound
    /\ OneInitialiser
    /\ \A t \in Threads : RequestInv(t)
    /\ \A t \in Threads : StageInv(t)
    /\ PluginInv
    /\ ClosedInv

-----------------------------------------------------------------------------
LEMMA Constants ==
    /\ Main \in Threads /\ NoThread \notin Threads
    /\ NoIDB \notin IDBs /\ NoIDB \notin BOOLEAN /\ NoReq \notin Requests
    /\ AnalysisMayFail \in BOOLEAN
BY ThreadsAssumption, NullAssumption, AnalysisAssumption

\* The names of the stages and the record sets abbreviate nothing else.
USE DEF OpenStages, DropStages, Holding, Stages, Results, IDBs, Requests

LEMMA InitInv == Init => Inv
BY Constants DEF Init,
   Inv, TypeOK, GuardDiscipline, HandleIsSound, OneInitialiser,
   RequestInv, StageInv, PluginInv, ClosedInv

(* A panic in the program's code, in a lock-free call or under the mutex. *)
LEMMA PanicStep ==
    ASSUME Inv, NEW t \in Threads, pc[t] \in {"idle", "lib", "quiet"}, Panic(t),
           UNCHANGED <<once, owner, poisoned, req, idb, ret, db, hexrays, disk>>
    PROVE  Inv'
<1>1. CASE idb[t] # NoIDB
  BY <1>1, Constants DEF Panic, Landing, Goto,
     Inv, TypeOK, GuardDiscipline, HandleIsSound, OneInitialiser,
     RequestInv, StageInv, PluginInv, ClosedInv
<1>2. CASE idb[t] = NoIDB /\ owner = t
  BY <1>2, Constants DEF Panic, Landing, Goto,
     Inv, TypeOK, GuardDiscipline, HandleIsSound, OneInitialiser,
     RequestInv, StageInv, PluginInv, ClosedInv
<1>3. CASE idb[t] = NoIDB /\ owner # t
  BY <1>3, Constants DEF Panic, Landing, Goto,
     Inv, TypeOK, GuardDiscipline, HandleIsSound, OneInitialiser,
     RequestInv, StageInv, PluginInv, ClosedInv
<1> QED BY <1>1, <1>2, <1>3

(* A step of open that returns an error: the guard is still to be dropped. *)
LEMMA FailStep ==
    ASSUME Inv, NEW t \in Threads, NEW e \in Results,
           pc[t] \in {"check", "quiet", "initdb"}, Fail(t, e),
           UNCHANGED <<once, owner, poisoned, req, idb, panicking, db, hexrays, disk>>
    PROVE  Inv'
BY Constants DEF Fail, Goto,
   Inv, TypeOK, GuardDiscipline, HandleIsSound, OneInitialiser,
   RequestInv, StageInv, PluginInv, ClosedInv

-----------------------------------------------------------------------------
(* Calls of the program that take no lock. *)

LEMMA CallOpenStep ==
    ASSUME Inv, NEW t \in Threads, NEW r \in Requests, CallOpen(t, r)
    PROVE  Inv'
BY Constants DEF CallOpen, Goto,
   Inv, TypeOK, GuardDiscipline, HandleIsSound, OneInitialiser,
   RequestInv, StageInv, PluginInv, ClosedInv

LEMMA CallLibraryStep ==
    ASSUME Inv, NEW t \in Threads, CallLibrary(t)
    PROVE  Inv'
BY Constants DEF CallLibrary, Goto,
   Inv, TypeOK, GuardDiscipline, HandleIsSound, OneInitialiser,
   RequestInv, StageInv, PluginInv, ClosedInv

LEMMA CallVersionStep ==
    ASSUME Inv, NEW t \in Threads, CallVersion(t)
    PROVE  Inv'
BY Constants DEF CallVersion, Goto,
   Inv, TypeOK, GuardDiscipline, HandleIsSound, OneInitialiser,
   RequestInv, StageInv, PluginInv, ClosedInv

LEMMA LibraryCallStep ==
    ASSUME Inv, NEW t \in Threads, LibraryCall(t)
    PROVE  Inv'
<1>1. CASE IsMainThread(t) /\ Goto(t, "idle") /\ UNCHANGED panicking
  BY <1>1, Constants DEF LibraryCall, Goto,
     Inv, TypeOK, GuardDiscipline, HandleIsSound, OneInitialiser,
     RequestInv, StageInv, PluginInv, ClosedInv
<1>2. CASE ~IsMainThread(t) /\ Panic(t)
  BY <1>2, PanicStep DEF LibraryCall
<1> QED BY <1>1, <1>2 DEF LibraryCall

-----------------------------------------------------------------------------
(* The once-cell. *)

LEMMA OnceReadyStep ==
    ASSUME Inv, NEW t \in Threads, OnceReady(t)
    PROVE  Inv'
BY Constants DEF OnceReady, AfterOnce, Goto,
   Inv, TypeOK, GuardDiscipline, HandleIsSound, OneInitialiser,
   RequestInv, StageInv, PluginInv, ClosedInv

LEMMA OnceClaimStep ==
    ASSUME Inv, NEW t \in Threads, OnceClaim(t)
    PROVE  Inv'
BY Constants DEF OnceClaim, Goto,
   Inv, TypeOK, GuardDiscipline, HandleIsSound, OneInitialiser,
   RequestInv, StageInv, PluginInv, ClosedInv

LEMMA InitLibraryStep ==
    ASSUME Inv, NEW t \in Threads, InitLibrary(t)
    PROVE  Inv'
<1>1. once = "running" /\ idb[t] = NoIDB /\ owner # t
  BY Constants DEF InitLibrary, Inv, TypeOK, OneInitialiser, StageInv, GuardDiscipline
<1>2. CASE once' = "ready" /\ Goto(t, AfterOnce(t)) /\ UNCHANGED panicking
  BY <1>1, <1>2, Constants DEF InitLibrary, AfterOnce, Goto,
     Inv, TypeOK, GuardDiscipline, HandleIsSound, OneInitialiser,
     RequestInv, StageInv, PluginInv, ClosedInv
<1>3. CASE once' = "empty" /\ Panic(t)
  BY <1>1, <1>3, Constants DEF InitLibrary, Panic, Landing, Goto,
     Inv, TypeOK, GuardDiscipline, HandleIsSound, OneInitialiser,
     RequestInv, StageInv, PluginInv, ClosedInv
<1> QED BY <1>2, <1>3 DEF InitLibrary

-----------------------------------------------------------------------------
(* open_full_with, under the mutex. *)

LEMMA LockStep ==
    ASSUME Inv, NEW t \in Threads, Lock(t)
    PROVE  Inv'
BY Constants DEF Lock, Goto,
   Inv, TypeOK, GuardDiscipline, HandleIsSound, OneInitialiser,
   RequestInv, StageInv, PluginInv, ClosedInv

LEMMA CheckPathStep ==
    ASSUME Inv, NEW t \in Threads, CheckPath(t)
    PROVE  Inv'
<1>1. CASE Goto(t, "quiet") /\ UNCHANGED ret
  BY <1>1, Constants DEF CheckPath, Goto,
     Inv, TypeOK, GuardDiscipline, HandleIsSound, OneInitialiser,
     RequestInv, StageInv, PluginInv, ClosedInv
<1>2. CASE Fail(t, "FileNotFound")
  BY <1>2, FailStep DEF CheckPath
<1> QED BY <1>1, <1>2 DEF CheckPath

LEMMA OpenQuietStep ==
    ASSUME Inv, NEW t \in Threads, OpenQuiet(t)
    PROVE  Inv'
<1>1. CASE IsMainThread(t) /\ Goto(t, "initdb") /\ UNCHANGED <<ret, panicking>>
  BY <1>1, Constants DEF OpenQuiet, IsMainThread, Goto,
     Inv, TypeOK, GuardDiscipline, HandleIsSound, OneInitialiser,
     RequestInv, StageInv, PluginInv, ClosedInv
<1>2. ASSUME NEW e \in {"InvalidLicense", "Ffi"}, Fail(t, e), UNCHANGED panicking
      PROVE  Inv'
  BY <1>2, FailStep DEF OpenQuiet
<1>3. CASE ~IsMainThread(t) /\ Panic(t) /\ UNCHANGED ret
  BY <1>3, PanicStep DEF OpenQuiet
<1> QED BY <1>1, <1>2, <1>3 DEF OpenQuiet

LEMMA InitDatabaseStep ==
    ASSUME Inv, NEW t \in Threads, InitDatabase(t)
    PROVE  Inv'
<1>1. CASE db' = "open" /\ Goto(t, "analyse") /\ UNCHANGED ret
  BY <1>1, Constants DEF InitDatabase, Goto,
     Inv, TypeOK, GuardDiscipline, HandleIsSound, OneInitialiser,
     RequestInv, StageInv, PluginInv, ClosedInv
<1>2. CASE Fail(t, "OpenDb") /\ UNCHANGED db
  BY <1>2, FailStep DEF InitDatabase
<1> QED BY <1>1, <1>2 DEF InitDatabase

LEMMA AnalyseStep ==
    ASSUME Inv, NEW t \in Threads, Analyse(t)
    PROVE  Inv'
BY Constants DEF Analyse, Fail, Goto,
   Inv, TypeOK, GuardDiscipline, HandleIsSound, OneInitialiser,
   RequestInv, StageInv, PluginInv, ClosedInv

LEMMA InitHexraysStep ==
    ASSUME Inv, NEW t \in Threads, InitHexrays(t)
    PROVE  Inv'
BY Constants DEF InitHexrays, Goto,
   Inv, TypeOK, GuardDiscipline, HandleIsSound, OneInitialiser,
   RequestInv, StageInv, PluginInv, ClosedInv

-----------------------------------------------------------------------------
(* The handle, its destruction, and unwinding. *)

LEMMA SaveOnCloseStep ==
    ASSUME Inv, NEW t \in Threads, SaveOnClose(t)
    PROVE  Inv'
BY Constants DEF SaveOnClose,
   Inv, TypeOK, GuardDiscipline, HandleIsSound, OneInitialiser,
   RequestInv, StageInv, PluginInv, ClosedInv

LEMMA DropIDBStep ==
    ASSUME Inv, NEW t \in Threads, DropIDB(t)
    PROVE  Inv'
BY Constants DEF DropIDB, Goto,
   Inv, TypeOK, GuardDiscipline, HandleIsSound, OneInitialiser,
   RequestInv, StageInv, PluginInv, ClosedInv

LEMMA ProgramPanicsStep ==
    ASSUME Inv, NEW t \in Threads, ProgramPanics(t)
    PROVE  Inv'
BY PanicStep DEF ProgramPanics

LEMMA TermHexraysStep ==
    ASSUME Inv, NEW t \in Threads, TermHexrays(t)
    PROVE  Inv'
BY Constants DEF TermHexrays, Goto,
   Inv, TypeOK, GuardDiscipline, HandleIsSound, OneInitialiser,
   RequestInv, StageInv, PluginInv, ClosedInv

LEMMA CloseDatabaseStep ==
    ASSUME Inv, NEW t \in Threads, CloseDatabase(t)
    PROVE  Inv'
BY Constants DEF CloseDatabase, Goto,
   Inv, TypeOK, GuardDiscipline, HandleIsSound, OneInitialiser,
   RequestInv, StageInv, PluginInv, ClosedInv

LEMMA ReleaseStep ==
    ASSUME Inv, NEW t \in Threads, Release(t)
    PROVE  Inv'
BY Constants DEF Release, Goto,
   Inv, TypeOK, GuardDiscipline, HandleIsSound, OneInitialiser,
   RequestInv, StageInv, PluginInv, ClosedInv

LEMMA UnwoundStep ==
    ASSUME Inv, NEW t \in Threads, Unwound(t)
    PROVE  Inv'
BY Constants DEF Unwound, Goto,
   Inv, TypeOK, GuardDiscipline, HandleIsSound, OneInitialiser,
   RequestInv, StageInv, PluginInv, ClosedInv

-----------------------------------------------------------------------------
LEMMA NextInv == Inv /\ [Next]_vars => Inv'
<1> SUFFICES ASSUME Inv, [Next]_vars PROVE Inv'
  OBVIOUS
<1>1. ASSUME NEW t \in Threads, Progress(t) PROVE Inv'
  BY <1>1, LibraryCallStep, OnceReadyStep, OnceClaimStep, InitLibraryStep, LockStep,
     CheckPathStep, OpenQuietStep, InitDatabaseStep, AnalyseStep, InitHexraysStep,
     TermHexraysStep, CloseDatabaseStep, ReleaseStep, UnwoundStep DEF Progress
<1>2. ASSUME NEW t \in Threads, Program(t) PROVE Inv'
  BY <1>2, CallOpenStep, CallLibraryStep, CallVersionStep, SaveOnCloseStep,
     DropIDBStep, ProgramPanicsStep DEF Program
<1>3. CASE UNCHANGED vars
  BY <1>3 DEF vars,
     Inv, TypeOK, GuardDiscipline, HandleIsSound, OneInitialiser,
     RequestInv, StageInv, PluginInv, ClosedInv
<1> QED BY <1>1, <1>2, <1>3 DEF Next

(* Every reachable state satisfies the inductive invariant. *)
THEOREM Invariance == Spec => []Inv
<1>1. Init => Inv BY InitInv
<1>2. Inv /\ [Next]_vars => Inv' BY NextInv
<1> QED BY <1>1, <1>2, PTL DEF Spec

(* Type correctness: every variable of the session and of its threads stays *)
(* in its set, for any set of threads.                                      *)
THEOREM TypeCorrect == Spec => []TypeOK
<1>1. Inv => TypeOK BY DEF Inv
<1> QED BY <1>1, Invariance, PTL

(* The guard of prepare_library protects exactly the open call, the handle  *)
(* and its drop, in whatever order the threads come.                        *)
THEOREM GuardIsDisciplined == Spec => []GuardDiscipline
<1>1. Inv => GuardDiscipline BY DEF Inv
<1> QED BY <1>1, Invariance, PTL

(* A live IDB handle is the main thread's, under the mutex, over an open    *)
(* database, and its decompiler flag can be trusted.                        *)
THEOREM HandleSoundness == Spec => []HandleIsSound
<1>1. Inv => HandleIsSound BY DEF Inv
<1> QED BY <1>1, Invariance, PTL

(* At most one thread runs the closure of the once-cell, and no thread gets *)
(* near the mutex before the closure has succeeded.                         *)
THEOREM SingleInitialiser == Spec => []OneInitialiser
<1>1. Inv => OneInitialiser BY DEF Inv
<1> QED BY <1>1, Invariance, PTL

(* If the analysis inside open never fails, nobody can find a database or   *)
(* a decompiler left over once the mutex is free.                           *)
THEOREM NoDatabaseOrphaned == ~AnalysisMayFail => (Spec => []NoOrphanDatabase)
<1> SUFFICES ASSUME ~AnalysisMayFail PROVE Spec => []NoOrphanDatabase
  OBVIOUS
<1>1. Inv => NoOrphanDatabase
  BY Constants DEF Inv, TypeOK, NoOrphanDatabase, HandleIsSound, PluginInv, ClosedInv
<1> QED BY <1>1, Invariance, PTL

-----------------------------------------------------------------------------
(* Action properties. *)

(* Only the main thread changes the SDK's database, its decompiler or the   *)
(* file on disk.                                                            *)
THEOREM SDKBelongsToMain == Spec => OnlyMainTouchesTheSDK
<1>1. Inv /\ [Next]_vars => SDKChangeIsMains
  <2> SUFFICES ASSUME Inv, [Next]_vars,
                      <<db, hexrays, disk>>' # <<db, hexrays, disk>>
               PROVE  pc'[Main] # pc[Main] /\ \A t \in Threads \ {Main} : pc'[t] = pc[t]
    BY DEF SDKChangeIsMains
  <2>1. PICK t \in Threads : Progress(t) \/ Program(t)
    BY DEF Next, vars
  <2>2. CASE InitDatabase(t)
    BY <2>2, Constants DEF InitDatabase, Fail, Goto, Inv, TypeOK, StageInv
  <2>3. CASE InitHexrays(t)
    BY <2>3, Constants DEF InitHexrays, Goto, Inv, TypeOK, StageInv
  <2>4. CASE TermHexrays(t)
    BY <2>4, Constants DEF TermHexrays, Goto, Inv, TypeOK, StageInv, HandleIsSound
  <2>5. CASE CloseDatabase(t)
    BY <2>5, Constants DEF CloseDatabase, Goto, Inv, TypeOK, StageInv, HandleIsSound
  <2>6. CASE Program(t)
    BY <2>6 DEF Program, CallOpen, CallLibrary, CallVersion, SaveOnClose, DropIDB,
       ProgramPanics
  <2> QED
    BY <2>1, <2>2, <2>3, <2>4, <2>5, <2>6 DEF Progress, LibraryCall, OnceReady,
       OnceClaim, InitLibrary, Lock, CheckPath, OpenQuiet, Analyse, Release, Unwound
<1> QED BY <1>1, Invariance, PTL DEF Spec, OnlyMainTouchesTheSDK

(* Once poisoned, the mutex stays poisoned and no handle is ever built.     *)
THEOREM PoisonFinality == Spec => PoisonIsFinal
<1>1. Inv /\ [Next]_vars => PoisonRefuses
  <2> SUFFICES ASSUME Inv, [Next]_vars, poisoned
               PROVE  poisoned' /\ \A t \in Threads : idb'[t] = NoIDB
    BY DEF PoisonRefuses
  <2>1. poisoned'
    BY DEF Next, vars, Progress, Program, CallOpen, CallLibrary, CallVersion,
       LibraryCall, OnceReady, OnceClaim, InitLibrary, Lock, CheckPath, OpenQuiet,
       InitDatabase, Analyse, InitHexrays, SaveOnClose, DropIDB, ProgramPanics,
       TermHexrays, CloseDatabase, Release, Unwound
  <2>2. Inv'
    BY NextInv
  <2> QED
    BY <2>1, <2>2 DEF Inv, HandleIsSound
<1> QED BY <1>1, Invariance, PTL DEF Spec, PoisonIsFinal

(* A thread that opens a second session while its first is alive waits for  *)
(* ever, whatever the other threads do.                                     *)
THEOREM SelfDeadlock == Spec => SelfDeadlockIsPermanent
<1>1. Inv /\ [Next]_vars => SelfDeadlockHolds
  <2> DEFINE Still == pc'[Main] = "lock" /\ owner' = Main /\ db' = db
  <2> SUFFICES ASSUME Inv, [Next]_vars, pc[Main] = "lock", owner = Main PROVE Still
    BY DEF SelfDeadlockHolds
  <2>1. CASE UNCHANGED vars
    BY <2>1 DEF vars
  <2>2. ASSUME NEW t \in Threads, Program(t) PROVE Still
    BY <2>2, Constants DEF Program, CallOpen, CallLibrary, CallVersion,
       SaveOnClose, DropIDB, ProgramPanics, Panic, Goto, Inv, TypeOK
  <2>3. ASSUME NEW t \in Threads, Progress(t) PROVE Still
    <3>1. pc[t] \notin Holding
      BY <2>3, Constants DEF Inv, TypeOK, GuardDiscipline
    <3> QED
      BY <2>3, <3>1, Constants DEF Progress, LibraryCall, OnceReady, OnceClaim,
         InitLibrary, Lock, CheckPath, OpenQuiet, InitDatabase, Analyse, InitHexrays,
         TermHexrays, CloseDatabase, Release, Unwound, Panic, Goto, Inv, TypeOK
  <2> QED BY <2>1, <2>2, <2>3 DEF Next
<1> QED BY <1>1, Invariance, PTL DEF Spec, SelfDeadlockIsPermanent

-----------------------------------------------------------------------------
(* Refinement. *)

(* Session implements ExclusiveSession: building the handle begins the      *)
(* session, closing the database ends it with the handle's last wish, a     *)
(* guard dropped by a panic breaks it, and every other step stutters.       *)
THEOREM SessionRefinesExclusiveSession == Spec => ImplementsExclusiveSession
<1> USE DEF LiveSession
<1>1. Init => Exclusive!SessionInit
  BY Constants DEF Init, Exclusive!SessionInit
<1>2. ASSUME Inv, [Next]_vars
      PROVE  [Exclusive!SessionNext]_(Exclusive!absVars)
  <2>1. CASE UNCHANGED vars
    BY <2>1 DEF vars, Exclusive!absVars
  <2>2. ASSUME NEW t \in Threads, InitHexrays(t) PROVE Exclusive!Begin
    BY <1>2, <2>2, Constants DEF InitHexrays, Exclusive!Begin, Inv, TypeOK, RequestInv, StageInv
  <2>3. ASSUME NEW t \in Threads, SaveOnClose(t) PROVE Exclusive!ChangeSave
    BY <1>2, <2>3, Constants DEF SaveOnClose, Exclusive!ChangeSave, Inv, TypeOK, HandleIsSound
  <2>4. ASSUME NEW t \in Threads, CloseDatabase(t) PROVE Exclusive!End
    BY <1>2, <2>4, Constants DEF CloseDatabase, Exclusive!End, Inv, TypeOK, HandleIsSound, StageInv
  <2>5. ASSUME NEW t \in Threads, Release(t)
        PROVE  Exclusive!Break \/ UNCHANGED Exclusive!absVars
    BY <1>2, <2>5, Constants DEF Release, Exclusive!Break, Exclusive!absVars, Inv, TypeOK,
       GuardDiscipline, HandleIsSound, StageInv
  <2>6. ASSUME NEW t \in Threads, Program(t), ~SaveOnClose(t)
        PROVE  UNCHANGED Exclusive!absVars
    BY <2>6 DEF Program, CallOpen, CallLibrary, CallVersion, DropIDB, ProgramPanics,
       Exclusive!absVars
  <2>7. ASSUME NEW t \in Threads, Progress(t),
               ~InitHexrays(t), ~CloseDatabase(t), ~Release(t)
        PROVE  UNCHANGED Exclusive!absVars
    BY <2>7 DEF Progress, LibraryCall, OnceReady, OnceClaim, InitLibrary, Lock, CheckPath,
       OpenQuiet, InitDatabase, Analyse, TermHexrays, Unwound, Exclusive!absVars
  <2> QED
    BY <1>2, <2>1, <2>2, <2>3, <2>4, <2>5, <2>6, <2>7 DEF Next, Exclusive!SessionNext
<1> QED BY <1>1, <1>2, Invariance, PTL DEF Spec, ImplementsExclusiveSession, Exclusive!SessionSpec

\* Session keeps what Views relies on: the last step of open begins a session,
\* the step of drop that terminates the plugin ends it, and all others stutter.
THEOREM SessionKeepsLife == Spec => ImplementsSessionLife
<1> DEFINE opened == idb[Main] # NoIDB /\ pc[Main] # "close"
<1>1. Init => Life!Init
  BY Constants DEF Init, Life!Init
<1>2. ASSUME Inv, [Next]_vars
      PROVE  [Life!Begin \/ Life!End]_<<opened, hexrays>>
  <2>1. CASE UNCHANGED vars
    BY <2>1 DEF vars
  <2>2. ASSUME NEW t \in Threads, InitHexrays(t) PROVE Life!Begin
    <3>1. t = Main /\ idb[Main] = NoIDB /\ idb \in [Threads -> IDBs \cup {NoIDB}]
          /\ pc \in [Threads -> Stages]
      BY <1>2, <2>2 DEF InitHexrays, Inv, TypeOK, StageInv
    <3>2. idb'[Main] # NoIDB /\ pc'[Main] # "close" /\ hexrays' \in BOOLEAN
      BY <1>2, <2>2, <3>1, Constants DEF InitHexrays, Goto, Inv, TypeOK, RequestInv
    <3> QED BY <3>1, <3>2 DEF Life!Begin
  <2>3. ASSUME NEW t \in Threads, TermHexrays(t) PROVE Life!End
    <3>1. t = Main /\ idb[Main] # NoIDB /\ (hexrays => idb[Main].decompiler)
          /\ pc[Main] # "close" /\ pc'[Main] = "close"
      BY <1>2, <2>3, Constants DEF TermHexrays, Goto, Inv, TypeOK, HandleIsSound, StageInv, PluginInv
    <3>2. hexrays' = FALSE
      BY <1>2, <2>3, <3>1 DEF TermHexrays, Inv, TypeOK
    <3> QED BY <3>1, <3>2 DEF Life!End
  <2>4. ASSUME NEW t \in Threads, CloseDatabase(t) PROVE UNCHANGED <<opened, hexrays>>
    BY <1>2, <2>4, Constants DEF CloseDatabase, Goto, Inv, TypeOK, HandleIsSound, StageInv
  <2>5. ASSUME NEW t \in Threads, SaveOnClose(t) PROVE UNCHANGED <<opened, hexrays>>
    BY <1>2, <2>5, Constants DEF SaveOnClose, Inv, TypeOK, HandleIsSound
  <2>6. ASSUME NEW t \in Threads, Program(t), ~SaveOnClose(t)
        PROVE  UNCHANGED <<opened, hexrays>>
    <3>1. UNCHANGED <<idb, hexrays>> /\ pc[t] = "idle"
      BY <2>6 DEF Program, CallOpen, CallLibrary, CallVersion, DropIDB, ProgramPanics
    <3>2. \E stage \in Stages \ {"close"} : pc' = [pc EXCEPT ![t] = stage]
      BY <2>6 DEF Program, CallOpen, CallLibrary, CallVersion, DropIDB, ProgramPanics,
         Panic, Landing, Goto
    <3> QED BY <1>2, <3>1, <3>2, Constants DEF Inv, TypeOK
  <2>7. ASSUME NEW t \in Threads, Progress(t),
               ~InitHexrays(t), ~TermHexrays(t), ~CloseDatabase(t)
        PROVE  UNCHANGED <<opened, hexrays>>
    <3>1. UNCHANGED <<idb, hexrays>> /\ pc[t] # "close"
      BY <2>7 DEF Progress, LibraryCall, OnceReady, OnceClaim, InitLibrary, Lock, CheckPath,
         OpenQuiet, InitDatabase, Analyse, Release, Unwound
    <3>2. \E stage \in Stages \ {"close"} : pc' = [pc EXCEPT ![t] = stage]
      BY <2>7 DEF Progress, LibraryCall, OnceReady, OnceClaim, InitLibrary, Lock, CheckPath,
         OpenQuiet, InitDatabase, Analyse, Release, Unwound, Panic, Fail, Landing, Goto, AfterOnce
    <3> QED BY <1>2, <3>1, <3>2, Constants DEF Inv, TypeOK
  <2> HIDE DEF opened
  <2> QED BY <1>2, <2>1, <2>2, <2>3, <2>4, <2>5, <2>6, <2>7 DEF Next
<1> QED BY <1>1, <1>2, Invariance, PTL DEF Spec, ImplementsSessionLife, Life!Spec
=============================================================================

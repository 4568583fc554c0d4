\* The main thread and two workers; auto_wait succeeds.
CONSTANTS
    Main = main
    Threads = {main, w1, w2}
    NoThread = NoThread
    NoIDB = NoIDB
    NoReq = NoReq
    AnalysisMayFail = FALSE
SPECIFICATION Spec
SYMMETRY Workers
INVARIANTS
    TypeOK
    GuardDiscipline
    HandleIsSound
    OneInitialiser
    NoOrphanDatabase
PROPERTIES
    OnlyMainTouchesTheSDK
    PoisonIsFinal
    SelfDeadlockIsPermanent
    ImplementsExclusiveSession
    ImplementsSessionLife
\* The main thread may wait for itself and every worker may have ended.
CHECK_DEADLOCK FALSE

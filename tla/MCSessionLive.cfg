\* The main thread and one worker; auto_wait may fail; every thread keeps running.
CONSTANTS
    Main = main
    Threads = {main, w1}
    NoThread = NoThread
    NoIDB = NoIDB
    NoReq = NoReq
    AnalysisMayFail = TRUE
SPECIFICATION FairSpec
PROPERTIES
    OpenFinishes
    DropFinishes
    InitSettles
\* The main thread may wait for itself and every worker may have ended.
CHECK_DEADLOCK FALSE

\* The main thread alone; auto_wait may fail while opening.
CONSTANTS
    Main = main
    Threads = {main}
    NoThread = NoThread
    NoIDB = NoIDB
    NoReq = NoReq
    AnalysisMayFail = TRUE
SPECIFICATION Spec
INVARIANT OpenErrorMeansNotOpen
CHECK_DEADLOCK FALSE

\* Four threads, as in js_main.c; every step may fail.
CONSTANTS
    Count = 4
    MayFail <- Steps
SPECIFICATION Spec
INVARIANTS
    TypeOK
    WorkersBacked
    CleanExit
CHECK_DEADLOCK FALSE

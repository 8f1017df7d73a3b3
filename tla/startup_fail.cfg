\* The system refuses to create a thread.
CONSTANTS
    Count = 4
    MayFail <- Creation
SPECIFICATION Spec
INVARIANTS
    NothingFreedInUse
CHECK_DEADLOCK FALSE

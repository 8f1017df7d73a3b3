\* Two connections, one request each, two timeouts for each script.
CONSTANTS
    Conn = {c1, c2}
    MaxReq = 1
    ReqLen = 1
    RespLen = 1
    MaxTimeouts = 2
    MaxDelay = 2
    MayHang = TRUE
SPECIFICATION Spec
SYMMETRY Symmetry
INVARIANTS
    TypeOK
    CursorInTree
    TimerOwnerAlive
    SuspendedIffExecuting
    SettledHasTimeout
    BatchFresh

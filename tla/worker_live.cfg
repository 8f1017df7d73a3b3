\* One connection, three pipelined requests of two units, answers of two units, two
\* timeouts for each script; scripts settle.
CONSTANTS
    Conn = {c1}
    MaxReq = 3
    ReqLen = 2
    RespLen = 2
    MaxTimeouts = 2
    MaxDelay = 1
    MayHang = FALSE
SPECIFICATION FairSpec
INVARIANTS
    InterestMatchesState
    NoStrandedRequest
    WritingHasOutput
PROPERTIES
    ServesInOrder
    EveryRequestAnswered
    HungUpReclaimed

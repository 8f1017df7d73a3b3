\* Two requests of eleven kinds on one connection, cut anywhere, pipelined or not.
CONSTANTS
    Request <- Requests
    Mocks <- Calls
    FirstCap = 4
    MaxRequests = 2
SPECIFICATION Spec
INVARIANTS
    TypeOK
    InputAligned
    BuffersFit
PROPERTIES
    Exchanges
CHECK_DEADLOCK FALSE

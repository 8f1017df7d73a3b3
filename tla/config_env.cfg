\* The documented forms of `listen`, with PORT in the environment and without.
CONSTANTS
    loopback = loopback
    Script <- Scripts
    Name = {"HOME", "PORT"}
    Environment <- Environments
    Ipv4 <- Hosts
    Undefined = Undefined
    NoHost = NoHost
SPECIFICATION Spec
INVARIANT
    ListensWhereScriptSays
CHECK_DEADLOCK FALSE

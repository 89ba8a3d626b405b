SPECIFICATION Spec
CONSTANTS
    Servers = {"s1"}
    Modules = {"m1"}
    ServerID <- OwnIDs
    Name <- OwnNames
    FirstId = 1
    MaxModuleId = 255
    IdMask = 16
    Transports = {"net"}
    Ops = {"start", "disconnect"}
    MaxOps = 2
    MaxConns = 2
INVARIANTS
    LastWord
CHECK_DEADLOCK FALSE

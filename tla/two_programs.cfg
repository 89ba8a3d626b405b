SPECIFICATION Spec
CONSTANTS
    Servers = {"s1"}
    Modules = {"m1", "m2"}
    ServerID <- OwnIDs
    Name <- OwnNames
    FirstId = 1
    MaxModuleId = 255
    IdMask = 16
    Transports = {"net"}
    Ops = {"start", "connect", "call"}
    MaxOps = 4
    MaxConns = 3
INVARIANTS
    CallsReachTheirModule
    AssignedIdIsOurs
    ReportsReachTheirObject
    QuietMutual
CHECK_DEADLOCK FALSE

SPECIFICATION Spec
CONSTANTS
    Servers = {"s1"}
    Modules = {"m1"}
    ServerID <- OwnIDs
    Name <- OwnNames
    FirstId = 1
    MaxModuleId = 255
    IdMask = 16
    Transports = {"net"}
    Ops = {"start", "crash", "shutdown", "discover", "update"}
    MaxOps = 5
    MaxConns = 5
INVARIANTS
    TypeOK
    ExposedOnce
    QuietAgreement
    QuietOffline
CHECK_DEADLOCK FALSE

SPECIFICATION Spec
CONSTANTS
    Servers = {"s1", "s2"}
    Modules = {"m1"}
    ServerID <- OwnIDs
    Name <- OwnNames
    FirstId = 1
    MaxModuleId = 255
    IdMask = 16
    Transports = {"ipc"}
    Ops = {"start", "discover", "srvcrash", "srvstart"}
    MaxOps = 6
    MaxConns = 3
INVARIANTS
    QuietServers
CHECK_DEADLOCK FALSE

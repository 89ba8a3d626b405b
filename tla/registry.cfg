SPECIFICATION FairSpec
CONSTANTS
    Servers = {"s1"}
    Modules = {"m1", "m2"}
    ServerID <- OwnIDs
    Name <- SameNames
    FirstId = 1
    MaxModuleId = 2
    IdMask = 16
    Transports = {"net"}
    Ops = {"start", "crash", "shutdown", "disconnect", "discover"}
    MaxOps = 3
    MaxConns = 3
INVARIANTS
    LiveDistinct
    ChannelLeadsHome
    DestroyedOnce
    CreatedBeforeDestroyed
PROPERTIES
    RegistryImplemented
    OfflineForgotten
    ObjectAnnounced
CHECK_DEADLOCK FALSE

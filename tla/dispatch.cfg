SPECIFICATION FairSpec
CONSTANTS
    None = None
    Known = 2
    MaxId = 3
    MaxDepth = 4
    MaxOps = 3
INVARIANTS
    TypeOK
    OwnFrames
    LocksBalanced
    OnlyDisconnectsDisturb
    SafeWithoutDisconnect
PROPERTIES
    EverythingEnds
CHECK_DEADLOCK FALSE

SPECIFICATION Spec
CONSTANTS
    Payloads <- TrickyPayloads
    ReadSize = 8
    BufferSize = 6
    MaxSent = 1
INVARIANTS
    NothingLost
CHECK_DEADLOCK FALSE

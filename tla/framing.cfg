SPECIFICATION FairSpec
CONSTANTS
    Payloads <- TrickyPayloads
    ReadSize = 8
    BufferSize = 6
    MaxSent = 3
INVARIANTS
    TypeOK
    CacheFits
PROPERTIES
    ChannelImplemented
    EventuallyDelivered
CHECK_DEADLOCK FALSE

SPECIFICATION Spec
CONSTANTS
    Ints <- EdgeInts
    Strings <- EdgeStrings
    MaxFields = 2
INVARIANTS
    BufferExact
    RoundTrip
    RemainingTold
CHECK_DEADLOCK FALSE

SPECIFICATION FairSpec
CONSTANTS
    Servers = {"s1", "s2"}
    Attributes = {"x", "y"}
    Methods = {"f", "p"}
    Writable = {"x"}
    Void = {"p"}
    Assigned = {1, 2}
    Wire = 2
    Initial <- Zeros
    None = None
    MaxOps = 4
INVARIANTS
    TypeOK
    NoNullSetter
    ToldOfEveryChange
    QuietValues
    AnswersAreTrue
    AnswersInOrder
PROPERTIES
    MirrorImplemented
    CallsAnswered
CHECK_DEADLOCK FALSE

SPECIFICATION Spec
CONSTANTS
    Pids = {p1, p2, p3}
    Python2 = TRUE
    MaxOps = 7
SYMMETRY Symmetry
INVARIANTS
    TypeOK
    LiveFileKept
    ReachedAll
CHECK_DEADLOCK FALSE

SPECIFICATION Spec
CONSTANTS
    Pids = {p1, p2, p3}
    Python2 = TRUE
    MaxOps = 4
INVARIANTS
    EngineSurvives
CHECK_DEADLOCK FALSE

SPECIFICATION Spec
CONSTANTS
    MaxEdits = 1
    Saver = {s1}
    Final = {f1, f2}
    Worker = Worker
    None = None
    RedisUp = TRUE
    MaxFailures = 0
INVARIANTS
    ReclaimLosesNothing
CHECK_DEADLOCK FALSE

SPECIFICATION Spec
CONSTANTS
    Files = {f1}
    MaxCalls = 1
    MaxFetches = 1
    MaxDrops = 1
INVARIANTS
    FailedDeletionKeepsText
CHECK_DEADLOCK FALSE

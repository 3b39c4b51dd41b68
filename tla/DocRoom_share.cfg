SPECIFICATION Spec
CONSTANTS
    Conn = {c1, c2, c3}
    NoDoc = NoDoc
    MaxEvicts = 0
INVARIANTS
    ConcurrentConnectionsShareRoom
CHECK_DEADLOCK FALSE

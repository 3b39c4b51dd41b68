SPECIFICATION FairSpec
CONSTANTS
    MaxEdits = 2
    Saver = {s1}
    Final = {f1}
    Worker = Worker
    None = None
    RedisUp = TRUE
    MaxFailures = 1
INVARIANTS
    SequentialSavesLoseNothing
    SequentialRoomsOpenComplete
    SaverIsSound
PROPERTIES
    EditsReachDatabase
CHECK_DEADLOCK FALSE

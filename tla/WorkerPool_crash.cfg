SPECIFICATION FairSpec
CONSTANTS
    PoolSize = 2
    MaxTasks = 2
    MaxThreads = 5
    MaxCrashes = 1
PROPERTIES
    TasksAreAnswered
CHECK_DEADLOCK FALSE

SPECIFICATION FairSpec
CONSTANTS
    NumWorkers = 2
    MaxTasks = 2
    NumTasks = 3
    BadStart <- NoWorker
    RecycleMayFail = TRUE
INVARIANTS
    TypeOK
    NothingLost
    StatsHonest
PROPERTIES
    ImplementsTaskService
    EveryCallEnds

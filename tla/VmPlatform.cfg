SPECIFICATION FairSpec
CONSTANTS
    t1 = t1
    t2 = t2
    Tasks <- MCTasks
    MaxLives = 2
    Modes <- AllModes
INVARIANTS
    TypeOK
    RunsWhereItBelongs
    NothingLeftBehind
PROPERTIES
    CreatorNeverStuck

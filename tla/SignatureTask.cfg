SPECIFICATION Spec
CONSTANTS
    i1 = i1
    i2 = i2
    Id <- MCId
    DefaultId = i1
    NoId = NoId
    MaxRequests = 3
CHECK_DEADLOCK FALSE
INVARIANTS
    TypeOK
    OnlyOwnTraces
    CleanBetweenTasks
PROPERTIES
    SplitEndsInTime

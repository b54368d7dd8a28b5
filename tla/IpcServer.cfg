SPECIFICATION FairSpec
CONSTANTS
    c1 = c1
    c2 = c2
    task1 = task1
    task2 = task2
    query1 = query1
    query2 = query2
    noJson = noJson
    tooLong = tooLong
    stop = stop
    None = None
    NoId = NoId
    Conn <- Connections
    Request <- Requests
    Scripts <- Scenarios
    Kind <- KindOf
    NumFds = 2
    SockCap = 1
INVARIANTS
    TypeOK
    DescriptorsOwned
    RequestsKept
    SleepsOnlyWhenDrained
PROPERTIES
    EveryRequestEnds

SPECIFICATION FairSpec
CONSTANTS
    MaxServers = 2
    k1 = k1
    k2 = k2
    StopCall <- TwoStops
    None = None
INVARIANTS
    TypeOK
    ServersTracked
    StoppedIsDead
PROPERTY
    EveryCallSettles

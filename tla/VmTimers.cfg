SPECIFICATION TimersSpec
CONSTANTS
    None = None
    Threshold = 2
    Delay <- MCDelay
    Code <- MCCode
    MaxTimers = 4
    MaxTime = 2
INVARIANTS
    TimersTypeOK
    EntriesMatch
PROPERTIES
    StartsInOrder

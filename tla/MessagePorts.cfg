SPECIFICATION Spec
CONSTANTS
    c1 = c1
    c2 = c2
    l1 = l1
    l2 = l2
    None = None
    Channel <- MCChannel
    Listener <- MCListener
    MaxPosts = 2
SYMMETRY MCSymmetry
CONSTRAINT Bounded
INVARIANTS
    TypeOK
    Delivered
    CountsMatch
PROPERTIES
    ClosedIsSilent

SPECIFICATION Spec
CONSTANTS
    a = a
    b = b
    i1 = i1
    i2 = i2
    None = None
    Garbled = Garbled
    Call <- TwoCalls
    Id <- TwoIds
    IdOf <- OwnIds
    Oversize <- OneOversize
    MaxSockets = 2
    Overlapping = FALSE
PROPERTY
    DisconnectClosesSocket

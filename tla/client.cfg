SPECIFICATION FairSpec
CONSTANTS
    None = None
    k1 = k1
    k2 = k2
    s1 = s1
    Ids = {k1, k2}
    Senders = {s1}
CHECK_DEADLOCK FALSE
INVARIANTS
    TypeOK
    MessagesNamePeer
    ConnectedIsRead
    SweepTakesAll
PROPERTIES
    LostIsNoticed
    DisconnectEnds
    SweepEnds

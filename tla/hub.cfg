SPECIFICATION FairSpec
CONSTANTS
    None = None
    h1 = h1
    h2 = h2
    w1 = w1
    w2 = w2
    MaxLimit = 1000
    Handlers = {h1, h2}
    Sockets = {w1, w2}
    PageRows = 1
    Room = 1
    Watched = {w1}
    MaxMessages = 2
CHECK_DEADLOCK FALSE
INVARIANTS
    TypeOK
    NothingMissed
    ShownTwiceAtMost
    LiveOrdered
    NoneLeftBehind
PROPERTIES
    BroadcastEnds

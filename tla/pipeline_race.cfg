SPECIFICATION Spec
CONSTANTS
    s1 = s1
    s2 = s2
    k1 = k1
    None = None
    MaxLimit = 1000
    ServerConns <- Two
    ClientConns = {}
    Addrs <- OneAddr
    PeerAddr <- Reconnect
    Requests <- WRR
    Bodies <- ReplyOnce
    ReplyTemplates <- Templates
    MaxRequests = 3
    MaxRules = 1
    MaxResets = 0
INVARIANTS
    TypeOK
    FiredOvershootBounded
    RepliesWithinFired
    RegisteredPeersAreServed
    ReplyFollowsItsRequest

SPECIFICATION FairSpec
CONSTANTS
    s1 = s1
    s2 = s2
    k1 = k1
    None = None
    MaxLimit = 1000
    ServerConns = {s1}
    ClientConns = {k1}
    Addrs <- TwoAddrs
    PeerAddr <- Distinct
    Requests <- WRR
    Bodies <- DropThenReply
    ReplyTemplates <- Templates
    MaxRequests = 2
    MaxRules = 1
    MaxResets = 0
PROPERTIES
    HandlerReturns

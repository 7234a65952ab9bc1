SPECIFICATION Spec
CONSTANTS
    s1 = s1
    s2 = s2
    k1 = k1
    None = None
    MaxLimit = 1000
    ServerConns <- Two
    ClientConns = {}
    Addrs <- TwoAddrs
    PeerAddr <- Distinct
    Requests <- WRR
    Bodies <- ReplyOnce
    ReplyTemplates <- Templates
    MaxRequests = 2
    MaxRules = 1
    MaxResets = 0
INVARIANTS
    CountLimit

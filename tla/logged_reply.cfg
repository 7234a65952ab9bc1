SPECIFICATION Spec
CONSTANTS
    s1 = s1
    s2 = s2
    k1 = k1
    None = None
    MaxLimit = 1000
    ServerConns = {s1}
    ClientConns = {k1}
    Addrs <- TwoAddrs
    PeerAddr <- Distinct
    Requests <- WRR
    Bodies <- DelayedReplyOnce
    ReplyTemplates <- Templates
    MaxRequests = 1
    MaxRules = 1
    MaxResets = 0
INVARIANTS
    LoggedReplyWasSent

SPECIFICATION Spec
CONSTANTS
    s1 = s1
    s2 = s2
    k1 = k1
    None = None
    MaxLimit = 1000
    ServerConns = {s1}
    ClientConns = {}
    Addrs <- TwoAddrs
    PeerAddr <- Distinct
    Requests <- WRRorSWR
    Bodies <- SilentAndReply
    ReplyTemplates <- Templates
    MaxRequests = 2
    MaxRules = 2
    MaxResets = 1
INVARIANTS
    HeldRuleIsCurrent
    SessionsOrderedPerAssociation

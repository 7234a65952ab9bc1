SPECIFICATION FairSpec
CONSTANTS
    None = None
    l1 = l1
    l2 = l2
    c1 = c1
    c2 = c2
    c3 = c3
    Starts = {l1, l2}
    Port <- OnePort
    Host <- TwoHosts
    Conns = {c1, c2, c3}
    PeerAddr <- TwoPeers
CHECK_DEADLOCK FALSE
INVARIANTS
    TypeOK
    StopLeavesNothing
    ListedPeersAreServed
    DownIsReported
PROPERTIES
    StopTerminates

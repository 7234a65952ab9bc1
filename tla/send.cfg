SPECIFICATION SendSpec
CONSTANTS
    None = None
    Junk = Junk
    NotAPdu = NotAPdu
    l1 = l1
    l2 = l2
    c1 = c1
    c2 = c2
    c3 = c3
    r1 = r1
    Starts = {l1, l2}
    Port <- TwoPorts
    Host <- OneHost
    Conns = {c1, c2, c3}
    PeerAddr <- TwoPeers
    Requests = {r1}
    MaxConns = 2
    Bodies <- SomeBodies
CHECK_DEADLOCK FALSE
INVARIANTS
    SendTypeOK
    EveryPeerServed
    SentOnce

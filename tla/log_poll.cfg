SPECIFICATION FairSpec
CONSTANTS
    c1 = c1
    c2 = c2
    None = None
    MaxLimit = 2
    Clients = {c1, c2}
    Direction <- MixedDirections
    Limit <- MixedLimits
    Writers = {w1}
    MaxMessages = 3
    MaxResets = 1
INVARIANTS
    TypeOK
    PollNeverSkips
    ReceivedOnce
    ExportKeepsOldest
PROPERTIES
    LogIsFeed
    EventuallySeen

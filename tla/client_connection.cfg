SPECIFICATION ConnectionFairSpec
CONSTANTS
    RequestHeads <- Heads
    MaxHeadLines = 2
    MaxPieces = 8
    MaxChunk = 2
    NoHead = NoHead
    BadValue = BadValue
    RelayBytes <- TwoAndOne
    ReaderLimit = 2
    HighWater = 0
    ReadMax = 1
    RelayFaults = TRUE
    s1 = s1
    s2 = s2
    x = x
    p1 = p1
    p2 = p2
    p3 = p3
    None = None
    Senders <- TwoPlusOne
    Expected <- SameHost
    Peers <- ThreePeers
    FamilyOf <- Mixed
    Families = {"ipv4", "ipv6"}
    MaxMappings = 2
    Ttl = 1
    MaxPending = 2
INVARIANTS
    HttpExchangeSound
    SocksRepliesTruthful
    AssociationSound
PROPERTIES
    RelayIsBoundedPipe
    RepliesSolicited
    ConnectionsFinish
\* A connection that is closed stays closed, and peers need not do anything.
CHECK_DEADLOCK FALSE

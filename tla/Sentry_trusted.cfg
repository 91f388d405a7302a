SPECIFICATION SentrySpec
CONSTANTS
    Peers = {p1, p2}
    Ips = {i1}
    Ports = {1}
    MAX_DC_PEERS = 0
    MAX_BANNED_PEERS = 1
    BANNED_PEERS_PER_IP_THRESHOLD = 1
    TargetPeers = 1
    ReportAnyPeer = FALSE
    Backpressure = FALSE
    BanOutlastsDisconnect = TRUE
    MaxEvents = 1
    MaxQueuedDials = 1
    MaxDials = 1
    p1 = p1
    p2 = p2
    i1 = i1
SYMMETRY Symmetry
INVARIANTS
    ExplicitMatchTrusted

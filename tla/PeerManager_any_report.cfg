SPECIFICATION Spec
CONSTANTS
    Peers = {p1, p2}
    Ips = {i1}
    Ports = {1}
    MAX_DC_PEERS = 1
    MAX_BANNED_PEERS = 1
    BANNED_PEERS_PER_IP_THRESHOLD = 1
    TargetPeers = 1
    ReportAnyPeer = TRUE
    Backpressure = TRUE
    BanOutlastsDisconnect = TRUE
    MaxEvents = 2
    MaxQueuedDials = 1
    MaxDials = 1
    p1 = p1
    p2 = p2
    i1 = i1
SYMMETRY Symmetry
INVARIANTS
    TypeOK
    DisconnectedCounted
    BanEnforced
    ConnectedIsConnected
    TimersFollowConnections
    ConnectedIsAnnounced
PROPERTIES
    ShrinksToFit

SPECIFICATION PeerCountFairSpec
CONSTANTS
    Peers = {p1, p2, p3, p4}
    Profiles <- SomeProfiles
    AttSubnets = {1, 2}
    SyncSubnets = {1}
    TargetPeers = 1
    PEER_EXCESS_FACTOR = 100
    PRIORITY_PEER_EXCESS = 200
    MIN_OUTBOUND_ONLY_FACTOR = 20
    TARGET_OUTBOUND_ONLY_FACTOR = 30
    MIN_SYNC_COMMITTEE_PEERS = 1
    UsizeValues = 16
    p1 = p1
    p2 = p2
    p3 = p3
    p4 = p4
INVARIANTS
    PruningSafe
    PrunedForAReason
    NoWrapWithoutDuty
PROPERTIES
    PruningEnds

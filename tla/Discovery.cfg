SPECIFICATION DiscoveryFairSpec
CONSTANTS
    Subnets = {s1, s2}
    MAX_DISCOVERY_RETRY = 1
    MAX_CONCURRENT_SUBNET_QUERIES = 1
    MAX_SUBNETS_IN_QUERY = 2
    MaxTime = 1
    s1 = s1
    s2 = s2
INVARIANTS
    QueriesConsistent
PROPERTIES
    NotForgotten
    QueriesMove

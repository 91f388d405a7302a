SPECIFICATION LimiterSpec
CONSTANTS
    ping = ping
    range = range
    Peers = {p1}
    Protocols = {ping, range}
    replenish_all_every <- MCPeriod
    max_tokens <- MCTokens
    ExpectedResponses <- MCExpected
    NanosecsRange = 16
    MaxTime = 9
    MaxEvents = 1
    p1 = p1
INVARIANTS
    QuotaKept
    WaitIsExact
PROPERTIES
    ImplementsBuckets

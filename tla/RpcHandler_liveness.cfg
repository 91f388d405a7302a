SPECIFICATION HandlerFairSpec
CONSTANTS
    SingleRequests = {}
    BlockRequests = {b1}
    Goodbye = g
    max_dial_negotiated = 2
    IO_ERROR_RETRIES = 2
    MAX_INBOUND_SUBSTREAMS = 1
    MaxCount = 2
    MaxInboundRequests = 1
    MaxPending = 1
    b1 = b1
    g = g
CHECK_DEADLOCK FALSE
PROPERTIES
    SubstreamsEnd
    ShutdownEnds

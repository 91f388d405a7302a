SPECIFICATION CodecSpec
CONSTANTS
    KnownForks <- MCForks
    Unknown = Unknown
    BlockLengths <- MCBlockLengths
    FixedLengths <- MCFixedLengths
    ERROR_TYPE_MAX = 1
    BLOCKS_BY_ROOT_REQUEST_MAX = 2
    max_packet_size = 4
    CONTEXT_BYTES_LEN = 2
    Compressed <- MCCompressed
    MaxCompressLen <- MCMaxCompressLen
    VarintLen <- MCVarintLen
    MaxVarintLen = 2
    ForeignLengths = {0, 2, 3, 5}
    MaxChunks = 2
CHECK_DEADLOCK FALSE
INVARIANTS
    InOrder
    WaitsOnlyForMore
    RejectsOnlyForeign

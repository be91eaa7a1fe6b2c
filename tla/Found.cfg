SPECIFICATION ExchangeSpec
CONSTANTS
    ArraySize = 2
    StringSize = 3
    Messages <- MessageNames
    Descriptor <- Descriptors
    Buffers <- NoBuffers
    Views <- Queries
    BufferSize = 64
    Fills = {0, 8}
    Founds <- TupleLists
    Codes = {0, 13, 42}
    Arrivals <- AnyPart
    AnswerArrivals = {0, 1, 2, 64}
INVARIANT FoundIsShown
CHECK_DEADLOCK FALSE

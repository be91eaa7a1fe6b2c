SPECIFICATION FairSpec
CONSTANTS
    ArraySize = 2
    StringSize = 3
    Messages <- MessageNames
    Descriptor <- Descriptors
    Buffers <- SomeBuffers
    MaxFields = 2
INVARIANTS
    ReadableInv
    WritesInside
    StreamsNest
    OkIsReadable
    DecoderInv
PROPERTIES
    DecodingEnds
\* pb_decode returns.
CHECK_DEADLOCK FALSE

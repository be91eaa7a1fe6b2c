SPECIFICATION AnySpec
CONSTANTS
    PatternSize = 1
    MinimalWords = 1
    Types <- IntegerOnly
    FirstOffset = 100
    Signature = 999
    MaxIds = 4
    MaxSlots = 6
    Parents = {0, 1, 2, 3}
    Ints = {1}
    Strings = {}
    MaxSeek = 900
INVARIANTS
    TypeOK
    EntriesReachUntilAstray
    RemovedOnceUntilAstray
    OthersReadableUntilAstray
PROPERTIES
    CallsEnd
\* A client makes no further call once one has left the file or gone astray.
CHECK_DEADLOCK FALSE

SPECIFICATION ShallowSpec
CONSTANTS
    PatternSize = 1
    MinimalWords = 1
    Types <- IntegerOnly
    FirstOffset = 100
    Signature = 999
    MaxIds = 4
    MaxSlots = 8
    Parents = {0, 1}
    Ints = {0, 1}
    Strings = {}
    MaxSeek = 900
INVARIANTS
    ShallowInv
    ArrayApart
    CallTraced
PROPERTIES
    KeepsPromise
\* With MaxSlots slots in the file and no tuple left, a client has no call to make.
CHECK_DEADLOCK FALSE

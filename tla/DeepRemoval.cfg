SPECIFICATION TreeSpec
CONSTANTS
    PatternSize = 1
    MinimalWords = 4
    Types <- IntegerOnly
    FirstOffset = 100
    Signature = 999
    MaxIds = 5
    MaxSlots = 9
    Parents = {0, 1, 2, 3}
    Ints = {0}
    Strings = {}
    MaxSeek = 900
PROPERTY KeepsPromise
CHECK_DEADLOCK FALSE

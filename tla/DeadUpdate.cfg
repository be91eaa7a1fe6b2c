SPECIFICATION FairSpec
CONSTANTS
    PatternSize = 3
    MinimalWords = 2
    Types <- ThreeIntegers
    FirstOffset = 100
    Signature = 999
    MaxIds = 3
    MaxSlots = 9
    Parents = {0}
    Ints = {0, 1}
    Strings = {}
    MaxSeek = 900
PROPERTY KeepsPromise
CHECK_DEADLOCK FALSE

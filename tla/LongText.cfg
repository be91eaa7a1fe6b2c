SPECIFICATION GrowingSpec
CONSTANTS
    PatternSize = 1
    MinimalWords = 2
    Types <- StringOnly
    FirstOffset = 100
    Signature = 999
    MaxIds = 2
    MaxSlots = 9
    Parents = {0}
    Ints = {}
    Strings <- UpToTwo
    MaxSeek = 900
PROPERTY KeepsPromise

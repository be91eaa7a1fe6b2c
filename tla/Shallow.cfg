SPECIFICATION ShallowSpec
CONSTANTS
    PatternSize = 2
    MinimalWords = 3
    Types <- IntegerString
    FirstOffset = 100
    Signature = 999
    MaxIds = 4
    MaxSlots = 12
    Parents = {0, 1, 2, 3}
    Ints = {0}
    Strings <- TwoTexts
    MaxSeek = 900
INVARIANTS
    StaysInside
    EntriesReachTuples
    StringsBelong
    NoSlotWasted
    RemovedOnce
    OthersReadable
PROPERTIES
    CallsEnd
    KeepsPromise

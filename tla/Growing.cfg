SPECIFICATION GrowingSpec
CONSTANTS
    PatternSize = 1
    MinimalWords = 2
    Types <- StringOnly
    FirstOffset = 100
    Signature = 999
    MaxIds = 11
    MaxSlots = 30
    Parents = {0}
    Ints = {}
    Strings <- TwoTexts
    MaxSeek = 900
INVARIANTS
    GrowingInv
    ArrayApart
    StringsBelong
    NoSlotWasted
    GrowingTraced
PROPERTIES
    KeepsPromise

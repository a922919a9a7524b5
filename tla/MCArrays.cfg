CONSTANTS
    MaxSize = 4
    None = None  e1 = e1  e2 = e2  NUL = NUL
    HeapElements <- MCElements
    Capacities = {0, 1, 7}
    InitCapacity = 3
    MaxCapacity = 7
    LegacyMaxCapacity = 6
    SegElements <- MCSegElements
    SegArrays <- MCArray
    MaxIndices = 6
    MaxValue = 1
    CharBit = 3
    MaxBits = 7
    Strings <- MCStrings
    MaxPrealloc = 3
    MaxLen = 3
    Texts <- MCTexts
    CharSets <- MCCharSets
    Reserves = {4}
SPECIFICATION SpecEach
INVARIANTS LowForest HeapOrder QueriesFold SumsExact BitsMatch StringExact
PROPERTIES ImplementsPartition ImplementsBag

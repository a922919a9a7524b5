CONSTANTS
    v1 = v1  v2 = v2  v3 = v3
    None = None
    Keys <- WrappingKeys
    Values = {v1}
    Owning = FALSE
    InitCapacity = 8
    MaxCapacity = 8
SPECIFICATION Spec
INVARIANTS LookupsMatch
CHECK_DEADLOCK FALSE

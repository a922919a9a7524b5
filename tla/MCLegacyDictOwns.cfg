CONSTANTS
    v1 = v1  v2 = v2  v3 = v3
    None = None
    Keys <- CollidingKeys
    Values = {v1, v2, v3}
    Owning = TRUE
    InitCapacity = 8
    MaxCapacity = 8
SPECIFICATION Spec
INVARIANTS StoredValuesOwned
CHECK_DEADLOCK FALSE

CONSTANTS
    v1 = v1  v2 = v2  v3 = v3
    None = None
    Keys <- ForwardKeys
    Values = {v1, v2}
    Owning = FALSE
    InitCapacity = 2
    MaxCapacity = 16
SPECIFICATION Spec
INVARIANTS LookupsMatch SizeExact
PROPERTIES CallReturns
CHECK_DEADLOCK FALSE

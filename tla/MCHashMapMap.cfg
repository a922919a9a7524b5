CONSTANTS
    k1 = k1  k2 = k2  k3 = k3  k4 = k4  k5 = k5  k6 = k6  k7 = k7
    v1 = v1  v2 = v2
    None = None
    Keys = {k1, k2, k3, k4}
    Values = {v1, v2}
    Hash <- MCHashKeys
    InitCapacity = 4
    MaxCapacity = 8
    Requests = {0, 3, 4}
    Sources <- MCSources
SPECIFICATION CopySpec
INVARIANTS LiveCopies CopyExact
PROPERTIES ImplementsMap CallReturns

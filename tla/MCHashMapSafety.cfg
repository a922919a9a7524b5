CONSTANTS
    k1 = k1  k2 = k2  k3 = k3  k4 = k4  k5 = k5  k6 = k6  k7 = k7
    v1 = v1  v2 = v2
    None = None
    Keys = {k1, k2, k3, k4, k5, k6, k7}
    Values = {v1}
    Hash <- MCHashKeys
    InitCapacity = 8
    MaxCapacity = 16
    Requests = {0, 6, 7}
    Sources = {}
SPECIFICATION CopySpec
INVARIANTS TableShape ChainsUnbroken RehashFaithful CopiesInv
PROPERTIES ReserveMakesRoom

CONSTANTS
    v1 = v1
    v2 = v2
    None = None
    Keys <- MCKeys
    Values = {v1, v2}
    Entries <- MCEntries
    LegacyEntries <- MCLegacyEntries
    Turns = {"treemap", "legacy"}
SPECIFICATION SpecEach
INVARIANTS Linked RedBlack WalksInOrder LegacyShape
PROPERTIES ImplementsMap LegacyImplementsMap
\* The legacy tree ends the program: exit(1), or a NULL pointer.
CHECK_DEADLOCK FALSE

CONSTANTS
    v1 = v1
    v2 = v2
    None = None
    Keys <- MCKeys
    Values = {v1, v2}
    Entries <- MCEntries
    LegacyEntries <- MCLegacyEntries
    Turns = {"legacy"}
SPECIFICATION SpecEach
INVARIANT FixupHasNode
CHECK_DEADLOCK FALSE

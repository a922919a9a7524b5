CONSTANTS
    v1 = v1
    v2 = v2
    None = None
    Keys <- MCKeys
    Values = {v1, v2}
    Entries <- MCEntries
    MaxNodes = 8
    MaxCopied = 5
SPECIFICATION CopySpec
INVARIANTS TreeShape PrefixesMatch Compressed CopyExact
PROPERTY ImplementsMap

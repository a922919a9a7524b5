CONSTANTS
    e1 = e1  e2 = e2
    None = None
    Elements = {e1, e2}
    InitCapacity = 2
    MaxCapacity = 4
    Indices = {0, 1, 3}
    Sources <- MCSources
    Weights = {1, 2}
    Sizes = {0, 2}
    Graphs <- MCGraphs
    MaxEdges = 3
SPECIFICATION SpecEach
INVARIANTS LiveCopies AdjacencyMatches
PROPERTIES ImplementsSequence

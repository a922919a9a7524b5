CONSTANTS
    e1 = e1  e2 = e2
    None = None
    Elements = {e1, e2}
    InitCapacity = 2
    MaxCapacity = 6
    Indices = {0, 1, 3}
    Sources <- MCSources
    RingInitCapacity = 3
    RingMaxCapacity = 6
    ArrayInitCapacity = 2
    ArrayMaxCapacity = 4
SPECIFICATION SpecEach
INVARIANTS RingShape LiveCopies LegacySequences
PROPERTIES ImplementsSequence

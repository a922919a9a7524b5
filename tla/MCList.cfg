CONSTANTS
    e1 = e1  e2 = e2
    n1 = n1  n2 = n2  n3 = n3  n4 = n4
    None = None
    Elements = {e1, e2}
    Nodes = {n1, n2, n3, n4}
    Indices = {0, 1, 2, 3, 4}
    Sources <- MCSources
SPECIFICATION Spec
SYMMETRY NodeSymmetry
INVARIANTS ListShape
PROPERTIES ImplementsSequence

SPECIFICATION Spec
CONSTANTS
    Containers = {a, b}
    ClientPars = {p}
    Heap = {h1, h2, h3}
    Null = Null
    MaxSize = 2
SYMMETRY Symmetry
INVARIANTS
    TypeOK
    OwnedOnce
    NothingLeaks

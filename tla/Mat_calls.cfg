SPECIFICATION Spec
CONSTANTS
    NRows = 3
    NCols = 2
    MaxEntries = 3
    StackSize = 5
    Scalars = {0, 1}
    Vectors <- TwoVectors
    Arrays <- SomeArrays
    Operands <- OneOperand
    Careful = TRUE
    MaxCalls = 5
CHECK_DEADLOCK FALSE
INVARIANTS
    NothingTwice
    StackFits
PROPERTIES
    Implements
    CallsTakeEffect

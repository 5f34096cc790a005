SPECIFICATION Spec
CONSTANTS
    Bounds <- EvenBounds
    Instants <- AllInstants
    Others <- TwoLists
    Careful = TRUE
    MaxSize = 3
    MaxCalls = 4
CHECK_DEADLOCK FALSE
INVARIANTS
    SameInstants
    MergeSeparates
    AttributesAreCurrent

SPECIFICATION Spec
CONSTANTS
    Bounds <- EvenBounds
    Instants <- AllInstants
    Others <- TwoLists
    Careful = FALSE
    MaxSize = 3
    MaxCalls = 4
CHECK_DEADLOCK FALSE
PROPERTIES
    MergeAddsNothing

SPECIFICATION Spec
CONSTANTS
    NPars = 1
    MaxPos = 3
    HasMin = {1}
    HasMax = {1}
    Landscapes <- MCLandscapes
    Starts <- MCStarts
    MayBeFlat = {1}
    Frac = 3
    MaxIter = 6
    MaxStall = 2
    MaxHit = 1
    MaxDec = 2
    AcceptDec = 2
    Eps = 2
    StepAdjust = TRUE
    MaxCalls = 1
CHECK_DEADLOCK FALSE
INVARIANTS
    BoundedWorsening
PROPERTIES
    FreezeNeedsSuccessiveHits
    FitEnds

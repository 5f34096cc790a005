SPECIFICATION Spec
CONSTANTS
    NPars = 2
    MaxPos = 2
    HasMin = {1}
    HasMax = {1, 2}
    Landscapes <- OneLandscape
    Starts <- OneStart
    MayBeFlat = {2}
    Frac = 2
    MaxIter = 2
    MaxStall = 2
    MaxHit = 0
    MaxDec = 1
    AcceptDec = 2
    Eps = 2
    StepAdjust = TRUE
    MaxCalls = 2
CHECK_DEADLOCK FALSE
INVARIANTS
    TypeOK
    AttributesRestored
    ResultsMatch
    FixedByUserUntouched
    ErrorsBelongToFit
    RemovedStaysOut

SPECIFICATION Spec
CONSTANTS
    Threads = {t1, t2, t3}
    NObs = 2
    Throwing = {1}
    MaxEvals = 2
CHECK_DEADLOCK FALSE
INVARIANTS
    TypeOK
    RegisteredOnce
    CopiesAreDeletedOnce
    EachCountedOnce
PROPERTIES
    Implements

SPECIFICATION Spec
CONSTANTS
    Apps = {"p", "q"}
    Names = {"a", "b", "c"}
    Values = {"1", "1,2,3"}
    Lists = {"1,2,3"}
    AutoMode = "ql"
    MaxLines = 4
    Settings <- PassingSettings
CHECK_DEADLOCK FALSE
INVARIANTS
    LinesBelong
    SavedIsReadBack
    FileIsWhole
PROPERTIES
    CallsEnd

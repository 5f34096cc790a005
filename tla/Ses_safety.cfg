SPECIFICATION Spec
CONSTANTS
    Clients = {c1, c2, c3}
    MaxHubs = 2
    Tries = 1
    Settings <- SafetySettings
SYMMETRY ClientSymmetry
CHECK_DEADLOCK FALSE
INVARIANTS
    KeyIsRegistered
    ListeningIsFindable
    OneHub
    NoStrayEntry

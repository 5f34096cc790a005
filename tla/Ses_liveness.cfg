SPECIFICATION FairSpec
CONSTANTS
    Clients = {c1, c2}
    MaxHubs = 3
    Tries = 2
    Settings <- LivenessSettings
CHECK_DEADLOCK FALSE
PROPERTIES
    ConnectReturns
    ConnectSucceeds

SPECIFICATION Spec
CONSTANTS
    Agents = {a1, a2}
    Names = {n1, n2}
    Declarations <- InTwoParts
    MaxTime = 3
    MaxClients = 3
    OnePerSecond = TRUE
SYMMETRY AgentSymmetry
CHECK_DEADLOCK FALSE
INVARIANTS
    TypeOK
    KeyLeadsHome
    DeclaredIsHeld
    NamesAreCurrent
    RosterIsComplete
    ReferencesUnique

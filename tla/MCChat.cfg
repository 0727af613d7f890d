SPECIFICATION Spec
CONSTANTS
    Serveur = srv
    NoName = NoName
    MAX_USERS = 3
    Clients = {alice, bob}
    MaxEvents = 3
    Names <- ConstNames
SYMMETRY Symmetry
INVARIANTS HolesAtEnd ClientSegments ServerTokens ConnectedInTable ExitCause
PROPERTIES TableOfUsers
CHECK_DEADLOCK FALSE

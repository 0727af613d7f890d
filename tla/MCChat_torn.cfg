SPECIFICATION Spec
CONSTANTS
    Serveur = srv
    NoName = NoName
    MAX_USERS = 3
    Clients = {alice, bob}
    MaxEvents = 3
    Names <- ConstNames
SYMMETRY Symmetry
INVARIANTS OnlyUsersInTable
CHECK_DEADLOCK FALSE

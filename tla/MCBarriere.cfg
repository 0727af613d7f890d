SPECIFICATION MCSpec
CONSTANTS
    Threads <- ConstThreads
    nbProcess = 3
    Conds <- ConstConds
    Personne = Personne
INVARIANTS PersonneNeDort
PROPERTIES Implements ProcessusImplements TousSortent
CHECK_DEADLOCK FALSE

SPECIFICATION MCSpec
CONSTANTS
    maxThread = 2
    Main = Main
    Personne = Personne
    Threads <- ConstThreads
    Conds <- ConstConds
    nbThread = 1
    nbFichiers = 1
    Profondeur = 2
PROPERTIES ArbreTermine
CHECK_DEADLOCK FALSE

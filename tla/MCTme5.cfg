SPECIFICATION MCSpec
CONSTANTS
    maxThread = 4
    Main = Main
    Personne = Personne
    Threads <- ConstThreads
    Conds <- ConstConds
    nbThread = 3
    nbFichiers = 4
    Profondeur = 3
INVARIANTS Annonces Conversions UnPassageParPose
PROPERTIES Finissent
CHECK_DEADLOCK FALSE

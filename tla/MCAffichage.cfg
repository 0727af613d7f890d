SPECIFICATION MCSpec
CONSTANTS
    Personne = Personne
    Ajouts = {t1, t2, t3}
    Attente = aff
    Threads <- ConstThreads
    Conds <- ConstConds
    nbThread = 5
    N = 4
INVARIANTS SommeComplete PasPerdu EnOrdre SonTourEveille FlagsJustes
PROPERTIES SommeAffichee Finissent
CHECK_DEADLOCK FALSE

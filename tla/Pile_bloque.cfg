SPECIFICATION FairSpec
CONSTANTS
    Personne = Personne
    Producteurs = {p1, p2}
    Consommateurs = {c1}
    STACK_SIZE = 3
    Longueur = 4
    Programmes <- SansNumero
    Threads <- ConstThreads
    Conds <- ConstConds
PROPERTIES PushEnds
CHECK_DEADLOCK FALSE

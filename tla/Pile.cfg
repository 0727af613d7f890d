SPECIFICATION FairSpec
CONSTANTS
    Personne = Personne
    Producteurs = {p1, p2}
    Consommateurs = {c1, c2}
    STACK_SIZE = 2
    Longueur = 5
    Programmes <- Tous
    Threads <- ConstThreads
    Conds <- ConstConds
INVARIANTS TypeOK NoLostWakeup EachCarOnce
PROPERTIES EveryCarServed
CHECK_DEADLOCK FALSE

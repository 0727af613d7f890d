SPECIFICATION SpecJuste
CONSTANTS
    N = 3
    MaxProcessus = 5
    Longueur = 3
    Valeurs = {2, 7}
INVARIANTS Ordres Resultats
PROPERTIES Fin
CHECK_DEADLOCK FALSE

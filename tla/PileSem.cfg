SPECIFICATION Spec
CONSTANTS
    Producteurs = {p1, p2}
    Consommateurs = {c1, c2}
    STACK_SIZE = 1
    Longueur = 3
INVARIANTS Bornes EachCarOnce PasPerdu
CHECK_DEADLOCK FALSE

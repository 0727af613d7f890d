SPECIFICATION FairSpec
CONSTANTS
    Clients <- ConstClients
    Scenarios <- ConstScenarios
    NbConnexions = 2
    Bloc = 2
    Taille <- ConstTaille
    Tampon = 3
INVARIANTS  HandlerRevient
PROPERTIES FinDite ServiceFini
CHECK_DEADLOCK FALSE

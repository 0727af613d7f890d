SPECIFICATION MCSpec
CONSTANTS
    Saisis = 3
    Capacite = 2
    MaxSortie = 5
    Clients = {c1, c2}
    MaxRequetes = 2
    MaxCopies = 1
    Ports = 2
    Adresses = {2, 4}
    MaxConnexions = 4
    MAXCLIENT = 2
    INET_ADDRSTRLEN = 5
    MaxInterruptions = 1
INVARIANTS Transcription ReponseSienne LecturesFraiches LigneJuste
PROPERTIES Servis
CHECK_DEADLOCK FALSE

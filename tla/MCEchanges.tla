----------------------------- MODULE MCEchanges -----------------------------
(* Processes that exchange characters, datagrams or connexions, checked in *)
(* turn: exo says which programs run.                                      *)
EXTENDS Datagrammes

CONSTANTS Saisis, Capacite, MaxSortie, Ports, Adresses, MaxConnexions, MAXCLIENT,
    INET_ADDRSTRLEN, MaxInterruptions
VARIABLES exo,
    exercice, tube, saisi, existe, fdwrite, fdread, cClient, cServeur, ecouteClient, ecoute,
    pcClient, pcServeur, sortie, avant,
    file, connexions, interruptions, readfds, rang, str, ligne, adresse, plusLongue

T == INSTANCE Tube
S == INSTANCE Select

ASSUME MCEchangesAssumption == T!TubeAssumption /\ S!SelectAssumption

pvars == <<exercice, tube, saisi, existe, fdwrite, fdread, cClient, cServeur, ecouteClient, ecoute,
           pcClient, pcServeur, sortie, avant>>
slvars == <<file, connexions, interruptions, readfds, rang, str, ligne, adresse, plusLongue>>

MCInit ==
    /\ exo \in {"tube", "datagrammes", "select"}
    /\ Init /\ T!Init /\ S!Init
    /\ exo # "tube" => exercice = "nomme" /\ ~existe

MCNext ==
    \/ exo = "tube" /\ T!Next /\ UNCHANGED <<exo, dgvars, slvars>>
    \/ exo = "datagrammes" /\ Next /\ UNCHANGED <<exo, pvars, slvars>>
    \/ exo = "select" /\ S!Next /\ UNCHANGED <<exo, pvars, dgvars>>

(* The servers run, and a client that waits receives what has come.        *)
MCSpec ==
    /\ MCInit /\ [][MCNext]_<<exo, pvars, dgvars, slvars>>
    /\ WF_pvars(exo = "tube" /\ T!Serveur)
    /\ WF_dgvars(exo = "datagrammes" /\ Serveur)
    /\ \A c \in Clients : WF_dgvars(exo = "datagrammes" /\ RecoitReponse(c))
    /\ WF_slvars(exo = "select" /\ S!Serveur)

-----------------------------------------------------------------------------
(* The pipe: types, and what is displayed is what was typed.               *)
Transcription == T!TypeOK /\ T!Transcription

(* select: accept does not block, and the log tells the whole address.     *)
LigneJuste == S!JamaisBloque /\ S!LigneJuste

(* The server of the pipe ends and destroys it when it is interrupted      *)
(* after mkfifo, the clients of the datagrams are answered, and every      *)
(* connexion is accepted by a server that does not fail.                   *)
Servis == T!FinServeur /\ Repondu /\ S!TousServis
=============================================================================

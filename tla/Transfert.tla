----------------------------- MODULE Transfert -----------------------------
(***************************************************************************)
(* The file servers over TCP and their clients, TME8 and TME9:             *)
(*   "fork"    ex6-serveur.c, a process per connexion, and ex7-client.c    *)
(*   "thread"  TME9 ex1.c, a thread per connexion, and ex7-client.c        *)
(*   "nom"     ex4-serveur.c, which reads one name and ends, and           *)
(*             ex5-client.c, which sends "LIST " and nothing else          *)
(* A connexion is two streams of units of TAILLE bytes.  Whatever they     *)
(* have read, the programs write whole buffers of Bloc units (4 in the     *)
(* code): what is not data of the file is Nul.  Of a file that is written  *)
(* the model keeps the data only, without the Nul that come among them.    *)
(* Descriptors are not given twice.                                        *)
(***************************************************************************)
EXTENDS Integers, Sequences, FiniteSets

CONSTANTS
    Clients,
    Scenarios,      \* programs, and by connexion, who connects and the command typed
    NbConnexions,   \* bound: how many times the clients connect
    Bloc,           \* units in DATA
    Taille,         \* by connexion, units in the file it copies
    Tampon          \* units the kernel keeps for a reader

ASSUME TransfertAssumption ==
    /\ NbConnexions \in Nat /\ Taille \in [1 .. NbConnexions -> Nat] /\ Bloc \in Nat \ {0}
    /\ Tampon \in Nat /\ Tampon >= Bloc
    /\ Scenarios \subseteq [programme : {"fork", "thread", "nom"},
                         proprio : [1 .. NbConnexions -> Clients],
                         commande : [1 .. NbConnexions -> {"LIST", "LIST long", "UPLOAD", "DOWNLOAD",
                                                           "DOWNLOAD absent", "fin"}]]
    /\ \A s \in Scenarios : s.programme = "nom" => \A c \in 1 .. NbConnexions : s.commande[c] = "LIST"

Conns == 1 .. NbConnexions
Nul   == <<0, 0>>
Source(c, k) == [j \in 1 .. k |-> <<c, j>>]

(* What is not Nul in s, in order: SelectSeq, as a function of the length. *)
Donnees(s) ==
    LET d[k \in 0 .. Len(s)] ==
            IF k = 0 THEN <<>> ELSE IF s[k] = Nul THEN d[k - 1] ELSE Append(d[k - 1], s[k])
    IN  d[Len(s)]

Plein(s) == s \o [j \in 1 .. Bloc - Len(s) |-> Nul]

VARIABLES
    scene,
    pcC, cour,  \* by client: its place in main, its last connexion
    pcS,        \* by connexion: the place of the process or thread that serves it
    montant, descendant,    \* the streams: to the server, to the client
    fermeC,     \* the connexions closed by the client
    tenue,      \* who holds the server's end of a connexion
    coupe,      \* connexions reset: closed with units unread, or written to once closed
    data, n, fd,            \* DATA; n and fichierfd, shared by the threads
    ouverts,    \* the descriptors of files that are open
    posn,       \* how far the source file is read
    fichier, copie,         \* the data in what UPLOAD, DOWNLOAD have written to a file
    pcM, sigchld, enHandler, zombies,   \* main of the server
    vivant, croise          \* the server runs; two connexions were served at once

svars == <<pcS, data, n, fd, ouverts, fichier>>
rvars == <<montant, descendant, fermeC, tenue, coupe>>
mvars == <<pcM, sigchld, enHandler, zombies, vivant>>
cvars == <<pcC, cour, copie>>
vars  == <<scene, cvars, svars, rvars, posn, mvars, croise>>

Init ==
    /\ scene \in Scenarios
    /\ pcC = [x \in Clients |-> "connecte"] /\ cour = [x \in Clients |-> 0]
    /\ pcS = [c \in Conns |-> "absent"]
    /\ montant = [c \in Conns |-> <<>>] /\ descendant = montant
    /\ fermeC = {} /\ coupe = {} /\ tenue = [c \in Conns |-> {}]
    /\ data = montant /\ fichier = montant /\ copie = montant
    /\ n = [c \in 0 .. NbConnexions |-> 0] /\ fd = n /\ posn = [c \in Conns |-> 0]
    /\ ouverts = {} /\ pcM = 0 /\ zombies = 0
    /\ sigchld = FALSE /\ enHandler = FALSE /\ vivant = TRUE /\ croise = FALSE

Threads == scene.programme = "thread"

(* What a read of a whole buffer takes of the file of connexion c.         *)
Morceau(c) == IF Taille[c] - posn[c] < Bloc THEN Taille[c] - posn[c] ELSE Bloc

(* Where the code that serves c finds n and fichierfd.                     *)
Cellule(c) == IF Threads THEN 0 ELSE c

Sert(c) == pcS[c] \notin {"absent", "attend", "fin"}
EnService(c) == pcS[c] \notin {"absent", "fin"}

-----------------------------------------------------------------------------
(* The end of a stream.  A connexion is closed once nobody holds it: with  *)
(* units unread the other side gets a reset instead of an end.             *)
Lache(c, qui) ==
    /\ tenue' = [tenue EXCEPT ![c] = @ \ {qui}]
    /\ coupe' = IF tenue[c] = {qui} /\ montant[c] # <<>> /\ c \notin fermeC
                THEN coupe \cup {c} ELSE coupe

(* The process that serves c ends: its descriptors are closed and the      *)
(* father gets SIGCHLD.  A thread that ends has closed its connexion.      *)
FinService(c) ==
    /\ pcS' = [pcS EXCEPT ![c] = "fin"]
    /\ Lache(c, "fils")
    /\ IF Threads THEN UNCHANGED <<zombies, sigchld>>
                  ELSE zombies' = zombies + 1 /\ sigchld' = TRUE
    /\ UNCHANGED <<pcM, enHandler, vivant>>

(* The server process ends, and all its threads and connexions with it.    *)
FinServeur ==
    /\ pcS' = [c \in Conns |-> IF EnService(c) THEN "fin" ELSE pcS[c]]
    /\ tenue' = [c \in Conns |-> {}]
    /\ vivant' = FALSE
    /\ UNCHANGED <<coupe, pcM, sigchld, enHandler, zombies>>

(* exit, or a signal that kills                                            *)
Meurt(c) == IF Threads THEN FinServeur ELSE FinService(c)

-----------------------------------------------------------------------------
(* main of the servers: accept, then fork and close, or pthread_create     *)
Accepte ==
    /\ vivant /\ pcM = 0 /\ ~enHandler
    /\ \E c \in Conns :
        /\ pcS[c] = "attend"
        /\ pcS' = [pcS EXCEPT ![c] = "commande"]
        /\ tenue' = [tenue EXCEPT ![c] = IF Threads THEN {"fils"} ELSE {"pere", "fils"}]
        /\ pcM' = IF Threads THEN 0 ELSE c
        /\ croise' = (croise \/ \E d \in Conns : Sert(d))
    /\ UNCHANGED <<scene, cvars, data, n, fd, ouverts, fichier, montant, descendant,
                   fermeC, coupe, posn, sigchld, enHandler, zombies, vivant>>

(* Mutant of FermePere: the father keeps the connexion open.               *)
FermePereOublie ==
    /\ pcM # 0 /\ ~enHandler
    /\ pcM' = 0
    /\ UNCHANGED <<tenue, coupe, scene, cvars, svars, montant, descendant, fermeC, posn, sigchld, enHandler,
                   zombies, vivant, croise>>

FermePere ==
    /\ pcM # 0 /\ ~enHandler
    /\ Lache(pcM, "pere")
    /\ pcM' = 0
    /\ UNCHANGED <<scene, cvars, svars, montant, descendant, fermeC, posn, sigchld, enHandler,
                   zombies, vivant, croise>>

(* finFils: wait(NULL) takes one son, however many SIGCHLD have merged; an *)
(* accept that it interrupts is started again.                             *)
FinFils ==
    /\ sigchld /\ ~enHandler
    /\ sigchld' = FALSE /\ enHandler' = TRUE
    /\ UNCHANGED <<scene, cvars, svars, rvars, posn, pcM, zombies, vivant, croise>>

(* Mutant of Wait: every son is waited for.                                *)
WaitTous ==
    /\ enHandler /\ zombies > 0
    /\ zombies' = 0 /\ enHandler' = FALSE
    /\ UNCHANGED <<scene, cvars, svars, rvars, posn, pcM, sigchld, vivant, croise>>

Wait ==
    /\ enHandler /\ zombies > 0
    /\ zombies' = zombies - 1 /\ enHandler' = FALSE
    /\ UNCHANGED <<scene, cvars, svars, rvars, posn, pcM, sigchld, vivant, croise>>

(* SIGINT, traitSignal: the socket is closed and accept fails.             *)
TraitSignal ==
    /\ vivant /\ Threads
    /\ FinServeur
    /\ UNCHANGED <<scene, cvars, data, n, fd, ouverts, fichier, montant, descendant,
                   fermeC, posn, croise>>

-----------------------------------------------------------------------------
(* The process or thread that serves c.  It reads one unit, where the      *)
(* client has written Bloc of them, and dies of strcmp(NULL) at the end of *)
(* the stream.                                                             *)
Commande(c) ==
    /\ pcS[c] = "commande"
    /\ \/ /\ montant[c] # <<>>
          /\ montant' = [montant EXCEPT ![c] = Tail(@)]
          /\ n' = [n EXCEPT ![Cellule(c)] = 1]
          /\ IF scene.programme = "nom"
             THEN FinService(c)
             ELSE /\ pcS' = [pcS EXCEPT ![c] = scene.commande[c]]
                  /\ UNCHANGED <<tenue, coupe, mvars>>
       \/ /\ montant[c] = <<>> /\ c \in fermeC
          /\ Meurt(c)
          /\ UNCHANGED <<montant, n>>
    /\ UNCHANGED <<scene, cvars, data, fd, ouverts, fichier, descendant, fermeC, posn, croise>>

(* write(connexion, DATA, 4*TAILLE).  The first write to a client that is  *)
(* gone is answered by a reset, the next one kills by SIGPIPE.             *)
Ecrit(c, suite) ==
    \/ /\ c \notin fermeC
       /\ Len(descendant[c]) + Bloc <= Tampon
       /\ descendant' = [descendant EXCEPT ![c] = @ \o data[c]]
       /\ suite
    \/ /\ c \in fermeC \ coupe
       /\ coupe' = coupe \cup {c}
       /\ pcS' = [pcS EXCEPT ![c] = "DOWNLOAD lit"]
       /\ UNCHANGED <<descendant, tenue, mvars>>
    \/ /\ c \in fermeC \cap coupe
       /\ Meurt(c)
       /\ UNCHANGED descendant

(* LIST: wait for ls before its output is read: an output that does not    *)
(* fit in the pipe, "LIST long", is waited for ever; then one write.       *)
List(c) ==
    /\ pcS[c] = "LIST"
    /\ descendant' = IF c \in fermeC THEN descendant
                     ELSE [descendant EXCEPT ![c] = @ \o Plein(<<>>)]
    /\ n' = [n EXCEPT ![Cellule(c)] = Bloc]
    /\ FinService(c)
    /\ UNCHANGED <<scene, cvars, data, fd, ouverts, fichier, montant, fermeC, posn, croise>>

Upload(c) ==
    /\ pcS[c] = "UPLOAD"
    /\ \/ /\ fd' = [fd EXCEPT ![Cellule(c)] = c]
          /\ ouverts' = ouverts \cup {c}
          /\ pcS' = [pcS EXCEPT ![c] = "UPLOAD lit"]
          /\ UNCHANGED <<tenue, coupe, mvars>>
       \/ /\ fd' = [fd EXCEPT ![Cellule(c)] = 0]
          /\ Meurt(c)
          /\ UNCHANGED ouverts
    /\ UNCHANGED <<scene, cvars, data, n, fichier, montant, descendant, fermeC, posn, croise>>

(* n = read(connexion, DATA, ...): some of the units that have come; or an *)
(* error, once, if the connexion of a client that is gone has been reset.  *)
UploadLit(c) ==
    /\ pcS[c] = "UPLOAD lit"
    /\ montant[c] # <<>> \/ c \in fermeC
    /\ \/ \E k \in 0 .. Bloc :
            /\ k <= Len(montant[c]) /\ (k = 0 => montant[c] = <<>>)
            /\ data' = [data EXCEPT ![c] = Plein(SubSeq(montant[c], 1, k))]
            /\ montant' = [montant EXCEPT ![c] = SubSeq(@, k + 1, Len(@))]
            /\ n' = [n EXCEPT ![Cellule(c)] = k]
            /\ UNCHANGED coupe
       \/ /\ montant[c] = <<>> /\ c \notin coupe
          /\ coupe' = coupe \cup {c}
          /\ data' = [data EXCEPT ![c] = Plein(<<>>)]
          /\ n' = [n EXCEPT ![Cellule(c)] = -1]
          /\ UNCHANGED montant
    /\ pcS' = [pcS EXCEPT ![c] = "UPLOAD teste"]
    /\ UNCHANGED <<scene, cvars, fd, ouverts, fichier, descendant, fermeC, tenue,
                   posn, mvars, croise>>

(* The test of n, and the write to fichierfd: a thread finds there what    *)
(* the last thread has left.                                               *)
UploadSelon(c, arret) ==
    /\ pcS[c] = "UPLOAD teste"
    /\ IF arret
       THEN FinService(c) /\ UNCHANGED <<fichier, data>>
       ELSE /\ LET f == fd[Cellule(c)]
               IN  fichier' = IF f \notin ouverts \/ scene.commande[f] # "UPLOAD" THEN fichier
                              ELSE [fichier EXCEPT ![f] = @ \o Donnees(data[c])]
            /\ data' = [data EXCEPT ![c] = <<>>]
            /\ pcS' = [pcS EXCEPT ![c] = "UPLOAD lit"]
            /\ UNCHANGED <<tenue, coupe, mvars>>
    /\ UNCHANGED <<scene, cvars, n, fd, ouverts, montant, descendant, fermeC, posn, croise>>

(* Mutants of UploadTeste: a short read is taken for the end; n == -1.     *)
UploadTesteCourt(c)   == UploadSelon(c, n[Cellule(c)] < Bloc)
UploadTesteSansFin(c) == UploadSelon(c, n[Cellule(c)] = -1)

UploadTeste(c) == UploadSelon(c, n[Cellule(c)] = 0)

(* DOWNLOAD: what open returns is not tested, 0 stands for -1.             *)
Download(c) ==
    /\ pcS[c] \in {"DOWNLOAD", "DOWNLOAD absent"}
    /\ fd' = [fd EXCEPT ![Cellule(c)] = IF pcS[c] = "DOWNLOAD" THEN c ELSE 0]
    /\ ouverts' = IF pcS[c] = "DOWNLOAD" THEN ouverts \cup {c} ELSE ouverts
    /\ pcS' = [pcS EXCEPT ![c] = "DOWNLOAD lit"]
    /\ UNCHANGED <<scene, cvars, data, n, fichier, rvars, posn, mvars, croise>>

(* read(fichierfd, DATA, 4*TAILLE): -1 if it is not open for reading       *)
Lu(f) == IF f \in ouverts /\ scene.commande[f] = "DOWNLOAD" THEN Morceau(f) ELSE -1

(* while ((n = read(fichierfd, ...)) != 0): an error does not end the loop. *)
DownloadLit(c) == LET f == fd[Cellule(c)] IN
    /\ pcS[c] = "DOWNLOAD lit"
    /\ n' = [n EXCEPT ![Cellule(c)] = Lu(f)]
    /\ IF Lu(f) = 0
       THEN /\ ouverts' = ouverts \ {f}
            /\ FinService(c)
            /\ UNCHANGED <<data, posn>>
       ELSE /\ data' = [data EXCEPT ![c] = Plein(IF Lu(f) < 0 THEN <<>>
                            ELSE SubSeq(Source(f, Taille[f]), posn[f] + 1, posn[f] + Lu(f)))]
            /\ posn' = IF Lu(f) < 0 THEN posn ELSE [posn EXCEPT ![f] = @ + Lu(f)]
            /\ pcS' = [pcS EXCEPT ![c] = "DOWNLOAD ecrit"]
            /\ UNCHANGED <<ouverts, tenue, coupe, mvars>>
    /\ UNCHANGED <<scene, cvars, fd, fichier, montant, descendant, fermeC, croise>>

DownloadEcrit(c) ==
    /\ pcS[c] = "DOWNLOAD ecrit"
    /\ Ecrit(c, /\ pcS' = [pcS EXCEPT ![c] = "DOWNLOAD lit"]
                /\ UNCHANGED <<tenue, coupe, mvars>>)
    /\ data' = [data EXCEPT ![c] = <<>>]
    /\ n' = [n EXCEPT ![Cellule(c)] = Bloc]
    /\ UNCHANGED <<scene, cvars, fd, ouverts, fichier, montant, fermeC, posn, croise>>

Service(c) ==
    \/ Commande(c) \/ List(c) \/ Upload(c) \/ UploadLit(c) \/ UploadTeste(c)
    \/ Download(c) \/ DownloadLit(c) \/ DownloadEcrit(c)

-----------------------------------------------------------------------------
(* The clients.  ex7 never closes a socket: they are closed when it dies.  *)
ClientMeurt(x) ==
    /\ pcC' = [pcC EXCEPT ![x] = "mort"]
    /\ fermeC' = fermeC \cup {c \in Conns : scene.proprio[c] = x /\ pcS[c] # "absent"}

(* The socket is created and connected before the command is read.         *)
Connecte(x) ==
    /\ pcC[x] = "connecte"
    /\ \E c \in Conns :
        /\ scene.proprio[c] = x /\ pcS[c] = "absent"
        /\ \A d \in 1 .. c - 1 : scene.proprio[d] = x => pcS[d] # "absent"
        /\ IF vivant
           THEN /\ pcS' = [pcS EXCEPT ![c] = "attend"]
                /\ tenue' = [tenue EXCEPT ![c] = {"noyau"}]
                /\ cour' = [cour EXCEPT ![x] = c]
                /\ pcC' = [pcC EXCEPT ![x] = "commande"]
                /\ UNCHANGED fermeC
           ELSE ClientMeurt(x) /\ UNCHANGED <<pcS, tenue, cour>>
    /\ UNCHANGED <<scene, copie, data, n, fd, ouverts, fichier, montant, descendant, coupe,
                   posn, mvars, croise>>

(* What the client writes is lost, or kills it, once nobody can read it.   *)
Envoie(x, c, s, suite) ==
    \/ /\ montant' = IF tenue[c] = {} THEN montant ELSE [montant EXCEPT ![c] = @ \o s]
       /\ pcC' = [pcC EXCEPT ![x] = suite]
       /\ UNCHANGED fermeC
    \/ tenue[c] = {} /\ ClientMeurt(x) /\ UNCHANGED montant

(* The command, in a buffer of TAILLE, is written with 4*TAILLE units; at  *)
(* the end of its input the client dies of strlen(NULL).                   *)
LitCommande(x) ==
    LET c == cour[x]
        commande == scene.commande[c]
    IN  /\ pcC[x] = "commande"
        /\ IF commande = "fin"
           THEN ClientMeurt(x) /\ UNCHANGED montant
           ELSE Envoie(x, c, IF scene.programme = "nom" THEN <<Nul>> ELSE Plein(<<>>),
                       IF commande = "UPLOAD" THEN "envoie" ELSE "lit")
        /\ UNCHANGED <<scene, cour, copie, svars, descendant, tenue, coupe, posn, mvars, croise>>

(* UPLOAD: read the file, write a whole buffer; no close at the end.       *)
EnvoieFichier(x) ==
    LET c == cour[x]
        k == Morceau(c)
    IN  /\ pcC[x] = "envoie"
        /\ IF k = 0
           THEN pcC' = [pcC EXCEPT ![x] = "connecte"] /\ UNCHANGED <<montant, posn, fermeC>>
           ELSE /\ tenue[c] = {} \/ Len(montant[c]) + Bloc <= Tampon
                /\ Envoie(x, c, Plein(SubSeq(Source(c, Taille[c]), posn[c] + 1, posn[c] + k)), "envoie")
                /\ posn' = [posn EXCEPT ![c] = @ + k]
        /\ UNCHANGED <<scene, cour, copie, svars, descendant, tenue, coupe, mvars, croise>>

(* LIST, DOWNLOAD: read until the end; a reset is an error first, which    *)
(* the loop takes for data.  Only ex5 closes, and ends.                    *)
Lit(x) ==
    LET c == cour[x]
    IN  /\ pcC[x] = "lit"
        /\ IF descendant[c] # <<>>
           THEN /\ \E k \in 1 .. Bloc :
                    /\ k <= Len(descendant[c])
                    /\ copie' = [copie EXCEPT ![c] = @ \o Donnees(SubSeq(descendant[c], 1, k))]
                    /\ descendant' = [descendant EXCEPT ![c] = SubSeq(@, k + 1, Len(@))]
                /\ UNCHANGED <<pcC, fermeC, coupe>>
           ELSE /\ tenue[c] = {}
                /\ IF c \in coupe
                   THEN coupe' = coupe \ {c} /\ UNCHANGED <<pcC, fermeC>>
                   ELSE /\ IF scene.programme = "nom" THEN ClientMeurt(x)
                           ELSE pcC' = [pcC EXCEPT ![x] = "connecte"] /\ UNCHANGED fermeC
                        /\ UNCHANGED coupe
                /\ UNCHANGED <<copie, descendant>>
        /\ UNCHANGED <<scene, cour, svars, montant, tenue, posn, mvars, croise>>

Client(x) == Connecte(x) \/ LitCommande(x) \/ EnvoieFichier(x) \/ Lit(x)

(* A client is stopped from the keyboard.                                  *)
Interrompu(x) ==
    /\ pcC[x] # "mort"
    /\ ClientMeurt(x)
    /\ UNCHANGED <<scene, cour, copie, svars, montant, descendant, tenue, coupe, posn, mvars, croise>>

Pere == Accepte \/ FermePere \/ FinFils \/ Wait

Next ==
    \/ Pere \/ TraitSignal
    \/ \E c \in Conns : Service(c)
    \/ \E x \in Clients : Client(x) \/ Interrompu(x)

Spec == Init /\ [][Next]_vars

(* Every process and thread goes on when it can.                           *)
Fairness ==
    /\ WF_vars(Pere)
    /\ \A c \in Conns : WF_vars(Service(c))
    /\ \A x \in Clients : WF_vars(Client(x))

FairSpec == Spec /\ Fairness
-----------------------------------------------------------------------------
TypeOK ==
    /\ pcC \in [Clients -> {"connecte", "commande", "envoie", "lit", "mort"}]
    /\ cour \in [Clients -> 0 .. NbConnexions]
    /\ pcS \in [Conns -> {"absent", "attend", "commande", "LIST", "LIST long", "UPLOAD", "UPLOAD lit", "UPLOAD teste",
                         "DOWNLOAD", "DOWNLOAD absent", "DOWNLOAD lit", "DOWNLOAD ecrit", "fin"}]
    /\ \A c \in Conns : Len(descendant[c]) <= Tampon /\ Len(montant[c]) <= Tampon + Bloc
    /\ \A c \in Conns : data[c] = <<>> \/ Len(data[c]) = Bloc
    /\ n \in [0 .. NbConnexions -> -1 .. Bloc] /\ fd \in [0 .. NbConnexions -> 0 .. NbConnexions]
    /\ posn \in [Conns -> Nat] /\ \A c \in Conns : posn[c] <= Taille[c]
    /\ pcM \in 0 .. NbConnexions /\ zombies \in 0 .. NbConnexions

(* UPLOAD: no unit of the file is lost, duplicated or moved, however the   *)
(* reads cut the stream and whatever comes between them: the data that the *)
(* copy has got, those in DATA and those on their way are what the client  *)
(* has read, in order; the threads keep this as long as no two serve at    *)
(* once and share fichierfd (TME9 ex1.c 21).  It is not that the copy is   *)
(* the file, "les recopie dans le fichier" (ex6-serveur.c 137): line 145   *)
(* writes 4*TAILLE bytes whatever n, and the copy gets the rest of DATA    *)
(* between the data, which this property leaves out.                       *)
Recopie ==
    \A c \in Conns :
        (scene.commande[c] = "UPLOAD" /\ vivant /\ (Threads => ~croise)) =>
            IF pcS[c] = "fin" THEN fichier[c] \in {<<>>, Source(c, posn[c])}
            ELSE fichier[c] \o Donnees(data[c]) \o Donnees(montant[c]) = Source(c, posn[c])

(* DOWNLOAD: the same towards the client, which gets to the end of the     *)
(* stream with all the units of the file only.                             *)
Telecharge ==
    \A c \in Conns :
        (scene.commande[c] = "DOWNLOAD" /\ vivant /\ (Threads => ~croise)
         /\ c \notin fermeC) =>
            /\ copie[c] \o Donnees(descendant[c]) \o Donnees(data[c]) = Source(c, posn[c])
            /\ pcS[c] = "fin" => posn[c] = Taille[c]

(* Both ways, and the types: the buffers hold no more than they can.       *)
Transferts == TypeOK /\ Recopie /\ Telecharge

(* wait in the handler never blocks the server: there is a son to take for *)
(* each SIGCHLD that is handled, although several sons may share one.      *)
HandlerRevient == zombies >= (IF sigchld THEN 1 ELSE 0) + (IF enHandler THEN 1 ELSE 0)

(* The client is told the end of a listing that fits in the pipe, and of a *)
(* file that exists, by the processes of ex6 and ex4.                      *)
FinDite ==
    \A x \in Clients : \A c \in Conns :
        (/\ ~Threads /\ pcC[x] = "lit" /\ cour[x] = c
         /\ scene.commande[c] \in {"LIST", "DOWNLOAD"})
        ~> (pcC[x] # "lit")

(* A process of the server does not outlive its client for ever, whatever  *)
(* it was doing, unless it waits for a listing too long for the pipe.      *)
ServiceFini ==
    \A c \in Conns :
        (~Threads /\ c \in fermeC /\ scene.commande[c] # "LIST long")
        ~> (pcS[c] = "fin")
=============================================================================

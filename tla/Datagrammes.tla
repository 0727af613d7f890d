---------------------------- MODULE Datagrammes ----------------------------
(***************************************************************************)
(* Environment variables kept by a server, set and read by datagrams       *)
(* (TME8, ex2-server.c and ex3-client.c).  The network may lose, reorder   *)
(* and duplicate.  A client sends what is typed and waits for one          *)
(* datagram, which it takes for the answer; nothing is numbered and        *)
(* nothing is sent again: the numbers here are for the properties only.    *)
(***************************************************************************)
EXTENDS Integers, Sequences, SequencesExt

CONSTANTS
    Clients,
    MaxRequetes,    \* bound on what a client types
    MaxCopies       \* bound on what the network duplicates

ASSUME DatagrammesAssumption == MaxRequetes \in Nat /\ MaxCopies \in Nat

(* "S USER VALUE", "G USER", "Q"; "autre" is no command, and the text of   *)
(* "tronque" has a word missing, or all of them at the end of the input.   *)
Commandes == {"S", "G", "Q", "autre", "tronque"}

Done == <<"DONE", 0>>
Indefinie == <<>>       \* the variable is not in the environment

VARIABLES
    requetes, reponses, \* in the network
    env,        \* value of USER: the request that has set it
    mort,       \* the server is dead
    n, attend,  \* by client: requests sent, and whether it waits
    commande,   \* by client: what was typed last
    recu,       \* by client: the last answer
    effets,     \* the settings, in the order in which the server made them
    acquittes,  \* settings whose client has had the answer
    vus,        \* by client: those at its last request
    copies, perte

dgvars == <<requetes, reponses, env, mort, n, attend, commande, recu, effets, acquittes, vus, copies, perte>>

Init ==
    /\ requetes = {} /\ reponses = {} /\ env = Indefinie /\ mort = FALSE
    /\ n = [c \in Clients |-> 0] /\ attend = [c \in Clients |-> FALSE]
    /\ commande = [c \in Clients |-> "Q"]
    /\ recu = [c \in Clients |-> [pour |-> 0, texte |-> Done]]
    /\ effets = <<>> /\ acquittes = {} /\ vus = [c \in Clients |-> {}]
    /\ copies = 0 /\ perte = FALSE

(* Mutant of Envoie: the client does not wait for the answer before it     *)
(* sends again.                                                            *)
EnvoieSansAttendre(c) ==
    /\ n[c] < MaxRequetes
    /\ \E cmd \in Commandes :
          /\ requetes' = requetes \cup {[de |-> c, no |-> n[c] + 1, cmd |-> cmd]}
          /\ commande' = [commande EXCEPT ![c] = cmd]
    /\ n' = [n EXCEPT ![c] = @ + 1] /\ attend' = [attend EXCEPT ![c] = TRUE]
    /\ vus' = [vus EXCEPT ![c] = acquittes]
    /\ UNCHANGED <<reponses, env, mort, recu, effets, acquittes, copies, perte>>

Envoie(c) ==
    /\ ~attend[c] /\ n[c] < MaxRequetes
    /\ \E cmd \in Commandes :
          /\ requetes' = requetes \cup {[de |-> c, no |-> n[c] + 1, cmd |-> cmd]}
          /\ commande' = [commande EXCEPT ![c] = cmd]
    /\ n' = [n EXCEPT ![c] = @ + 1] /\ attend' = [attend EXCEPT ![c] = TRUE]
    /\ vus' = [vus EXCEPT ![c] = acquittes]
    /\ UNCHANGED <<reponses, env, mort, recu, effets, acquittes, copies, perte>>

(* A datagram leaves the network when it is received, unless a copy of it  *)
(* stays there.                                                            *)
Prend(m, S, S2) ==
    \/ S2 = S \ {m} /\ UNCHANGED copies
    \/ S2 = S /\ copies < MaxCopies /\ copies' = copies + 1

Repond(m, texte) == reponses' = reponses \cup {[a |-> m.de, no |-> m.no, texte |-> texte]}

(* setenv and getenv of a word that is not there, and strlen of a variable *)
(* that is not set, kill the server.  Mutant: setenv does not overwrite.   *)
RecoitSansEcraser(m) ==
    /\ ~mort /\ Prend(m, requetes, requetes')
    /\ mort' = (m.cmd = "tronque" \/ (m.cmd = "G" /\ env = Indefinie))
    /\ IF m.cmd = "S" /\ env = Indefinie THEN env' = <<m.de, m.no>> ELSE UNCHANGED env
    /\ IF m.cmd = "S" THEN effets' = Append(effets, <<m.de, m.no>>) ELSE UNCHANGED effets
    /\ IF mort' \/ m.cmd = "autre" THEN UNCHANGED reponses ELSE Repond(m, IF m.cmd = "G" THEN env ELSE Done)
    /\ UNCHANGED <<n, attend, commande, recu, acquittes, vus, perte>>

Recoit(m) ==
    /\ ~mort /\ Prend(m, requetes, requetes')
    /\ mort' = (m.cmd = "tronque" \/ (m.cmd = "G" /\ env = Indefinie))
    /\ IF m.cmd = "S" THEN env' = <<m.de, m.no>> /\ effets' = Append(effets, <<m.de, m.no>>)
       ELSE UNCHANGED <<env, effets>>
    /\ IF mort' \/ m.cmd = "autre" THEN UNCHANGED reponses ELSE Repond(m, IF m.cmd = "G" THEN env ELSE Done)
    /\ UNCHANGED <<n, attend, commande, recu, acquittes, vus, perte>>

(* The client displays whatever comes.                                     *)
RecoitReponse(c) ==
    /\ attend[c]
    /\ \E r \in {q \in reponses : q.a = c} :
          /\ Prend(r, reponses, reponses')
          /\ recu' = [recu EXCEPT ![c] = [pour |-> r.no, texte |-> r.texte]]
          /\ acquittes' = IF commande[c] = "S" THEN acquittes \cup {<<c, n[c]>>} ELSE acquittes
    /\ attend' = [attend EXCEPT ![c] = FALSE]
    /\ UNCHANGED <<requetes, env, mort, n, commande, effets, vus, perte>>

Perd ==
    /\ perte' = TRUE
    /\ \/ \E m \in requetes : requetes' = requetes \ {m} /\ UNCHANGED reponses
       \/ \E r \in reponses : reponses' = reponses \ {r} /\ UNCHANGED requetes
    /\ UNCHANGED <<env, mort, n, attend, commande, recu, effets, acquittes, vus, copies>>

Serveur == \E m \in requetes : Recoit(m)

Next == Serveur \/ Perd \/ \E c \in Clients : Envoie(c) \/ RecoitReponse(c)

Spec == Init /\ [][Next]_dgvars

-----------------------------------------------------------------------------
(* Types; the variable holds the last setting, in one piece.               *)
TypeOK ==
    /\ \A m \in requetes : m.de \in Clients /\ m.no \in 1 .. MaxRequetes /\ m.cmd \in Commandes
    /\ \A c \in Clients : n[c] \in 0 .. MaxRequetes
    /\ env = (IF effets = <<>> THEN Indefinie ELSE Last(effets))
    /\ copies \in 0 .. MaxCopies

(* As long as the network duplicates nothing, what a client takes for the  *)
(* answer is the answer to its request, although nothing says so: it has   *)
(* only one in the network.                                                *)
ReponseSienne ==
    copies = 0 => \A c \in Clients : ~attend[c] /\ n[c] > 0 => recu[c].pour = n[c]

(* The server has made setting t after setting s, or they are the same.    *)
Precede(s, t) == \E i, j \in 1 .. Len(effets) : i <= j /\ effets[i] = s /\ effets[j] = t

(* And then a reading never returns a value older than a setting that was  *)
(* answered, to whatever client, before the reading was sent.              *)
LectureFraiche ==
    copies = 0 =>
        \A c \in Clients : ~attend[c] /\ commande[c] = "G" =>
            /\ \E i \in 1 .. Len(effets) : recu[c].texte = effets[i]
            /\ \A s \in vus[c] : Precede(s, recu[c].texte)

(* Types, and no reading older than an answered setting.                   *)
LecturesFraiches == TypeOK /\ LectureFraiche

(* A client waits for ever only if a datagram was lost, if it has typed    *)
(* something that is no command, or if the server is dead.                 *)
Repondu ==
    \A c \in Clients :
        attend[c] ~> ~attend[c] \/ perte \/ mort \/ commande[c] = "autre"
=============================================================================

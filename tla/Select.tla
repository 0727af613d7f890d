------------------------------- MODULE Select -------------------------------
(***************************************************************************)
(* A server that listens on several ports with select, writes the address  *)
(* of each client in cx.log and closes the connexion (TME9, ex2.c).  An    *)
(* address is its length; inet_ntop writes it in str, the text of earlier  *)
(* addresses stays behind its end, and '\n' takes the place of the '\0'.   *)
(***************************************************************************)
EXTENDS Integers, Sequences, SequencesExt

CONSTANTS Ports, Adresses, MaxConnexions, MAXCLIENT,
    INET_ADDRSTRLEN, \* length of the longest address, with its '\0'
    MaxInterruptions \* bound on those of accept

SelectAssumption ==
    /\ Ports \in Nat
    /\ INET_ADDRSTRLEN \in Nat \ {0} /\ Adresses \subseteq 1 .. INET_ADDRSTRLEN - 1
    /\ MaxConnexions \in Nat /\ MAXCLIENT \in Nat /\ MaxInterruptions \in Nat

Nul == 0
Fin == -1       \* '\n'
TailleStr == INET_ADDRSTRLEN + 1
Sorti == Ports + 2      \* place of a server that has called exit

VARIABLES
    file,       \* by port, the connexions to accept
    connexions, \* how many there have been
    interruptions,      \* how many times accept has been interrupted
    readfds, rang,      \* rang: the loop of FD_ISSET, 0 in select
    str,
    ligne, adresse,     \* the last write to cx.log, and whose it was
    plusLongue          \* length of the longest address so far

slvars == <<file, connexions, interruptions, readfds, rang, str, ligne, adresse, plusLongue>>

Init ==
    /\ file = [p \in 1 .. Ports |-> <<>>] /\ connexions = 0 /\ interruptions = 0
    /\ readfds = 1 .. Ports /\ rang = 0
    /\ str = [k \in 1 .. TailleStr |-> Nul]
    /\ ligne = <<>> /\ adresse = 0 /\ plusLongue = 0

Connexion(p, a) ==
    /\ connexions < MaxConnexions /\ Len(file[p]) < MAXCLIENT
    /\ file' = [file EXCEPT ![p] = Append(@, a)] /\ connexions' = connexions + 1
    /\ UNCHANGED <<interruptions, readfds, rang, str, ligne, adresse, plusLongue>>

(* select waits for a port of readfds and leaves there the ones that have  *)
(* something.                                                              *)
Selectionne ==
    /\ rang = 0 /\ \E p \in readfds : file[p] # <<>>
    /\ readfds' = {p \in readfds : file[p] # <<>>} /\ rang' = 1
    /\ UNCHANGED <<file, connexions, interruptions, str, ligne, adresse, plusLongue>>

(* Mutant of Journal: the '\0' is kept one cell further.                   *)
JournalDebord(a) ==
    LET s == [k \in 1 .. TailleStr |-> IF k <= a THEN a ELSE IF k <= a + 2 THEN Fin ELSE str[k]]
    IN  /\ str' = s
        /\ ligne' = SubSeq(s, 1, SelectInSeq(s \o <<Nul>>, LAMBDA x : x = Nul) - 1)

(* inet_ntop, str[strlen(str)] = '\n', write up to the next '\0'.          *)
Journal(a) ==
    LET s == [k \in 1 .. TailleStr |-> IF k <= a THEN a ELSE IF k = a + 1 THEN Fin ELSE str[k]]
    IN  /\ str' = s
        /\ ligne' = SubSeq(s, 1, SelectInSeq(s, LAMBDA x : x = Nul) - 1)

(* One connexion by port that is ready.                                    *)
Accepte ==
    /\ rang \in readfds
    /\ file' = [file EXCEPT ![rang] = Tail(@)]
    /\ LET a == Head(file[rang])
       IN  Journal(a) /\ adresse' = a /\ plusLongue' = (IF a > plusLongue THEN a ELSE plusLongue)
    /\ rang' = rang + 1
    /\ UNCHANGED <<connexions, interruptions, readfds>>

(* accept is interrupted: the connexion waits for the next select.         *)
Interrompu ==
    /\ rang \in readfds /\ interruptions < MaxInterruptions
    /\ interruptions' = interruptions + 1 /\ rang' = rang + 1
    /\ UNCHANGED <<file, connexions, readfds, str, ligne, adresse, plusLongue>>

(* select or accept fails otherwise: exit.                                 *)
Echoue ==
    /\ rang = 0 \/ rang \in readfds
    /\ rang' = Sorti
    /\ UNCHANGED <<file, connexions, interruptions, readfds, str, ligne, adresse, plusLongue>>

Passe ==
    /\ rang \in (1 .. Ports) \ readfds /\ rang' = rang + 1
    /\ UNCHANGED <<file, connexions, interruptions, readfds, str, ligne, adresse, plusLongue>>

Remet ==
    /\ rang = Ports + 1 /\ rang' = 0
    /\ readfds' = 1 .. Ports
    /\ UNCHANGED <<file, connexions, interruptions, str, ligne, adresse, plusLongue>>

Serveur == Selectionne \/ Accepte \/ Passe \/ Remet

Next ==
    \/ Serveur \/ Interrompu \/ Echoue
    \/ \E p \in 1 .. Ports, a \in Adresses : Connexion(p, a)

Spec == Init /\ [][Next]_slvars

-----------------------------------------------------------------------------
(* A port that select has left in readfds has a connexion to accept, so    *)
(* that accept does not block; str keeps a '\0' in its last cell, whatever *)
(* the addresses.                                                          *)
JamaisBloque ==
    /\ \A p \in readfds : rang # 0 /\ rang <= p => file[p] # <<>>
    /\ str[TailleStr] = Nul

(* A line of cx.log begins with the whole address and ends with it, unless *)
(* a longer address has left its end in str, and never exceeds that one.   *)
LigneJuste ==
    ligne # <<>> =>
        /\ \A k \in 1 .. adresse : ligne[k] = adresse
        /\ Len(ligne) > adresse /\ ligne[adresse + 1] = Fin
        /\ Len(ligne) <= plusLongue + 1

(* Every connexion is accepted, on whatever port it comes, unless a call   *)
(* fails and the server leaves.                                            *)
TousServis == <>[](rang = Sorti \/ \A p \in 1 .. Ports : file[p] = <<>>)
=============================================================================

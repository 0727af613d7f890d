-------------------------------- MODULE Tube --------------------------------
(***************************************************************************)
(* Characters sent through a pipe and displayed in upper case: a named     *)
(* pipe, its client and its server (TME6, ex2client.c and ex2server.c), or *)
(* a father and its son (pipe_annonyme.c).  No program tests what read     *)
(* returns: at the end of the file the character of the last time is sent, *)
(* or displayed, again.  SIGINT closes, unlinks and lowers ecoute; all the *)
(* other signals are blocked, SIGPIPE too.                                 *)
(***************************************************************************)
EXTENDS Integers, Sequences

CONSTANTS
    Saisis,     \* how many characters are typed, numbered from 1
    Capacite,   \* of the pipe
    MaxSortie   \* bound on what is kept of the output

TubeAssumption == Saisis \in Nat \ {0} /\ Capacite \in Nat \ {0} /\ MaxSortie \in Nat

VARIABLES
    exercice, tube, saisi,
    existe,     \* the name of the pipe
    fdwrite, fdread,        \* open or not
    cClient, cServeur,      \* the last character; 0, the initial value
    ecouteClient, ecoute,
    pcClient, pcServeur,
    sortie,
    avant       \* the last SIGINT came to the server before mkfifo

pvars == <<exercice, tube, saisi, existe, fdwrite, fdread, cClient, cServeur, ecouteClient, ecoute,
           pcClient, pcServeur, sortie, avant>>

Toupper(c) == IF c = 0 THEN 0 ELSE Saisis + c

(* pipe_annonyme.c: fin is not initialised, in the father nor in the son.  *)
Init ==
    /\ tube = <<>> /\ saisi = 0 /\ cClient = 0 /\ cServeur = 0 /\ sortie = <<>> /\ avant = FALSE
    /\ \/ /\ exercice = "nomme" /\ existe \in BOOLEAN   \* a name left over
          /\ fdwrite = FALSE /\ fdread = FALSE /\ ecoute = TRUE /\ ecouteClient = TRUE
          /\ pcClient = "open" /\ pcServeur = "mkfifo"
       \/ /\ exercice = "anonyme" /\ existe = FALSE
          /\ ecoute \in BOOLEAN /\ ecouteClient = ecoute
          /\ fdwrite = ecoute /\ fdread = ecoute
          /\ pcClient = IF ecoute THEN "read" ELSE "fini"
          /\ pcServeur = IF ecoute THEN "read" ELSE "fini"

Mkfifo ==
    /\ pcServeur = "mkfifo" /\ pcServeur' = "open" /\ existe' = TRUE
    /\ UNCHANGED <<exercice, tube, saisi, fdwrite, fdread, cClient, cServeur, ecouteClient, ecoute,
                   pcClient, sortie, avant>>

(* Each open waits for the other one; then while (ecoute).                 *)
Open ==
    /\ pcClient' = (IF ecouteClient THEN "read" ELSE "fini")
    /\ pcServeur' = (IF ecoute THEN "read" ELSE "fini")
    /\ fdwrite' = ecouteClient /\ fdread' = ecoute
    /\ UNCHANGED <<exercice, tube, saisi, existe, cClient, cServeur, ecouteClient, ecoute, sortie, avant>>

ClientOpen ==
    /\ pcClient = "open" /\ existe
    /\ \/ pcServeur = "attend" /\ Open
       \/ /\ pcServeur # "attend" /\ pcClient' = "attend"
          /\ UNCHANGED <<exercice, tube, saisi, existe, fdwrite, fdread, cClient, cServeur, ecouteClient,
                         ecoute, pcServeur, sortie, avant>>

ServeurOpen ==
    /\ pcServeur = "open" /\ existe
    /\ \/ pcClient = "attend" /\ Open
       \/ /\ pcClient # "attend" /\ pcServeur' = "attend"
          /\ UNCHANGED <<exercice, tube, saisi, existe, fdwrite, fdread, cClient, cServeur, ecouteClient,
                         ecoute, pcClient, sortie, avant>>

(* There is no pipe of this name, or no more: exit(2).                     *)
ClientOpenEchoue ==
    /\ pcClient = "open" /\ ~existe /\ pcClient' = "fini"
    /\ UNCHANGED <<exercice, tube, saisi, existe, fdwrite, fdread, cClient, cServeur, ecouteClient,
                   ecoute, pcServeur, sortie, avant>>

ServeurOpenEchoue ==
    /\ pcServeur = "open" /\ ~existe /\ pcServeur' = "fini"
    /\ UNCHANGED <<exercice, tube, saisi, existe, fdwrite, fdread, cClient, cServeur, ecouteClient,
                   ecoute, pcClient, sortie, avant>>

ClientLit ==
    /\ pcClient = "read" /\ pcClient' = "write"
    /\ saisi' = IF saisi < Saisis THEN saisi + 1 ELSE saisi
    /\ cClient' = saisi'
    /\ UNCHANGED <<exercice, tube, existe, fdwrite, fdread, cServeur, ecouteClient, ecoute, pcServeur,
                   sortie, avant>>

(* The write fails when the pipe is closed, at either end.                 *)
ClientEcrit ==
    /\ pcClient = "write"
    /\ IF fdwrite /\ fdread THEN Len(tube) < Capacite /\ tube' = Append(tube, cClient) ELSE UNCHANGED tube
    /\ pcClient' = IF ecouteClient THEN "read" ELSE "fini"
    /\ fdwrite' = (fdwrite /\ ecouteClient)
    /\ UNCHANGED <<exercice, saisi, existe, fdread, cClient, cServeur, ecouteClient, ecoute, pcServeur,
                   sortie, avant>>

(* Mutant of ServeurLit: what is read after the end is kept as a character.*)
ServeurLitZero ==
    /\ pcServeur = "read"
    /\ \/ /\ fdread /\ tube # <<>>
          /\ cServeur' = Head(tube) /\ tube' = Tail(tube) /\ pcServeur' = "printf"
       \/ /\ ~fdread \/ (tube = <<>> /\ ~fdwrite)
          /\ pcServeur' = (IF exercice = "nomme" THEN "printf" ELSE "read")
          /\ cServeur' = 0 /\ UNCHANGED tube
    /\ UNCHANGED <<exercice, saisi, existe, fdwrite, fdread, cClient, ecouteClient, ecoute, pcClient,
                   sortie, avant>>

(* Nothing is read when the pipe is empty and has no writer, or is closed; *)
(* the son of pipe_annonyme.c then reads again.                            *)
ServeurLit ==
    /\ pcServeur = "read"
    /\ \/ /\ fdread /\ tube # <<>>
          /\ cServeur' = Head(tube) /\ tube' = Tail(tube) /\ pcServeur' = "printf"
       \/ /\ ~fdread \/ (tube = <<>> /\ ~fdwrite)
          /\ pcServeur' = (IF exercice = "nomme" THEN "printf" ELSE "read")
          /\ UNCHANGED <<tube, cServeur>>
    /\ UNCHANGED <<exercice, saisi, existe, fdwrite, fdread, cClient, ecouteClient, ecoute, pcClient,
                   sortie, avant>>

ServeurAffiche ==
    /\ pcServeur = "printf"
    /\ sortie' = IF Len(sortie) < MaxSortie THEN Append(sortie, Toupper(cServeur)) ELSE sortie
    /\ pcServeur' = IF ecoute THEN "read" ELSE "fini"
    /\ fdread' = (fdread /\ ecoute)
    /\ UNCHANGED <<exercice, tube, saisi, existe, fdwrite, cClient, cServeur, ecouteClient, ecoute,
                   pcClient, avant>>

(* unlink: whoever waits in open waits for a pipe that has no name any     *)
(* more, where nobody can come; even a new mkfifo makes another pipe.      *)
Unlink(pc) == IF pc = "attend" THEN "sansNom" ELSE pc

(* open gives up on SIGINT when it waits.                                  *)
Abandonne(pc) == IF pc \in {"attend", "sansNom"} THEN "fini" ELSE pc

(* func, in the client: a read that has begun returns; one that has not    *)
(* waits for the next character.                                           *)
IntClient ==
    /\ exercice = "nomme" /\ pcClient # "fini"
    /\ ecouteClient' = FALSE /\ fdwrite' = FALSE /\ existe' = FALSE
    /\ pcClient' \in {Abandonne(pcClient), IF pcClient = "read" THEN "write" ELSE Abandonne(pcClient)}
    /\ pcServeur' = Unlink(pcServeur)
    /\ UNCHANGED <<exercice, tube, saisi, fdread, cClient, cServeur, ecoute, sortie, avant>>

(* func, in the server: it closes the pipe, so that a read that has not    *)
(* begun fails.  Mutant: it does not close.                                *)
IntServeurSansClose ==
    /\ exercice = "nomme" /\ pcServeur # "fini"
    /\ ecoute' = FALSE /\ existe' = FALSE /\ avant' = (pcServeur = "mkfifo")
    /\ pcServeur' = Abandonne(pcServeur) /\ pcClient' = Unlink(pcClient)
    /\ UNCHANGED <<exercice, tube, saisi, fdwrite, fdread, cClient, cServeur, ecouteClient, sortie>>

IntServeur ==
    /\ exercice = "nomme" /\ pcServeur # "fini"
    /\ ecoute' = FALSE /\ fdread' = FALSE /\ existe' = FALSE /\ avant' = (pcServeur = "mkfifo")
    /\ pcServeur' = Abandonne(pcServeur) /\ pcClient' = Unlink(pcClient)
    /\ UNCHANGED <<exercice, tube, saisi, fdwrite, cClient, cServeur, ecouteClient, sortie>>

Serveur == Mkfifo \/ ServeurOpen \/ ServeurOpenEchoue \/ ServeurLit \/ ServeurAffiche
Client  == ClientOpen \/ ClientOpenEchoue \/ ClientLit \/ ClientEcrit

Next == Serveur \/ Client \/ IntClient \/ IntServeur

Spec == Init /\ [][Next]_pvars

-----------------------------------------------------------------------------
(* Types, and the bounds of the pipe and of the kept output.               *)
TypeOK ==
    /\ Len(tube) <= Capacite /\ Len(sortie) <= MaxSortie
    /\ cClient \in 0 .. Saisis /\ cServeur \in 0 .. Saisis /\ saisi \in 0 .. Saisis
    /\ pcClient \in {"open", "attend", "sansNom", "read", "write", "fini"}
    /\ pcServeur \in {"mkfifo", "open", "attend", "sansNom", "read", "printf", "fini"}

(* Whoever is interrupted and whenever, what is displayed is the beginning *)
(* of what was typed, in order and in upper case, and then the last of its *)
(* characters again and again: nothing is lost in the middle.              *)
Transcription ==
    \E n \in 0 .. Saisis : \A k \in 1 .. Len(sortie) : sortie[k] = Toupper(IF k <= n THEN k ELSE n)

(* A server that has received SIGINT ends, wherever it was, in a read that *)
(* has not begun or in an open that the client has made hopeless too, and  *)
(* leaves no pipe ("doit alors fermer le tube nomme et le detruire", 14);  *)
(* unless the last SIGINT came before mkfifo: it then makes the pipe and   *)
(* waits in open, and what is asked of it is not done.                     *)
FinServeur == ~ecoute /\ ~avant ~> pcServeur = "fini" /\ (exercice = "nomme" => ~existe)
=============================================================================

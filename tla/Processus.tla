----------------------------- MODULE Processus -----------------------------
(***************************************************************************)
(* Processes, signals and what they share, as the programs of              *)
(* ProcessusProgrammes use them: each process makes its calls one after    *)
(* the other, and the scheduler chooses.  A signal that is pending already *)
(* is not counted twice; one that is not blocked is handled at any moment; *)
(* several may be handled in any order.                                    *)
(***************************************************************************)
EXTENDS ProcessusProgrammes, Integers, FiniteSets, FiniteSetsExt

CONSTANTS
    MaxProcessus,
    Valeurs         \* that may be drawn: an exit code carries any of them

ProcessusAssumption ==
    /\ N \in Nat \ {0} /\ MaxProcessus \in Nat /\ N < MaxProcessus /\ 5 <= MaxProcessus
    /\ Longueur \in Nat /\ Valeurs \subseteq 0 .. 99

Pids == 1 .. MaxProcessus

VARIABLES
    prog,
    etat,       \* absent, vif, zombie, fini (nobody waits for it any more)
    pere, pc,
    masque, pendants,   \* signals blocked and pending
    val,        \* the value of a process
    trace,      \* the displays, <<p, "dit", value>>, and the signals handled, <<p, signal, 0>>
    boite,      \* values put for the father in a file, a segment or a socket
    pos, taille,        \* offset by open file, size of the file written
    tampon,     \* stdio buffer
    sem,        \* each process has its own copies
    perdu       \* a signal was handled while its process was not waiting for it

svars == <<masque, pendants>>
dvars == <<boite, pos, taille, tampon, sem>>
vars  == <<prog, etat, pere, pc, svars, val, trace, dvars, perdu>>

Init ==
    /\ prog \in Programmes
    /\ etat = [p \in Pids |-> IF p = 1 THEN "vif" ELSE "absent"]
    /\ pere = [p \in Pids |-> 0] /\ pc = [p \in Pids |-> 1]
    /\ masque = [p \in Pids |-> prog.masque] /\ pendants = [p \in Pids |-> {}]
    /\ val = [p \in Pids |-> 0] /\ trace = <<>> /\ boite = prog.boite
    /\ pos = <<0, 0>> /\ taille = 0 /\ tampon = [p \in Pids |-> <<>>]
    /\ sem = [p \in Pids |-> <<0, 0>>] /\ perdu = FALSE

Texte(p) == prog.texte[p]
Fils(p)  == {q \in Pids : pere[q] = p /\ etat[q] \in {"vif", "zombie"}}

(* p is at call nom; the next one, if the call returns.                    *)
A(p, nom) == etat[p] = "vif" /\ pc[p] <= Len(Texte(p)) /\ Texte(p)[pc[p]][1] = nom
Arg(p)    == Texte(p)[pc[p]][2]
Suite(p)  == pc' = [pc EXCEPT ![p] = @ + 1]

ForkP(p) ==
    /\ A(p, "fork") /\ Suite(p)
    /\ etat' = [etat EXCEPT ![Arg(p)] = "vif"]
    /\ pere' = [pere EXCEPT ![Arg(p)] = p]
    /\ masque' = [masque EXCEPT ![Arg(p)] = masque[p]]
    /\ sem' = [sem EXCEPT ![Arg(p)] = sem[p]]
    /\ UNCHANGED <<prog, pendants, val, trace, boite, pos, taille, tampon, perdu>>

(* The end of main, or exit: the father may still wait for the process.    *)
Exit(p) ==
    /\ etat[p] = "vif" /\ pc[p] > Len(Texte(p))
    /\ etat' = [q \in Pids |->
                   IF q = p THEN (IF pere[p] # 0 /\ etat[pere[p]] = "vif" THEN "zombie" ELSE "fini")
                   ELSE IF pere[q] = p /\ etat[q] = "zombie" THEN "fini" ELSE etat[q]]
    /\ UNCHANGED <<prog, pere, pc, svars, val, trace, dvars, perdu>>

(* wait takes any son, waitpid one of them; both return when there is none.*)
WaitP(p) ==
    /\ \/ A(p, "wait") /\ Fils(p) # {}
          /\ \E q \in Fils(p) : etat[q] = "zombie" /\ etat' = [etat EXCEPT ![q] = "fini"]
          /\ UNCHANGED val
       \/ A(p, "wait") /\ Fils(p) = {} /\ UNCHANGED <<etat, val>>
       \/ /\ A(p, "waitpid") \/ A(p, "statut")
          /\ etat[Arg(p)] = "zombie"
          /\ etat' = [etat EXCEPT ![Arg(p)] = "fini"]
          /\ val' = IF A(p, "statut") THEN [val EXCEPT ![p] = val[Arg(p)]] ELSE val
    /\ Suite(p)
    /\ UNCHANGED <<prog, pere, svars, trace, dvars, perdu>>

(* kill of a process that has ended has no effect.                         *)
KillP(p) ==
    /\ A(p, "kill") /\ Suite(p)
    /\ pendants' = IF etat[Arg(p)] = "vif" THEN [pendants EXCEPT ![Arg(p)] = @ \cup {Texte(p)[pc[p]][3]}]
                   ELSE pendants
    /\ UNCHANGED <<prog, etat, pere, masque, val, trace, dvars, perdu>>

(* The handler of s runs; in sigsuspend, which then returns, the signals   *)
(* of its argument are the ones that are not blocked.  The signal that is  *)
(* handled elsewhere, or with another, wakes no sigsuspend.                *)
Delivre(p, s) ==
    /\ etat[p] = "vif" /\ s \in pendants[p]
    /\ \/ /\ A(p, "suspend") /\ s \in Arg(p) /\ Suite(p)
          /\ perdu' = (perdu \/ pendants[p] \ (masque[p] \cup {s}) # {})
       \/ /\ s \notin masque[p] /\ ~A(p, "suspend")
          /\ perdu' = TRUE /\ UNCHANGED pc
    /\ pendants' = [pendants EXCEPT ![p] = @ \ {s}]
    /\ trace' = Append(trace, <<p, s, 0>>)
    /\ UNCHANGED <<prog, etat, pere, masque, val, dvars>>

PendingP(p) ==
    /\ A(p, "pending") /\ Arg(p) \subseteq pendants[p] /\ Suite(p)
    /\ UNCHANGED <<prog, etat, pere, svars, val, trace, dvars, perdu>>

DitP(p) ==
    /\ A(p, "dit") /\ Suite(p)
    /\ trace' = Append(trace, <<p, "dit", val[p]>>)
    /\ UNCHANGED <<prog, etat, pere, svars, val, dvars, perdu>>

(* The sum of the first n values of f.                                     *)
Cumul(f, n) == LET s[k \in 0 .. n] == IF k = 0 THEN 0 ELSE s[k - 1] + f[k] IN s[n]

(* What gives a process its value.                                         *)
ValeurP(p) ==
    /\ Suite(p)
    /\ \/ A(p, "pose") /\ val' = [val EXCEPT ![p] = Arg(p)] /\ UNCHANGED boite
       \/ A(p, "alea") /\ (\E v \in Valeurs : val' = [val EXCEPT ![p] = v]) /\ UNCHANGED boite
       \/ A(p, "depose") /\ boite' = Append(boite, val[p]) /\ UNCHANGED val
       \/ /\ A(p, "retire") /\ boite # <<>>
          /\ boite' = Tail(boite) /\ val' = [val EXCEPT ![p] = @ + Head(boite)]
       \/ /\ A(p, "somme")
          /\ val' = [val EXCEPT ![p] = @ + Cumul(boite, Len(boite))] /\ UNCHANGED boite
    /\ UNCHANGED <<prog, etat, pere, svars, trace, pos, taille, tampon, sem, perdu>>

(* The offset belongs to the file, the buffer to the process.              *)
LitP(p) ==
    /\ A(p, "lit")
    /\ \/ /\ tampon[p] # <<>>
          /\ val' = [val EXCEPT ![p] = Head(tampon[p])]
          /\ tampon' = [tampon EXCEPT ![p] = Tail(@)]
          /\ Suite(p) /\ UNCHANGED pos
       \/ /\ tampon[p] = <<>> /\ pos[1] < Longueur
          /\ LET n == Min({Arg(p), Longueur - pos[1]})
             IN  /\ tampon' = [tampon EXCEPT ![p] = [k \in 1 .. n |-> pos[1] + k]]
                 /\ pos' = [pos EXCEPT ![1] = @ + n]
          /\ UNCHANGED <<pc, val>>
       \/ /\ tampon[p] = <<>> /\ pos[1] >= Longueur
          /\ pc' = [pc EXCEPT ![p] = Len(Texte(p)) + 1]
          /\ UNCHANGED <<val, tampon, pos>>
    /\ UNCHANGED <<prog, etat, pere, svars, trace, boite, taille, sem, perdu>>

RetourP(p) ==
    /\ A(p, "retour") /\ pc' = [pc EXCEPT ![p] = 1]
    /\ UNCHANGED <<prog, etat, pere, svars, val, trace, dvars, perdu>>

EcritP(p) ==
    /\ Suite(p)
    /\ \/ /\ A(p, "write")
          /\ pos' = [pos EXCEPT ![Arg(p)] = @ + Texte(p)[pc[p]][3]]
          /\ taille' = Max({taille, pos'[Arg(p)]})
       \/ A(p, "lseek") /\ pos' = [pos EXCEPT ![Arg(p)] = 0] /\ UNCHANGED taille
    /\ UNCHANGED <<prog, etat, pere, svars, val, trace, boite, tampon, sem, perdu>>

SemP(p) ==
    /\ Suite(p)
    /\ \/ A(p, "semwait") /\ sem[p][Arg(p)] > 0 /\ sem' = [sem EXCEPT ![p][Arg(p)] = @ - 1]
       \/ A(p, "sempost") /\ sem' = [sem EXCEPT ![p][Arg(p)] = @ + 1]
    /\ UNCHANGED <<prog, etat, pere, svars, val, trace, boite, pos, taille, tampon, perdu>>

Pas(p) ==
    \/ ForkP(p) \/ Exit(p) \/ WaitP(p) \/ KillP(p) \/ PendingP(p) \/ DitP(p) \/ ValeurP(p)
    \/ LitP(p) \/ RetourP(p) \/ EcritP(p) \/ SemP(p) \/ \E s \in Deux : Delivre(p, s)

Next == \E p \in Pids : Pas(p)

Spec == Init /\ [][Next]_vars

(* Every process runs.                                                     *)
FairSpec == Spec /\ \A p \in Pids : WF_vars(Pas(p))

-----------------------------------------------------------------------------
Nom(S)   == prog.nom \in S

(* Types; and one datagram at a time waits in the socket of TME8 ex1.c.    *)
TypeOK ==
    /\ etat \in [Pids -> {"absent", "vif", "zombie", "fini"}]
    /\ pere \in [Pids -> 0 .. MaxProcessus]
    /\ \A p \in Pids : etat[p] # "absent" => p \in 1 .. Len(prog.texte) /\ pc[p] \in 1 .. Len(Texte(p)) + 1
    /\ \A p \in Pids : masque[p] \subseteq Deux /\ pendants[p] \subseteq Deux
    /\ \A p \in Pids : val[p] \in Nat /\ sem[p] \in Nat \X Nat
    /\ pos \in Nat \X Nat /\ taille \in Nat /\ perdu \in BOOLEAN
    /\ Nom({"datagramme"}) => Len(boite) <= 1

Crees    == 1 .. Len(prog.texte)
Termine(p) == etat[p] \in {"zombie", "fini"}
Affiche(p) == \E k \in 1 .. Len(trace) : trace[k][1] = p /\ trace[k][2] = "dit"

(* "Un processus qui a des fils [...] ne se termine qu'apres ceux-ci": the *)
(* trees and chains that use wait. Those of ex3.c and ex3c.c, where it is  *)
(* asked for too ("Comme toujours, chaque processus doit attendre que leur *)
(* fils se termine", ex3.c 12), have signals only and do not keep it: a    *)
(* son signals, then ends, and its father may end in between.              *)
FilsAvant ==
    Nom({"ex1", "ex1c", "ex2", "fils1", "ex2c", "nfork", "val", "addition", "memoire", "datagramme"}) =>
        \A p, q \in Pids : pere[q] = p /\ Termine(p) => Termine(q)

(* "Le processus fils1 ne peut se terminer qu'apres que fils2 a affiche    *)
(* son message", and after his own son; main after them all: USR1 and USR2 *)
(* carry it, although the signals merge and come in any order.             *)
AfficheAvant ==
    Nom({"ex3", "ex3c", "mauvaise"}) =>
        /\ Termine(2) => Affiche(3) /\ Affiche(4)
        /\ Termine(3) => Affiche(5)
        /\ Termine(1) => \A p \in 2 .. 5 : Affiche(p)

(* "Aucun processus ne se termine avant que tous les autres ne soient      *)
(* crees": the chain of chaine_fils_sigsuspend_kill.c.                     *)
ToutesCreees ==
    Nom({"chaine"}) => \A p, q \in Crees : Termine(p) => etat[q] # "absent"

(* What main displays is the value drawn by the last of the chain, or the  *)
(* sum of those drawn by its sons, if the file held nothing else.          *)
BonTotal ==
    Nom({"val", "addition", "memoire", "datagramme"}) /\ prog.boite = <<>> /\ Affiche(1) =>
        val[1] = IF prog.nom = "val" THEN val[N + 1] ELSE Cumul([k \in 1 .. N |-> val[k + 1]], N)

(* No character is displayed twice, by whatever process it was read, and   *)
(* none is missing at the end; ex1c displays in the reverse order.  ex1    *)
(* does too, and displays N + 1 times, from position N + 1 down, where the *)
(* text asks for "les n premiers caracteres" by "n processus" (ex1.c 13,   *)
(* 14): the first display is of the character at the offset n. One that    *)
(* the file does not have is replaced by whatever was in c.                *)
ChaqueCaractere ==
    /\ Nom({"ex1c", "posix", "libc"}) =>
        /\ \A j, k \in 1 .. Len(trace) : j < k =>
              IF Nom({"ex1c"}) THEN trace[j][3] > trace[k][3] ELSE trace[j][3] # trace[k][3]
        /\ (\A p \in Crees : Termine(p)) => Len(trace) = IF Nom({"ex1c"}) THEN N ELSE Longueur
    /\ Nom({"ex1"}) =>
        /\ \A j \in 1 .. Len(trace) : trace[j][3] = IF N + 2 - j <= Longueur THEN N + 2 - j ELSE 0
        /\ (\A p \in Crees : Termine(p)) => Len(trace) = N + 1

(* "La taille du fichier soit egale a 8 dans tous les scenarios".          *)
TailleHuit == Nom({"taille"}) /\ Termine(1) /\ Termine(2) => taille = 8

(* P1 handles the creation of P3, then its end, then displays that of P2,  *)
(* when no signal has come outside of sigsuspend. P1 does not know yet of  *)
(* that end, as is asked for ("lorsqu'il prend connaissance de la mort de  *)
(* son fils", p2_p1_p3.c 15): it displays (62) before it waits (63).       *)
OrdreDesSignaux ==
    LET creation == <<1, "USR1", 0>>  mort == <<1, "USR2", 0>>  message == <<1, "dit", 0>>
    IN  Nom({"p2"}) /\ ~perdu =>
            trace \in {<<>>, <<creation>>, <<creation, mort>>, <<creation, mort, message>>}

(* Types, and the order of ends, creations and displays that the programs  *)
(* keep.                                                                   *)
Ordres == TypeOK /\ FilsAvant /\ AfficheAvant /\ ToutesCreees /\ OrdreDesSignaux

(* What the programs compute.                                              *)
Resultats == BonTotal /\ ChaqueCaractere /\ TailleHuit

(* Every program ends, unless a signal that nothing blocked has come too   *)
(* early; but for the last process of chaine_fils_sigsuspend_kill.c, which *)
(* waits for nobody, and for the semaphores that are not shared.           *)
Fin ==
    <>(\/ perdu
       \/ \A p \in Crees : Termine(p) \/ (p = N + 1 /\ Nom({"chaine"})) \/ (Nom({"ex1c"}) /\ etat[p] = "absent")
       \/ Nom({"sem"}) /\ \A p \in {2, 3} : A(p, "semwait"))
=============================================================================

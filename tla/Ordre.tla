------------------------------- MODULE Ordre -------------------------------
(***************************************************************************)
(* Threads that display their number in increasing order, with a mutex, a  *)
(* condition and the number of the one whose turn it is (TMEExam ex4.c).   *)
(***************************************************************************)
EXTENDS Moniteur, Integers, Sequences

CONSTANT nbThread

OrdreAssumption ==
    /\ nbThread \in Nat
    /\ Threads = 0 .. nbThread - 1
    /\ Conds = {"cond"}

VARIABLES
    valCond,
    finis,      \* the threads that have left their section
    affiches    \* what was displayed

vars == <<mvars, valCond, finis, affiches>>

Init ==
    /\ MoniteurInit
    /\ valCond = 0
    /\ finis = {}
    /\ affiches = <<>>

Entre(t) ==
    /\ t \notin finis
    /\ Lock(t)
    /\ UNCHANGED <<valCond, finis, affiches>>

Dort(t) ==
    /\ valCond # t
    /\ CondWait(t, "cond")
    /\ UNCHANGED <<valCond, finis, affiches>>

(* Mutants of Affiche: "if" for "while"; one thread woken, which need not  *)
(* be the next; the turn is not passed on.                                 *)
AfficheSansTest(t) ==
    /\ Unlock(t)
    /\ valCond' = valCond + 1
    /\ affiches' = Append(affiches, t)
    /\ attente' \in Broadcast("cond")
    /\ finis' = finis \cup {t}

AfficheSignal(t) ==
    /\ valCond = t
    /\ Unlock(t)
    /\ valCond' = valCond + 1
    /\ affiches' = Append(affiches, t)
    /\ attente' \in Signal("cond")
    /\ finis' = finis \cup {t}

AfficheGardeSonTour(t) ==
    /\ valCond = t
    /\ Unlock(t)
    /\ affiches' = Append(affiches, t)
    /\ attente' \in Broadcast("cond")
    /\ finis' = finis \cup {t}
    /\ UNCHANGED valCond

Affiche(t) ==
    /\ valCond = t
    /\ Unlock(t)
    /\ valCond' = valCond + 1
    /\ affiches' = Append(affiches, t)
    /\ attente' \in Broadcast("cond")
    /\ finis' = finis \cup {t}

Intempestif(t) ==
    /\ ReveilIntempestif(t)
    /\ UNCHANGED <<valCond, finis, affiches>>

funcThread(t) == Entre(t) \/ Dort(t) \/ Affiche(t)

Next == \E t \in Threads : funcThread(t) \/ Intempestif(t)

-----------------------------------------------------------------------------
TypeOK ==
    /\ MoniteurTypeOK
    /\ valCond \in 0 .. nbThread
    /\ finis \subseteq Threads
    /\ affiches \in Seq(Threads)

(* "L'ordre d'affichage soit toujours" 0, 1, 2, ...: the k-th number       *)
(* displayed is k - 1.                                                     *)
EnOrdre == \A k \in 1 .. Len(affiches) : affiches[k] = k - 1

(* The thread whose turn it is does not sleep: the broadcast of the one    *)
(* before it cannot fall before its wait.                                  *)
SonTourEveille == \A t \in attente["cond"] : t # valCond

(* All the numbers are displayed.                                          *)
TousAffichent == <>(Len(affiches) = nbThread)
=============================================================================

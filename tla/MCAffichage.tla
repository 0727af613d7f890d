---------------------------- MODULE MCAffichage ----------------------------
(* Threads that wait for their turn to display, checked in turn: the sum   *)
(* that one of them displays (TME4), and the two programs for the ordered  *)
(* display (TMEExam, ex4.c and ex4c.c); exo says which one runs.           *)
EXTENDS SommeThreads, Integers, Sequences

ConstThreads == Ajouts \cup {Attente}
ConstConds   == {"cond"}

CONSTANTS nbThread, N
VARIABLES exo,
    omutex, oattente, valCond, finis, affiches,
    fmutex, dort, flag, crees, prets, fpc, faffiches, intempestif, ecrase

OThreads == 0 .. nbThread - 1
O == INSTANCE Ordre WITH Threads <- OThreads, mutex <- omutex, attente <- oattente
F == INSTANCE OrdreFlags WITH mutex <- fmutex, pc <- fpc, affiches <- faffiches

ASSUME MCAffichageAssumption ==
    O!OrdreAssumption /\ Personne \notin OThreads /\ F!FlagsAssumption

ovars == <<omutex, oattente, valCond, finis, affiches>>
fvars == <<fmutex, dort, flag, crees, prets, fpc, faffiches, intempestif, ecrase>>

MCInit ==
    /\ exo \in {"somme", "ex4", "ex4c"}
    /\ Init /\ O!Init /\ F!Init
    /\ exo # "somme" => prog = "detach"

MCNext ==
    \/ exo = "somme" /\ Next   /\ UNCHANGED <<exo, ovars, fvars>>
    \/ exo = "ex4"   /\ O!Next /\ UNCHANGED <<exo, vars, fvars>>
    \/ exo = "ex4c"  /\ F!Next /\ UNCHANGED <<exo, vars, ovars>>

(* The fairness of the one that runs: a thread goes on when it can, and is *)
(* not kept for ever from the mutex it asks for.                           *)
Somme(A) == exo = "somme" /\ Vif(A)
MCSpec ==
    /\ MCInit /\ [][MCNext]_<<exo, vars, ovars, fvars>>
    /\ WF_vars(exo = "somme" /\ ~fini /\ Main)
    /\ WF_vars(Somme(Detache(Attente) \/ Dort \/ Sort \/ Affiche)) /\ SF_vars(Somme(LockAttente))
    /\ \A t \in Ajouts :
        /\ WF_vars(Somme(Detache(t) \/ Charge(t) \/ RangeCompte(t) \/ Compte(t) \/ Ajoute(t)))
        /\ SF_vars(Somme(LockAjout(t)))
    /\ \A t \in OThreads : /\ WF_ovars(exo = "ex4" /\ (O!Dort(t) \/ O!Affiche(t)))
                           /\ SF_ovars(exo = "ex4" /\ O!Entre(t))
    /\ WF_fvars(exo = "ex4c" /\ F!Main)
    /\ \A t \in 0 .. N - 1 : WF_fvars(exo = "ex4c" /\ F!thread_cond(t))

-----------------------------------------------------------------------------
(* The sum is displayed by the thread created for it, before the process   *)
(* is over.  (Where main does not join that thread it may return before.)  *)
SommeAffichee == exo = "somme" => FinaleAffichee

(* ex4.c is typed and displays in order; the thread whose turn it is does  *)
(* not sleep: the broadcast of the one before cannot fall before its wait. *)
EnOrdre        == O!TypeOK /\ O!EnOrdre
SonTourEveille == O!SonTourEveille

(* ex4c.c is typed; it displays in order, as long as no wait returns       *)
(* without a signal; and a flag raised was raised by the thread before.    *)
FlagsJustes == F!TypeOK /\ F!EnOrdre /\ F!FlagMerite

(* ex4.c displays all the numbers; ex4c.c ends, unless main has overwritten*)
(* a slot in use.                                                          *)
Finissent == (exo = "ex4" => O!TousAffichent) /\ (exo = "ex4c" => F!TousFinissent)
=============================================================================

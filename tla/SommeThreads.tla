---------------------------- MODULE SommeThreads ----------------------------
(***************************************************************************)
(* Threads that each add a value to a shared sum; the last one wakes a     *)
(* thread created first, which displays the sum (TME4).  Three programs:   *)
(*   pthread_attr_setdetachstate.c        main joins the display thread    *)
(*   thread_cond_wait_affichage_final.c   main joins the adding threads    *)
(*   detach.c                             every thread detaches itself, and*)
(*                                        counts itself before the mutex   *)
(* The sum is the set of the threads whose value is in it.                 *)
(***************************************************************************)
EXTENDS Moniteur, Naturals, FiniteSets

CONSTANTS
    Ajouts, Attente     \* the adding threads, and the one that displays

Programmes == {"setdetachstate", "affichage_final", "detach"}

ASSUME SommeAssumption ==
    /\ Threads = Ajouts \cup {Attente} /\ Attente \notin Ajouts
    /\ Conds = {"cond"}
    /\ IsFiniteSet(Ajouts)

VARIABLES
    prog,       \* the program that runs
    valThread,  \* how many adding threads have counted themselves
    val,        \* the sum
    condition,
    pc, reg,    \* where each thread is, and the valThread it has loaded
    affiche,    \* the sums displayed
    fini        \* main has returned: the process is over

svars == <<prog, valThread, val, condition, affiche>>
vars == <<mvars, svars, pc, reg, fini>>

valTab == Cardinality(Ajouts)

(* The threads detach themselves, and count themselves before the mutex.   *)
SeDetachent == prog = "detach"

(* The threads main joins.                                                 *)
Joints == CASE prog = "setdetachstate"  -> {Attente}
            [] prog = "affichage_final" -> Ajouts
            [] prog = "detach"          -> Threads

Init ==
    /\ MoniteurInit
    /\ prog \in Programmes
    /\ valThread = 0
    /\ val = {}
    /\ condition = 0
    /\ pc = [t \in Threads |-> IF SeDetachent THEN "detache"
                               ELSE IF t = Attente THEN "lock" ELSE "compte"]
    /\ reg = [t \in Ajouts |-> 0]
    /\ affiche = {}
    /\ fini = FALSE

Goto(t, from, to) == pc[t] = from /\ pc' = [pc EXCEPT ![t] = to]

Detache(t) ==
    /\ Goto(t, "detache", IF t = Attente THEN "lock" ELSE "charge")
    /\ UNCHANGED <<mvars, svars, reg>>

(* valThread++ outside the mutex: a load and a store.                      *)
Charge(t) ==
    /\ Goto(t, "charge", "range")
    /\ reg' = [reg EXCEPT ![t] = valThread]
    /\ UNCHANGED <<mvars, svars>>

RangeCompte(t) ==
    /\ Goto(t, "range", "ajoute")
    /\ valThread' = reg[t] + 1
    /\ UNCHANGED <<prog, mvars, val, condition, affiche, reg>>

LockAjout(t) ==
    /\ pc[t] \in {"compte", "ajoute"}
    /\ Lock(t)
    /\ UNCHANGED <<svars, pc, reg>>

(* valThread++ inside the mutex.                                           *)
Compte(t) ==
    /\ mutex = t
    /\ Goto(t, "compte", "ajoute")
    /\ valThread' = valThread + 1
    /\ UNCHANGED <<prog, mvars, val, condition, affiche, reg>>

(* Mutants of Ajoute: the thread takes itself for the last one too early;  *)
(* it does not signal; it does not set condition.                          *)
AjouteTropTot(t) ==
    /\ Goto(t, "ajoute", "fin")
    /\ Unlock(t)
    /\ val' = val \cup {t}
    /\ IF valThread = valTab - 1
       THEN condition' = 1 /\ attente' \in Signal("cond")
       ELSE UNCHANGED <<condition, attente>>
    /\ UNCHANGED <<prog, valThread, affiche, reg>>

AjouteSansSignal(t) ==
    /\ Goto(t, "ajoute", "fin")
    /\ Unlock(t)
    /\ val' = val \cup {t}
    /\ condition' = IF valThread = valTab THEN 1 ELSE condition
    /\ UNCHANGED <<prog, valThread, attente, affiche, reg>>

AjouteSansCondition(t) ==
    /\ Goto(t, "ajoute", "fin")
    /\ Unlock(t)
    /\ val' = val \cup {t}
    /\ attente' \in IF valThread = valTab THEN Signal("cond") ELSE {attente}
    /\ UNCHANGED <<prog, valThread, condition, affiche, reg>>

(* val += *arg; the last one raises the condition; unlock                  *)
Ajoute(t) ==
    /\ Goto(t, "ajoute", "fin")
    /\ Unlock(t)
    /\ val' = val \cup {t}
    /\ IF valThread = valTab
       THEN condition' = 1 /\ attente' \in Signal("cond")
       ELSE UNCHANGED <<condition, attente>>
    /\ UNCHANGED <<prog, valThread, affiche, reg>>

funcThread(t) == Detache(t) \/ Charge(t) \/ RangeCompte(t) \/ LockAjout(t) \/ Compte(t) \/ Ajoute(t)

LockAttente ==
    /\ pc[Attente] = "lock"
    /\ Lock(Attente)
    /\ UNCHANGED <<svars, pc, reg>>

Dort ==
    /\ pc[Attente] = "lock"
    /\ condition = 0
    /\ CondWait(Attente, "cond")
    /\ UNCHANGED <<svars, pc, reg>>

Sort ==
    /\ Goto(Attente, "lock", "affiche")
    /\ condition = 1
    /\ Unlock(Attente)
    /\ UNCHANGED <<attente, svars, reg>>

(* printf of val, after the mutex was given back                           *)
Affiche ==
    /\ Goto(Attente, "affiche", "fin")
    /\ affiche' = affiche \cup {val}
    /\ UNCHANGED <<prog, mvars, valThread, val, condition, reg>>

Intempestif ==
    /\ ReveilIntempestif(Attente)
    /\ UNCHANGED <<svars, pc, reg>>

funcAttente == Detache(Attente) \/ LockAttente \/ Dort \/ Sort \/ Affiche

(* main returns when its joins have: a join waits for the end of a thread, *)
(* or fails at once on one that is detached.                               *)
Main ==
    /\ \A t \in Joints : \/ pc[t] = "fin"
                         \/ SeDetachent /\ pc[t] # "detache"
    /\ fini' = TRUE
    /\ UNCHANGED <<mvars, svars, pc, reg>>

Next ==
    /\ ~fini
    /\ \/ Main
       \/ /\ UNCHANGED fini
          /\ funcAttente \/ Intempestif \/ \E t \in Ajouts : funcThread(t)

Spec == Init /\ [][Next]_vars

Vif(A) == ~fini /\ UNCHANGED fini /\ A

-----------------------------------------------------------------------------
TypeOK ==
    /\ MoniteurTypeOK
    /\ prog \in Programmes
    /\ valThread \in 0 .. valTab
    /\ val \subseteq Ajouts
    /\ condition \in {0, 1}
    /\ pc \in [Threads -> {"detache", "charge", "range", "compte", "ajoute",
                           "lock", "affiche", "fin"}]
    /\ reg \in [Ajouts -> 0 .. valTab]
    /\ affiche \subseteq SUBSET Ajouts
    /\ fini \in BOOLEAN

(* What is displayed is the complete sum: the thread that finds itself the *)
(* last one is the last one to add.  (In detach.c it need not be.)         *)
SommeComplete == prog # "detach" => affiche \subseteq {Ajouts}

(* The one signal is not lost: the display thread does not sleep once the  *)
(* condition is raised.                                                    *)
PasPerdu == condition = 1 => attente["cond"] = {}

(* The sum is displayed by the thread created for it, before the process   *)
(* is over.  (In the other two programs main may return before.)           *)
FinaleAffichee == prog = "setdetachstate" => <>(affiche # {})
=============================================================================

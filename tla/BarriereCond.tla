---------------------------- MODULE BarriereCond ----------------------------
(***************************************************************************)
(* The barrier built from a mutex and a condition variable                 *)
(* (TME4 pthread_barriere_implement.c): val_thread_max threads call        *)
(* wait_barrier once, with val_thread_max as argument.                     *)
(***************************************************************************)
EXTENDS Moniteur, Naturals, FiniteSets

ASSUME BarriereAssumption ==
    /\ IsFiniteSet(Threads) /\ Threads # {}
    /\ Conds = {"cond"}

val_thread_max == Cardinality(Threads)

VARIABLES
    val_inside_barrier,
    condition,
    pc      \* avant, compte (has the mutex), boucle (in the while), apres

vars == <<mvars, val_inside_barrier, condition, pc>>

Init ==
    /\ MoniteurInit
    /\ val_inside_barrier = 0
    /\ condition = 0
    /\ pc = [t \in Threads |-> "avant"]

Goto(t, l) == pc' = [pc EXCEPT ![t] = l]

Entre(t) ==
    /\ pc[t] = "avant"
    /\ Lock(t)
    /\ Goto(t, "compte")
    /\ UNCHANGED <<val_inside_barrier, condition>>

(* Mutants of Dernier: it wakes one thread only; it does not set condition.*)
DernierUnSeul(t) ==
    /\ pc[t] = "compte"
    /\ val_inside_barrier + 1 = val_thread_max
    /\ val_inside_barrier' = val_inside_barrier + 1
    /\ condition' = 1
    /\ attente' \in Signal("cond")
    /\ Unlock(t)
    /\ Goto(t, "apres")

DernierSansCondition(t) ==
    /\ pc[t] = "compte"
    /\ val_inside_barrier + 1 = val_thread_max
    /\ val_inside_barrier' = val_inside_barrier + 1
    /\ attente' \in Broadcast("cond")
    /\ Unlock(t)
    /\ Goto(t, "apres")
    /\ UNCHANGED condition

(* The last one sets condition, wakes everybody and leaves.                *)
Dernier(t) ==
    /\ pc[t] = "compte"
    /\ val_inside_barrier + 1 = val_thread_max
    /\ val_inside_barrier' = val_inside_barrier + 1
    /\ condition' = 1
    /\ attente' \in Broadcast("cond")
    /\ Unlock(t)
    /\ Goto(t, "apres")

(* Another one comes to the while, with the mutex.                         *)
Compte(t) ==
    /\ pc[t] = "compte"
    /\ val_inside_barrier + 1 # val_thread_max
    /\ val_inside_barrier' = val_inside_barrier + 1
    /\ Goto(t, "boucle")
    /\ UNCHANGED <<mvars, condition>>

Dort(t) ==
    /\ pc[t] = "boucle"
    /\ condition = 0
    /\ CondWait(t, "cond")
    /\ UNCHANGED <<val_inside_barrier, condition, pc>>

Reprend(t) ==
    /\ pc[t] = "boucle"
    /\ Lock(t)
    /\ UNCHANGED <<val_inside_barrier, condition, pc>>

(* Mutant of Sort: "if" for "while", condition is not read after the wait. *)
SortSansTest(t) ==
    /\ pc[t] = "boucle"
    /\ Unlock(t)
    /\ Goto(t, "apres")
    /\ UNCHANGED <<attente, val_inside_barrier, condition>>

Sort(t) ==
    /\ pc[t] = "boucle"
    /\ condition # 0
    /\ Unlock(t)
    /\ Goto(t, "apres")
    /\ UNCHANGED <<attente, val_inside_barrier, condition>>

Intempestif(t) ==
    /\ ReveilIntempestif(t)
    /\ UNCHANGED <<val_inside_barrier, condition, pc>>

wait_barrier(t) == Entre(t) \/ Dernier(t) \/ Compte(t) \/ Dort(t) \/ Reprend(t) \/ Sort(t)

Next == \E t \in Threads : wait_barrier(t) \/ Intempestif(t)

Spec == Init /\ [][Next]_vars

(* A thread goes on when it can and is not kept for ever from the mutex.   *)
Fairness ==
    \A t \in Threads : /\ WF_vars(Dernier(t) \/ Compte(t) \/ Dort(t) \/ Sort(t))
                       /\ SF_vars(Entre(t)) /\ SF_vars(Reprend(t))

FairSpec == Spec /\ Fairness

-----------------------------------------------------------------------------
TypeOK ==
    /\ MoniteurTypeOK
    /\ val_inside_barrier \in 0 .. val_thread_max
    /\ condition \in {0, 1}
    /\ pc \in [Threads -> {"avant", "compte", "boucle", "apres"}]

Arrives == {t \in Threads : pc[t] \in {"boucle", "apres"}}
Passes  == {t \in Threads : pc[t] = "apres"}

(* Every thread has come before the first one goes.                        *)
B == INSTANCE Barriere WITH Participants <- Threads, N <- val_thread_max,
                            arrives <- Arrives, passes <- Passes
Implements == B!Spec

(* Once the last thread has come nobody sleeps: each has been woken or     *)
(* will read the condition before it waits.                                *)
PersonneNeDort == condition = 1 => attente["cond"] = {}

(* Everybody eventually passes.                                            *)
TousPassent == <>(Passes = Threads)
=============================================================================

---------------------------- MODULE BarriereSem ----------------------------
(***************************************************************************)
(* The barriers of processes built from named semaphores (TME7).  A chain  *)
(* of forks starts nbProcess + 1 processes, each of which calls            *)
(* wait_barrier once; two programs tell in different ways which one is the *)
(* last, and so releases the others:                                       *)
(*   "shm"       ex1shm.c: a counter in shared memory, under a mutex       *)
(*   "compteur"  ex1CompteurClassiqueAmeliorer.c (TME6 and TME7): a        *)
(*               semaphore that counts down, under a mutex of nbProcess    *)
(***************************************************************************)
EXTENDS Naturals, FiniteSets

CONSTANT nbProcess

ProcessusAssumption == nbProcess \in Nat \ {0}

Processes == 0 .. nbProcess

VARIABLES
    version,                    \* the program that runs
    mutexSem, compteur, barrier,   \* the values of the semaphores
    cpt,                        \* the counter in shared memory
    etape, i                       \* i: what each process has read or still posts

vars == <<version, mutexSem, compteur, barrier, cpt, etape, i>>

Init ==
    /\ version \in {"shm", "compteur"}
    /\ mutexSem = IF version = "compteur" THEN nbProcess ELSE 1
    /\ compteur = nbProcess
    /\ barrier = 0
    /\ cpt = 0
    /\ etape = [p \in Processes |-> IF p = 0 THEN "fork" ELSE "absent"]
    /\ i = [p \in Processes |-> 0]

Goto(p, from, to) == etape[p] = from /\ etape' = [etape EXCEPT ![p] = to]

(* for (i = 0; i < nbProcess; i++) if (fork() != 0) break: the parent goes *)
(* to wait_barrier, the child goes on with the loop.                       *)
Fork(p) ==
    /\ etape[p] = "fork"
    /\ etape' = [q \in Processes |-> CASE q = p -> "avant"
                                    [] q = p + 1 -> "fork"
                                    [] OTHER -> etape[q]]
    /\ UNCHANGED <<version, mutexSem, compteur, barrier, cpt, i>>

MutexWait(p) ==
    /\ Goto(p, "avant", IF version = "shm" THEN "compte" ELSE "decompte")
    /\ mutexSem > 0
    /\ mutexSem' = mutexSem - 1
    /\ UNCHANGED <<version, compteur, barrier, cpt, i>>

(* Mutant of Compte: the last one is found one too early.                  *)
CompteTropTot(p) ==
    /\ Goto(p, "compte", IF cpt + 1 < nbProcess - 1 THEN "postAttend" ELSE "postLibere")
    /\ cpt' = cpt + 1
    /\ UNCHANGED <<version, mutexSem, compteur, barrier, i>>

(* "shm": the counter is incremented, then tested                         *)
Compte(p) ==
    /\ Goto(p, "compte", IF cpt + 1 < nbProcess THEN "postAttend" ELSE "postLibere")
    /\ cpt' = cpt + 1
    /\ UNCHANGED <<version, mutexSem, compteur, barrier, i>>

(* "compteur": sem_wait(compteur), then sem_getvalue, then the test        *)
Decompte(p) ==
    /\ Goto(p, "decompte", "valeur")
    /\ compteur > 0
    /\ compteur' = compteur - 1
    /\ UNCHANGED <<version, mutexSem, barrier, cpt, i>>

Valeur(p) ==
    /\ Goto(p, "valeur", IF compteur > 0 THEN "postAttend" ELSE "postLibere")
    /\ UNCHANGED <<version, mutexSem, compteur, barrier, cpt, i>>

MutexPost(p) ==
    /\ \/ Goto(p, "postAttend", "attend") /\ UNCHANGED i
       \/ Goto(p, "postLibere", "libere") /\ i' = [i EXCEPT ![p] = 1]
    /\ mutexSem' = mutexSem + 1
    /\ UNCHANGED <<version, compteur, barrier, cpt>>

(* for (i = 1; i < nbProcess; i++) sem_post(barrier)                       *)
Libere(p) ==
    /\ etape[p] = "libere"
    /\ i[p] < nbProcess
    /\ barrier' = barrier + 1
    /\ i' = [i EXCEPT ![p] = @ + 1]
    /\ UNCHANGED <<version, mutexSem, compteur, cpt, etape>>

Quitte(p) ==
    /\ Goto(p, "libere", "apres")
    /\ i[p] >= nbProcess
    /\ UNCHANGED <<version, mutexSem, compteur, barrier, cpt, i>>

Attend(p) ==
    /\ Goto(p, "attend", "apres")
    /\ barrier > 0
    /\ barrier' = barrier - 1
    /\ UNCHANGED <<version, mutexSem, compteur, cpt, i>>

wait_barrier(p) ==
    \/ MutexWait(p) \/ Compte(p) \/ Decompte(p) \/ Valeur(p) \/ MutexPost(p)
    \/ Libere(p) \/ Quitte(p) \/ Attend(p)

Next == \E p \in Processes : Fork(p) \/ wait_barrier(p)

Spec == Init /\ [][Next]_vars

(* The processes run; a process is not kept for ever from a semaphore that *)
(* is posted again and again.                                              *)
Fairness ==
    \A p \in Processes :
        /\ WF_vars(Fork(p) \/ wait_barrier(p))
        /\ SF_vars(MutexWait(p)) /\ SF_vars(Attend(p))

FairSpec == Spec /\ Fairness

-----------------------------------------------------------------------------
TypeOK ==
    /\ version \in {"shm", "compteur"}
    /\ mutexSem \in 0 .. nbProcess + 1
    /\ compteur \in 0 .. nbProcess
    /\ barrier \in Nat
    /\ cpt \in 0 .. nbProcess + 1
    /\ etape \in [Processes -> {"absent", "fork", "avant", "compte", "decompte", "valeur",
                "postAttend", "postLibere", "attend", "libere", "apres"}]
    /\ i \in [Processes -> 0 .. nbProcess]

Arrives == {p \in Processes : etape[p] \in {"valeur", "postAttend", "postLibere",
                                         "attend", "libere", "apres"}}
Passes  == {p \in Processes : etape[p] = "apres"}

(* Nobody passes before nbProcess processes have come.                     *)
B == INSTANCE Barriere WITH Participants <- Processes, N <- nbProcess,
                            arrives <- Arrives, passes <- Passes
Implements == B!Spec

(* Who gets through, with one process more than the barrier counts: all of *)
(* them, the one in excess too, with the counter in shared memory; exactly *)
(* nbProcess with the counting semaphore, where the one in excess stays in *)
(* sem_wait(compteur) for ever (ex1CompteurClassiqueAmeliorer.c 16).       *)
Passent ==
    /\ version = "shm" => <>(Passes = Processes)
    /\ version = "compteur" =>
          <>[](\E p \in Processes : Passes = Processes \ {p} /\ etape[p] = "decompte")
=============================================================================

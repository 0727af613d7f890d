----------------------------- MODULE MCBarriere -----------------------------
(* The barrier of threads and those of processes, checked in turn: exo     *)
(* says which one runs.                                                    *)
EXTENDS BarriereCond

CONSTANT nbProcess
ConstConds   == {"cond"}
ConstThreads == 0 .. nbProcess
VARIABLES exo, version, mutexSem, compteur, barrier, cpt, etape, i

S == INSTANCE BarriereSem

ASSUME MCBarriereAssumption == S!ProcessusAssumption

svars == <<version, mutexSem, compteur, barrier, cpt, etape, i>>

MCInit == Init /\ S!Init /\ exo \in {"threads", "processus"}

Par(T, P) ==
    \/ exo = "threads"   /\ T /\ UNCHANGED <<exo, svars>>
    \/ exo = "processus" /\ P /\ UNCHANGED <<exo, vars>>

MCNext == Par(Next, S!Next)

(* The steps of thread or process k; those that take a mutex, and those    *)
(* that wait for the others: the fairness is that of the one that runs.    *)
Pas(k)     == Par(Dernier(k) \/ Compte(k) \/ Dort(k) \/ Sort(k), S!Fork(k) \/ S!wait_barrier(k))
Prend(k)   == Par(Entre(k), S!MutexWait(k))
Attente(k) == Par(Reprend(k), S!Attend(k))

MCSpec ==
    /\ MCInit /\ [][MCNext]_<<exo, vars, svars>>
    /\ \A k \in Threads :
        WF_<<vars, svars>>(Pas(k)) /\ SF_<<vars, svars>>(Prend(k)) /\ SF_<<vars, svars>>(Attente(k))

-----------------------------------------------------------------------------
(* Nobody passes before nbProcess processes have come; and the values of   *)
(* their semaphores and counters stay in their bounds.                     *)
ProcessusImplements == S!Implements /\ []S!TypeOK

(* Everybody passes the barrier of threads. Of the processes, one more     *)
(* than their barrier counts, everybody passes in one program and all but  *)
(* one in the other.                                                       *)
TousSortent == (exo = "threads" => TousPassent) /\ (exo = "processus" => S!Passent)
=============================================================================

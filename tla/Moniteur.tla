------------------------------ MODULE Moniteur ------------------------------
(***************************************************************************)
(* One pthread mutex and the condition variables used with it, as the      *)
(* programs of the repository use them.  A thread in pthread_cond_wait is  *)
(* a member of attente[c]; once it has left that set, by a signal, a       *)
(* broadcast or a spurious wakeup, it has to lock the mutex again.         *)
(***************************************************************************)
CONSTANTS Threads, Conds, Personne

ASSUME PersonneAssumption == Personne \notin Threads

VARIABLES
    mutex,      \* the thread that holds it, or Personne
    attente     \* for each condition, the threads that wait for it

mvars == <<mutex, attente>>

MoniteurInit ==
    /\ mutex = Personne
    /\ attente = [c \in Conds |-> {}]

Endormi(t) == \E c \in Conds : t \in attente[c]

Lock(t) ==
    /\ mutex = Personne
    /\ ~Endormi(t)
    /\ mutex' = t
    /\ UNCHANGED attente

Unlock(t) == mutex = t /\ mutex' = Personne

CondWait(t, c) ==
    /\ Unlock(t)
    /\ attente' = [attente EXCEPT ![c] = @ \cup {t}]

(* What attente may become: a signal wakes one thread, if one waits.       *)
Broadcast(c) == {[attente EXCEPT ![c] = {}]}
Signal(c)    == IF attente[c] = {} THEN {attente}
                ELSE {[attente EXCEPT ![c] = @ \ {t}] : t \in attente[c]}

ReveilIntempestif(t) ==
    /\ \E c \in Conds : /\ t \in attente[c]
                        /\ attente' = [attente EXCEPT ![c] = @ \ {t}]
    /\ UNCHANGED mutex

MoniteurTypeOK ==
    /\ mutex \in Threads \cup {Personne}
    /\ attente \in [Conds -> SUBSET Threads]
=============================================================================

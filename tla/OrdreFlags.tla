----------------------------- MODULE OrdreFlags -----------------------------
(***************************************************************************)
(* The other program for the same exercise (TMEExam ex4c.c): thread id     *)
(* waits on a condition of its own for the flag that thread id - 1 raises. *)
(* main initialises the mutex, the condition and the flag of a thread in   *)
(* the loop that creates them.  A mutex of static storage is usable before *)
(* pthread_mutex_init (all zeros), and free after it.                      *)
(***************************************************************************)
EXTENDS Integers, Sequences

CONSTANT N

FlagsAssumption == N \in Nat \ {0}

Rangs == 0 .. N - 1
Libre   == -1

VARIABLES
    mutex,      \* by thread: who holds the mutex, or Libre
    dort,       \* the threads in pthread_cond_wait
    flag,
    crees,      \* how many threads main has created
    prets,      \* how many slots main has initialised
    pc,
    affiches,
    intempestif,\* pthread_cond_wait has returned without a signal
    ecrase      \* main has initialised a slot that was in use

vars == <<mutex, dort, flag, crees, prets, pc, affiches, intempestif, ecrase>>

Init ==
    /\ mutex = [t \in Rangs |-> Libre]
    /\ dort = {}
    /\ flag = [t \in Rangs |-> 0]
    /\ crees = 0
    /\ prets = 0
    /\ pc = [t \in Rangs |-> IF t = 0 THEN "affiche" ELSE "lock"]
    /\ affiches = <<>>
    /\ intempestif = FALSE /\ ecrase = FALSE

Goto(t, from, to) == t < crees /\ pc[t] = from /\ pc' = [pc EXCEPT ![t] = to]

Ecrase == ecrase' = (ecrase \/ flag[prets] # 0 \/ mutex[prets] # Libre)

(* main: initialise slot i, then create thread i                           *)
MainInit ==
    /\ prets < N /\ prets = crees
    /\ mutex' = [mutex EXCEPT ![prets] = Libre]
    /\ flag' = [flag EXCEPT ![prets] = 0]
    /\ prets' = prets + 1 /\ Ecrase
    /\ UNCHANGED <<dort, crees, pc, affiches, intempestif>>

MainCree ==
    /\ crees < prets
    /\ crees' = crees + 1
    /\ UNCHANGED <<mutex, dort, flag, prets, pc, affiches, intempestif, ecrase>>

LockSien(t) ==
    /\ Goto(t, "lock", "if")
    /\ mutex[t] = Libre
    /\ mutex' = [mutex EXCEPT ![t] = t]
    /\ UNCHANGED <<dort, flag, crees, prets, affiches, intempestif, ecrase>>

(* Mutant of Teste: the flag is not tested.                                *)
TesteSansFlag(t) ==
    /\ Goto(t, "if", "unlock")
    /\ UNCHANGED <<mutex, dort, flag, crees, prets, affiches, intempestif, ecrase>>

(* if (!flag[id]) pthread_cond_wait: the flag is not read again after it,  *)
(* and the mutex does not keep the two together once main has initialised  *)
(* it in the hands of thread id - 1.                                       *)
Teste(t) ==
    /\ Goto(t, "if", IF flag[t] = 0 THEN "attend" ELSE "unlock")
    /\ UNCHANGED <<mutex, dort, flag, crees, prets, affiches, intempestif, ecrase>>

Attend(t) ==
    /\ Goto(t, "attend", "relock")
    /\ mutex' = [mutex EXCEPT ![t] = Libre]
    /\ dort' = dort \cup {t}
    /\ UNCHANGED <<flag, crees, prets, affiches, intempestif, ecrase>>

Reprend(t) ==
    /\ Goto(t, "relock", "unlock")
    /\ t \notin dort
    /\ mutex[t] = Libre
    /\ mutex' = [mutex EXCEPT ![t] = t]
    /\ UNCHANGED <<dort, flag, crees, prets, affiches, intempestif, ecrase>>

Unlock(t) ==
    /\ Goto(t, "unlock", "affiche")
    /\ mutex' = [mutex EXCEPT ![t] = Libre]
    /\ UNCHANGED <<dort, flag, crees, prets, affiches, intempestif, ecrase>>

Affiche(t) ==
    /\ Goto(t, "affiche", IF t = N - 1 THEN "fin" ELSE "suivant")
    /\ affiches' = Append(affiches, t)
    /\ UNCHANGED <<mutex, dort, flag, crees, prets, intempestif, ecrase>>

LockSuivant(t) ==
    /\ Goto(t, "suivant", "leve")
    /\ mutex[t + 1] = Libre
    /\ mutex' = [mutex EXCEPT ![t + 1] = t]
    /\ UNCHANGED <<dort, flag, crees, prets, affiches, intempestif, ecrase>>

Leve(t) ==
    /\ Goto(t, "leve", "signale")
    /\ flag' = [flag EXCEPT ![t + 1] = 1]
    /\ UNCHANGED <<mutex, dort, crees, prets, affiches, intempestif, ecrase>>

Signale(t) ==
    /\ Goto(t, "signale", "fin")
    /\ dort' = dort \ {t + 1}
    /\ mutex' = [mutex EXCEPT ![t + 1] = Libre]
    /\ UNCHANGED <<flag, crees, prets, affiches, intempestif, ecrase>>

ReveilIntempestif(t) ==
    /\ t \in dort
    /\ dort' = dort \ {t}
    /\ intempestif' = TRUE
    /\ UNCHANGED <<mutex, flag, crees, prets, pc, affiches, ecrase>>

thread_cond(t) ==
    \/ LockSien(t) \/ Teste(t) \/ Attend(t) \/ Reprend(t) \/ Unlock(t)
    \/ Affiche(t) \/ LockSuivant(t) \/ Leve(t) \/ Signale(t)

Main == MainInit \/ MainCree

Next == Main \/ \E t \in Rangs : thread_cond(t) \/ ReveilIntempestif(t)

Spec == Init /\ [][Next]_vars

(* Each mutex is asked for by two threads, once each: weak fairness of     *)
(* every thread and of main is enough.                                     *)
FairSpec == Spec /\ WF_vars(Main) /\ \A t \in Rangs : WF_vars(thread_cond(t))

-----------------------------------------------------------------------------
TypeOK ==
    /\ mutex \in [Rangs -> Rangs \cup {Libre}]
    /\ dort \subseteq Rangs
    /\ flag \in [Rangs -> {0, 1}]
    /\ crees \in 0 .. N /\ prets \in 0 .. N
    /\ pc \in [Rangs -> {"lock", "if", "attend", "relock", "unlock", "affiche",
                        "suivant", "leve", "signale", "fin"}]
    /\ affiches \in Seq(Rangs)
    /\ intempestif \in BOOLEAN /\ ecrase \in BOOLEAN

(* "L'ordre d'affichage soit toujours" 0, 1, 2, 3, whatever main has       *)
(* initialised or not, as long as no wait returns without a signal: the    *)
(* flag is not read again after it.                                        *)
EnOrdre == ~intempestif => \A k \in 1 .. Len(affiches) : affiches[k] = k - 1

(* A flag raised was raised by the thread before, after its display: it is *)
(* not left over from anything else, even when main initialises it late.   *)
FlagMerite ==
    \A t \in Rangs \ {0} :
        flag[t] = 1 => \E k \in 1 .. Len(affiches) : affiches[k] = t - 1

(* "Attendant leur terminaison": every thread ends, unless main has        *)
(* initialised a slot that the thread before had begun to use.             *)
TousFinissent == <>(ecrase \/ \A t \in Rangs : pc[t] = "fin")
=============================================================================

------------------------------- MODULE Arbre -------------------------------
(***************************************************************************)
(* A tree of threads (TME5, thread_n+1.c): a thread of level lvl, once it  *)
(* has found cond set, creates lvl + 1 threads of the next level, up to    *)
(* level max, wakes everybody and joins them.  A thread is the path of the *)
(* ranks that lead to it from the first one.                               *)
(***************************************************************************)
EXTENDS Moniteur, Integers, Sequences, FiniteSets

CONSTANTS Profondeur, Main

(* The paths of k ranks end at level k + 1: <<>> is the first thread.      *)
Niveau(k) == {p \in [1 .. k -> 1 .. k + 1] : \A r \in 1 .. k : p[r] <= r + 1}
Chemins == UNION {Niveau(k) : k \in 0 .. Profondeur - 1}

ArbreAssumption ==
    /\ Profondeur \in Nat \ {0}
    /\ Threads = {Main} \cup Chemins
    /\ Main \notin Chemins
    /\ Conds = {"condthread"}

VARIABLES
    max,        \* of the command line
    cond,
    crees, pc,
    poses       \* how many times cond was set

tvars == <<mvars, max, cond, crees, pc, poses>>

lvl(t)  == Len(t) + 1
Fils(t) == {Append(t, r) : r \in 1 .. lvl(t) + 1}

Init ==
    /\ MoniteurInit
    /\ max \in 1 .. Profondeur
    /\ cond = 0 /\ crees = {} /\ poses = 0
    /\ pc = [t \in Threads |-> IF t = Main THEN "cree" ELSE "lock"]

Va(t, from, to) == pc[t] = from /\ pc' = [pc EXCEPT ![t] = to]

(* main keeps the mutex from the creation to cond = 1.                     *)
MainCree ==
    /\ Va(Main, "cree", "join") /\ mutex = Personne
    /\ crees' = {<<>>} /\ cond' = 1 /\ poses' = poses + 1
    /\ attente' \in Broadcast("condthread")
    /\ UNCHANGED <<mutex, max>>

Entre(t) ==
    /\ t \in crees /\ Va(t, "lock", "test") /\ Lock(t)
    /\ UNCHANGED <<max, cond, crees, poses>>

Dort(t) ==
    /\ cond = 0
    /\ Va(t, "test", "lock") /\ CondWait(t, "condthread")
    /\ UNCHANGED <<max, cond, crees, poses>>

(* Mutant of Passe: cond is not looked at.                                 *)
PasseSansTest(t) ==
    /\ Va(t, "test", IF lvl(t) < max THEN "lockFils" ELSE "fin") /\ Unlock(t)
    /\ cond' = 0
    /\ UNCHANGED <<attente, max, crees, poses>>

Passe(t) ==
    /\ cond = 1
    /\ Va(t, "test", IF lvl(t) < max THEN "lockFils" ELSE "fin") /\ Unlock(t)
    /\ cond' = 0
    /\ UNCHANGED <<attente, max, crees, poses>>

(* The loop of creations is under the mutex, the sons wait for it.         *)
CreeFils(t) ==
    /\ Va(t, "lockFils", "unlock") /\ mutex = Personne
    /\ crees' = crees \cup Fils(t)
    /\ attente' \in Broadcast("condthread")
    /\ UNCHANGED <<mutex, max, cond, poses>>

(* cond = 1 comes after the broadcast and outside the mutex.               *)
Pose(t) ==
    /\ Va(t, "unlock", "join")
    /\ cond' = 1 /\ poses' = poses + 1
    /\ UNCHANGED <<mvars, max, crees>>

Join(t) ==
    /\ Va(t, "join", "fin")
    /\ \A s \in IF t = Main THEN {<<>>} ELSE Fils(t) : pc[s] = "fin"
    /\ UNCHANGED <<mvars, max, cond, crees, poses>>

Intempestif(t) ==
    /\ ReveilIntempestif(t)
    /\ UNCHANGED <<max, cond, crees, pc, poses>>

thread_func(t) == Entre(t) \/ Dort(t) \/ Passe(t) \/ CreeFils(t) \/ Pose(t) \/ Join(t)

Next ==
    \/ MainCree \/ Join(Main)
    \/ \E t \in Threads : (t # Main /\ thread_func(t)) \/ Intempestif(t)

Spec == Init /\ [][Next]_tvars

-----------------------------------------------------------------------------
Passes == {t \in crees : pc[t] \notin {"lock", "test"}}

TypeOK ==
    /\ MoniteurTypeOK
    /\ max \in 1 .. Profondeur /\ cond \in 0 .. 1 /\ crees \subseteq Threads
    /\ poses \in 0 .. Cardinality(crees) + 1

(* Each setting of cond lets one thread go on, though the mutex is left    *)
(* between the test and the creations, and cond is set without it: one     *)
(* thread at a time creates its sons, and cond is not set meanwhile.       *)
Createurs == {t \in crees : pc[t] \in {"lockFils", "unlock"}}

UnPassageParPose ==
    /\ Cardinality(Passes) + cond <= poses
    /\ Cardinality(Createurs) + cond <= 1

(* main comes to its end, where it is to display the number of threads     *)
(* created (15). With one level it does; with more, one son at most is let *)
(* through, none if all sleep after the broadcast that precedes cond = 1,  *)
(* and the others are joined for ever.                                     *)
Termine == <>(pc[Main] = "fin")
Finit   == max = 1 => Termine
=============================================================================

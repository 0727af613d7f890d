------------------------------- MODULE Chaine -------------------------------
(***************************************************************************)
(* A chain of threads, each of which creates the next one                  *)
(* (TME5, thread_chaine_reveil_user_.c).  main waits until the last one is *)
(* created, then for SIGINT, which it alone receives, wakes the threads    *)
(* and joins them.  The threads are numbered in the order of their         *)
(* creation: pthread_create writes the first one to tabThread[maxThread],  *)
(* past the array, and the k-th to tabThread[maxThread - k].               *)
(***************************************************************************)
EXTENDS Moniteur, Integers

CONSTANTS maxThread, Main

ASSUME ChaineAssumption ==
    /\ maxThread \in Nat \ {0}
    /\ Main \notin 1 .. maxThread
    /\ Threads = 1 .. maxThread \cup {Main}
    /\ Conds = {"condCreation"}

VARIABLES
    threadCreation, signalPasRecu,
    crees,      \* how many threads exist
    pc,
    i,          \* loop of the joins
    perdu       \* signalPasRecu fell to 0 with a thread about to sleep or asleep

cvars == <<mvars, threadCreation, signalPasRecu, crees, pc, i, perdu>>

Init ==
    /\ MoniteurInit
    /\ threadCreation = 1 /\ signalPasRecu = 1
    /\ crees = 0 /\ i = 0 /\ perdu = FALSE
    /\ pc = [t \in Threads |-> IF t = Main THEN "cree" ELSE "lock"]

Va(t, from, to) == pc[t] = from /\ pc' = [pc EXCEPT ![t] = to]

(* The creation of the next thread, or the end of the chain, under the     *)
(* mutex.                                                                  *)
CreeSuivant(t) ==
    /\ Va(t, "lock", "creation")
    /\ t <= crees /\ Lock(t)
    /\ crees' = crees + 1
    /\ t < maxThread
    /\ UNCHANGED <<threadCreation, signalPasRecu, i, perdu>>

Dernier(t) ==
    /\ Va(t, "lock", "creation")
    /\ t <= crees /\ mutex = Personne /\ ~Endormi(t) /\ mutex' = t
    /\ t = maxThread
    /\ attente' \in Broadcast("condCreation")
    /\ threadCreation' = 0
    /\ UNCHANGED <<crees, signalPasRecu, i, perdu>>

(* while (threadCreation) pthread_cond_wait, in the threads and in main    *)
AttendCreation(t) ==
    /\ \/ Va(t, "creation", "relock") /\ threadCreation = 1 /\ CondWait(t, "condCreation")
       \/ Va(t, "relock", "creation") /\ Lock(t)
       \/ /\ t # Main /\ Va(t, "creation", "signal") /\ mutex = t
          /\ threadCreation = 0 /\ UNCHANGED mvars
    /\ UNCHANGED <<threadCreation, signalPasRecu, crees, i, perdu>>

(* while (signalPasRecu): the value read may be an old one when the thread *)
(* goes to sleep, since main does not take the mutex.  Mutant: "if".       *)
AttendSignalUneFois(t) ==
    /\ \/ Va(t, "signal", IF signalPasRecu = 1 THEN "dort" ELSE "unlock") /\ mutex = t /\ UNCHANGED mvars
       \/ Va(t, "dort", "reveil") /\ CondWait(t, "condCreation")
       \/ Va(t, "reveil", "unlock") /\ Lock(t)
    /\ UNCHANGED <<threadCreation, signalPasRecu, crees, i, perdu>>

AttendSignal(t) ==
    /\ \/ Va(t, "signal", IF signalPasRecu = 1 THEN "dort" ELSE "unlock") /\ mutex = t /\ UNCHANGED mvars
       \/ Va(t, "dort", "reveil") /\ CondWait(t, "condCreation")
       \/ Va(t, "reveil", "signal") /\ Lock(t)
    /\ UNCHANGED <<threadCreation, signalPasRecu, crees, i, perdu>>

Sort(t) ==
    /\ Va(t, "unlock", "fin") /\ Unlock(t)
    /\ UNCHANGED <<attente, threadCreation, signalPasRecu, crees, i, perdu>>

funcThread(t) == CreeSuivant(t) \/ Dernier(t) \/ AttendCreation(t) \/ AttendSignal(t) \/ Sort(t)

MainCree ==
    /\ \/ Va(Main, "cree", "lockMain") /\ crees' = 1 /\ UNCHANGED mvars
       \/ Va(Main, "lockMain", "creation") /\ Lock(Main) /\ UNCHANGED crees
    /\ UNCHANGED <<threadCreation, signalPasRecu, i, perdu>>

MainAffiche ==
    /\ Va(Main, "creation", "sigwait") /\ threadCreation = 0 /\ Unlock(Main)
    /\ UNCHANGED <<attente, threadCreation, signalPasRecu, crees, i, perdu>>

(* SIGINT: the broadcast comes first, and neither is under the mutex.      *)
Sigwait ==
    /\ Va(Main, "sigwait", "pose")
    /\ attente' \in Broadcast("condCreation")
    /\ UNCHANGED <<mutex, threadCreation, signalPasRecu, crees, i, perdu>>

(* Mutant of PoseSignal: the flag is not lowered.                          *)
PoseSignalOublie ==
    /\ Va(Main, "pose", "join")
    /\ perdu' = \E t \in Threads : pc[t] = "dort" \/ Endormi(t)
    /\ UNCHANGED <<mvars, threadCreation, signalPasRecu, crees, i>>

PoseSignal ==
    /\ Va(Main, "pose", "join")
    /\ signalPasRecu' = 0
    /\ perdu' = \E t \in Threads : pc[t] = "dort" \/ Endormi(t)
    /\ UNCHANGED <<mvars, threadCreation, crees, i>>

(* tabThread[i] is thread maxThread - i, but for the last, which nobody    *)
(* has written: pthread_join returns an error or kills the process.        *)
Join ==
    /\ pc[Main] = "join" /\ i < maxThread
    /\ i < maxThread - 1 => pc[maxThread - i] = "fin"
    /\ i' = i + 1
    /\ \E fin \in IF i + 1 = maxThread THEN {"fin", "mort"} ELSE {"join"} :
          pc' = [pc EXCEPT ![Main] = fin]
    /\ UNCHANGED <<mvars, threadCreation, signalPasRecu, crees, perdu>>

Fonctionne == pc[Main] \notin {"fin", "mort"}

MainPas == Fonctionne /\ (MainCree \/ AttendCreation(Main) \/ MainAffiche \/ PoseSignal \/ Join)

Intempestif(t) ==
    /\ ReveilIntempestif(t)
    /\ UNCHANGED <<threadCreation, signalPasRecu, crees, pc, i, perdu>>

Next ==
    \/ MainPas \/ Sigwait
    \/ Fonctionne /\ \E t \in Threads : (t # Main /\ funcThread(t)) \/ Intempestif(t)

Spec == Init /\ [][Next]_cvars

-----------------------------------------------------------------------------
TypeOK ==
    /\ MoniteurTypeOK
    /\ threadCreation \in 0 .. 1 /\ signalPasRecu \in 0 .. 1
    /\ crees \in 0 .. maxThread /\ i \in 0 .. maxThread /\ perdu \in BOOLEAN
    /\ \A t \in Threads : (pc[t] \in {"creation", "signal", "dort", "unlock"}) <=> (mutex = t)

(* "Tous mes descendants sont crees" is displayed when they are, and no    *)
(* thread waits for the signal before that.                                *)
CreesAvant ==
    (pc[Main] \in {"sigwait", "pose", "join", "fin"} \/ \E t \in 1 .. maxThread : pc[t] = "signal") =>
        crees = maxThread

(* No thread ends before main has received SIGINT, whatever wakes it; and  *)
(* "Tous mes descendants sont finis" is displayed after the end of all of  *)
(* them but the first, which is never joined.                              *)
FinApresSignal ==
    /\ (\E t \in 1 .. maxThread : pc[t] = "fin") => signalPasRecu = 0
    /\ pc[Main] = "fin" => \A t \in 2 .. maxThread : pc[t] = "fin"

(* Types, who holds the mutex, and that what the program says is true.     *)
Annonces == TypeOK /\ CreesAvant /\ FinApresSignal

(* After SIGINT the program ends, unless a thread had tested signalPasRecu *)
(* before it fell and slept after the broadcast.                           *)
FinitOuPerdu == pc[Main] = "pose" ~> perdu \/ ~Fonctionne
=============================================================================

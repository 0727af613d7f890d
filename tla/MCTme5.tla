------------------------------- MODULE MCTme5 -------------------------------
(* Four programs of TME5, checked in turn: exo says which one runs.        *)
EXTENDS Chaine, Sequences

ConstThreads == 1 .. maxThread \cup {Main}
ConstConds   == {"condCreation"}

CONSTANTS nbThread, nbFichiers, Profondeur
VARIABLES exo,
    programme, illisibles, nbFichierRestant, pcf, index, echec, convertis, retour, j, nommes, valRetour,
    course,
    tmutex, tattente, max, cond, tcrees, tpc, poses

L == INSTANCE LectureFichiers
ArbreThreads == {Main} \cup {p \in UNION {[1 .. k -> 1 .. k + 1] : k \in 0 .. Profondeur - 1} :
                                  \A r \in DOMAIN p : p[r] <= r + 1}
A == INSTANCE Arbre WITH Threads <- ArbreThreads, Conds <- {"condthread"},
                         mutex <- tmutex, attente <- tattente, crees <- tcrees, pc <- tpc

ASSUME MCTme5Assumption ==
    L!LectureAssumption /\ A!ArbreAssumption /\ Personne \notin ArbreThreads

lvars == <<programme, illisibles, nbFichierRestant, pcf, index, echec, convertis, retour, j, nommes,
           valRetour, course>>
tvars == <<tmutex, tattente, max, cond, tcrees, tpc, poses>>

MCInit ==
    /\ exo \in {"chaine", "arbre", "lecture"}
    /\ Init /\ L!Init /\ A!Init
    /\ exo # "lecture" => programme = "suivant" /\ illisibles = {}
    /\ exo # "arbre" => max = 1

MCNext ==
    \/ exo = "lecture" /\ L!Next /\ UNCHANGED <<exo, cvars, tvars>>
    \/ exo = "chaine" /\ Next /\ UNCHANGED <<exo, lvars, tvars>>
    \/ exo = "arbre" /\ A!Next /\ UNCHANGED <<exo, lvars, cvars>>

(* Every thread goes on, and is not kept for ever from the mutex.          *)
MCSpec ==
    /\ MCInit /\ [][MCNext]_<<exo, lvars, cvars, tvars>>
    /\ WF_cvars(exo = "chaine" /\ MainPas)
    /\ \A t \in 1 .. maxThread : SF_cvars(exo = "chaine" /\ Fonctionne /\ funcThread(t))
    /\ WF_tvars(exo = "arbre" /\ (A!MainCree \/ A!Join(Main)))
    /\ \A t \in A!Chemins : SF_tvars(exo = "arbre" /\ A!thread_func(t))

-----------------------------------------------------------------------------
(* The files are converted, and the result of main names the right ones,   *)
(* as far as the race on the index allows.                                 *)
Conversions == L!TypeOK /\ L!TousConvertis /\ L!RetourJuste

(* In the tree each setting of cond lets one thread go on, and the         *)
(* threads create their sons one thread at a time.                         *)
UnPassageParPose == A!TypeOK /\ A!UnPassageParPose

(* The chain ends once SIGINT is received, unless a thread sleeps through  *)
(* it; and so does the tree of one level.                                  *)
Finissent == (exo = "chaine" => FinitOuPerdu) /\ (exo = "arbre" => A!Finit)

(* What the tree is asked for, of any number of levels: main ends.         *)
ArbreTermine == exo = "arbre" => A!Termine
=============================================================================

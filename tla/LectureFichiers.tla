-------------------------- MODULE LectureFichiers --------------------------
(***************************************************************************)
(* Files converted to upper case by threads (TME5): one thread for each    *)
(* file in thread_lect_fic.c, and in thread_lect_fic_suivant.c nbThread    *)
(* threads that take the next file from a shared counter until none is     *)
(* left or one cannot be opened.  The second program computes the index of *)
(* its file three times from the counter, once only under the mutex.       *)
(***************************************************************************)
EXTENDS Integers, FiniteSets

CONSTANTS nbThread, nbFichiers

LectureAssumption == nbThread \in Nat \ {0} /\ nbFichiers \in Nat \ {0} /\ nbThread <= nbFichiers

Fichiers == 1 .. nbFichiers
argc     == nbFichiers + 2
Ouvriers == 1 .. nbFichiers

VARIABLES
    programme,
    illisibles, \* the files that cannot be opened
    nbFichierRestant,
    pcf,
    index,      \* the file that the thread displays as its own
    echec,      \* what upper returned: 0, or errno
    convertis,  \* by file displayed, the one that upper was called on, or 0
    retour,     \* the file that the thread names, or 0
    j, nommes, valRetour,   \* main: loop of the joins, files displayed, result
    course      \* the counter has moved between two computations of an index

lvars == <<programme, illisibles, nbFichierRestant, pcf, index, echec, convertis, retour, j, nommes,
           valRetour, course>>

(* argv[2] is the first file.                                              *)
Fichier(decalage) == argc - nbFichierRestant + decalage - 1

Lances == IF programme = "suivant" THEN 1 .. nbThread ELSE Ouvriers

Init ==
    /\ programme \in {"lect_fic", "suivant"}
    /\ illisibles \in SUBSET Fichiers
    /\ nbFichierRestant = argc
    /\ pcf = [t \in Ouvriers |-> IF programme = "suivant" THEN "prend" ELSE "upper"]
    /\ index = [t \in Ouvriers |-> IF programme = "suivant" THEN 0 ELSE t]
    /\ echec = [t \in Ouvriers |-> FALSE] /\ retour = [t \in Ouvriers |-> 0]
    /\ convertis = [f \in Fichiers |-> 0]
    /\ j = 1 /\ nommes = {} /\ valRetour = 0 /\ course = FALSE

(* Under the mutex: the test of the counter, the index and the decrement.  *)
(* Mutant: the last file is left.                                          *)
PrendSaufDernier(t) ==
    /\ programme = "suivant" /\ pcf[t] = "prend"
    /\ IF nbFichierRestant > 3
       THEN /\ index' = [index EXCEPT ![t] = Fichier(2)]
            /\ nbFichierRestant' = nbFichierRestant - 1
            /\ pcf' = [pcf EXCEPT ![t] = "upper"]
       ELSE pcf' = [pcf EXCEPT ![t] = "fin"] /\ UNCHANGED <<index, nbFichierRestant>>
    /\ UNCHANGED <<programme, illisibles, echec, convertis, retour, j, nommes, valRetour, course>>

Prend(t) ==
    /\ programme = "suivant" /\ pcf[t] = "prend"
    /\ IF nbFichierRestant > 2
       THEN /\ index' = [index EXCEPT ![t] = Fichier(2)]
            /\ nbFichierRestant' = nbFichierRestant - 1
            /\ pcf' = [pcf EXCEPT ![t] = "upper"]
       ELSE pcf' = [pcf EXCEPT ![t] = "fin"] /\ UNCHANGED <<index, nbFichierRestant>>
    /\ UNCHANGED <<programme, illisibles, echec, convertis, retour, j, nommes, valRetour, course>>

(* upper leaves the file in upper case, also when two threads convert it.  *)
(* Each index is displayed once.                                           *)
Upper(t) ==
    /\ pcf[t] = "upper"
    /\ LET f == IF programme = "suivant" THEN Fichier(1) ELSE index[t]
       IN  /\ convertis' = [convertis EXCEPT ![index[t]] = f]
           /\ echec' = [echec EXCEPT ![t] = f \in illisibles]
           /\ course' = (course \/ f # index[t])
    /\ pcf' = [pcf EXCEPT ![t] = IF programme = "suivant" THEN "teste" ELSE "exit"]
    /\ UNCHANGED <<programme, illisibles, nbFichierRestant, index, retour, j, nommes, valRetour>>

Teste(t) ==
    /\ pcf[t] = "teste"
    /\ pcf' = [pcf EXCEPT ![t] = IF echec[t] THEN "exit" ELSE "prend"]
    /\ UNCHANGED <<programme, illisibles, nbFichierRestant, index, echec, convertis, retour, j, nommes,
                   valRetour, course>>

(* pthread_exit, of the status or, after the unlock, of argv[...] again.   *)
ExitThread(t) ==
    /\ pcf[t] = "exit"
    /\ retour' = [retour EXCEPT ![t] = IF programme = "suivant" THEN Fichier(1)
                                       ELSE IF echec[t] THEN t ELSE 0]
    /\ course' = (course \/ (programme = "suivant" /\ Fichier(1) # index[t]))
    /\ pcf' = [pcf EXCEPT ![t] = "fin"]
    /\ UNCHANGED <<programme, illisibles, nbFichierRestant, index, echec, convertis, j, nommes, valRetour>>

funcThread(t) == t \in Lances /\ (Prend(t) \/ Upper(t) \/ Teste(t) \/ ExitThread(t))

(* The threads are joined in the order of their creation.                  *)
MainLecture ==
    /\ j \in Lances /\ pcf[j] = "fin"
    /\ nommes' = nommes \cup ({retour[j]} \ {0})
    /\ valRetour' = valRetour + (IF retour[j] # 0 THEN 1 ELSE 0)
    /\ j' = j + 1
    /\ UNCHANGED <<programme, illisibles, nbFichierRestant, pcf, index, echec, convertis, retour, course>>

Next == MainLecture \/ \E t \in Ouvriers : funcThread(t)

Spec == Init /\ [][Next]_lvars

FinMain == j \notin Lances

-----------------------------------------------------------------------------
(* The index never leaves the array of arguments.                          *)
TypeOK ==
    /\ convertis \in [Fichiers -> 0 .. nbFichiers]
    /\ \A t \in Ouvriers : index[t] \in 0 .. nbFichiers /\ retour[t] \in 0 .. nbFichiers
    /\ nbFichierRestant \in 2 .. argc /\ j \in 1 .. nbFichiers + 1

(* "S'il en reste": when main ends and some thread has met no error, there *)
(* have been as many conversions as files, the last one is converted, and  *)
(* each one in its turn if the counter did not move at the wrong time.     *)
TousConvertis ==
    FinMain /\ (\E t \in Lances : ~echec[t]) =>
        /\ \A n \in Fichiers : convertis[n] # 0
        /\ programme = "suivant" => \E n \in Fichiers : convertis[n] = nbFichiers
        /\ ~course => \A n \in Fichiers : convertis[n] = n

(* The result of main is the number of threads that have met an error; and *)
(* the files it names, if the counter did not move, are the ones that      *)
(* could not be opened.                                                    *)
RetourJuste ==
    FinMain => /\ valRetour = Cardinality({t \in Lances : echec[t]})
               /\ ~course => nommes = {f \in illisibles : \E n \in Fichiers : convertis[n] = f}
=============================================================================

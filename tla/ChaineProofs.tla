---------------------------- MODULE ChaineProofs ----------------------------
(***************************************************************************)
(* Proofs about three of the programs of TME5: the chain of threads, for   *)
(* any number of them; the tree, for any depth; the conversion of files,   *)
(* for any numbers of threads and files.  Each has its own inductive       *)
(* invariant, IInv, AIInv and LIInv.                                       *)
(***************************************************************************)
EXTENDS MCTme5, FiniteSetTheorems, SequenceTheorems, TLAPS

-----------------------------------------------------------------------------
(* The threads that convert files.                                         *)

(* The threads and what they hold.                                         *)
LTypes ==
    /\ programme \in {"lect_fic", "suivant"} /\ illisibles \subseteq L!Fichiers
    /\ nbFichierRestant \in 2 .. L!argc
    /\ pcf \in [L!Ouvriers -> {"prend", "upper", "teste", "exit", "fin"}]
    /\ index \in [L!Ouvriers -> 0 .. nbFichiers] /\ retour \in [L!Ouvriers -> 0 .. nbFichiers]
    /\ convertis \in [L!Fichiers -> 0 .. nbFichiers]
    /\ echec \in [L!Ouvriers -> BOOLEAN]
    /\ course \in BOOLEAN

(* An index is held by one thread, and one that was held is converted, or  *)
(* its thread is about to.                                                 *)
LIndices ==
    /\ \A t, u \in L!Ouvriers : index[t] = index[u] /\ index[t] # 0 => t = u
    /\ \A t \in L!Ouvriers : pcf[t] # "prend" /\ (pcf[t] = "fin" => echec[t]) => index[t] # 0
    /\ programme = "lect_fic" => /\ nbFichierRestant = L!argc
                                 /\ \A t \in L!Ouvriers : /\ index[t] = t /\ pcf[t] \in {"upper", "exit", "fin"}
                                                          /\ pcf[t] # "upper" => convertis[t] = t
    /\ programme = "suivant" =>
        /\ \A t \in L!Ouvriers : index[t] <= L!Fichier(1)
        /\ \A t \in L!Ouvriers \ L!Lances : pcf[t] = "prend"
        /\ \A n \in L!Fichiers : /\ convertis[n] # 0 => n <= convertis[n] /\ convertis[n] <= L!Fichier(1)
                                 /\ n <= L!Fichier(1) => \/ convertis[n] # 0
                                                         \/ \E t \in L!Ouvriers : index[t] = n /\ pcf[t] = "upper"

(* What a thread found stays: it ends with an error, or at the last file.  *)
LEchecs ==
    /\ \A t \in L!Ouvriers : /\ echec[t] => pcf[t] \notin {"prend", "upper"}
                             /\ pcf[t] = "fin" => (retour[t] # 0 <=> echec[t])
                             /\ programme = "suivant" /\ pcf[t] = "fin" =>
                                    echec[t] \/ nbFichierRestant = 2
                             /\ programme = "suivant" /\ pcf[t] = "exit" => echec[t]
                             /\ pcf[t] # "fin" => retour[t] = 0

(* Without a race, a thread converts and names the file it displays.       *)
LSansCourse ==
    ~course =>
        /\ \A n \in L!Fichiers : convertis[n] \in {0, n}
        /\ \A t \in L!Ouvriers : echec[t] => /\ index[t] \in illisibles /\ convertis[index[t]] = index[t]
                                             /\ pcf[t] = "fin" => retour[t] = index[t]
        /\ \A n \in illisibles : convertis[n] # 0 => \E t \in L!Ouvriers : index[t] = n /\ echec[t]

(* The joins made so far.                                                  *)
LJoints ==
    /\ j \in Nat \ {0} /\ \A t \in 1 .. j - 1 : t \in L!Lances /\ pcf[t] = "fin"
    /\ valRetour = Cardinality({t \in 1 .. j - 1 : echec[t]})
    /\ nommes = {retour[t] : t \in {u \in 1 .. j - 1 : echec[u]}}

LIInv == LTypes /\ LIndices /\ LEchecs /\ LSansCourse /\ LJoints

(* The module instantiated counts as this one does.                        *)
LEMMA LCardinalite == \A S : L!Cardinality(S) = Cardinality(S)
  BY DEF L!Cardinality, Cardinality

(* The parameters, in numbers.                                             *)
LEMMA LectureOK ==
  /\ nbThread \in Nat \ {0} /\ nbFichiers \in Nat \ {0} /\ nbThread <= nbFichiers
  /\ L!Ouvriers = 1 .. nbFichiers /\ L!Fichiers = 1 .. nbFichiers /\ L!argc = nbFichiers + 2
  /\ \A d : L!Fichier(d) = L!argc - nbFichierRestant + d - 1
  /\ L!Lances = IF programme = "suivant" THEN 1 .. nbThread ELSE 1 .. nbFichiers
<1>1. /\ nbThread \in Nat \ {0} /\ nbFichiers \in Nat \ {0} /\ nbThread <= nbFichiers
      /\ L!Ouvriers = 1 .. nbFichiers /\ L!Fichiers = 1 .. nbFichiers /\ L!argc = nbFichiers + 2
      /\ L!Lances = IF programme = "suivant" THEN 1 .. nbThread ELSE 1 .. nbFichiers
  BY MCTme5Assumption DEF L!LectureAssumption, L!Ouvriers, L!Fichiers, L!argc, L!Lances
<1>2. \A d : L!Fichier(d) = L!argc - nbFichierRestant + d - 1
  BY DEF L!Fichier
<1> QED BY <1>1, <1>2

(* Nothing is read yet, and main has joined nobody.                        *)
LEMMA LInitOK == L!Init => LIInv
<1> SUFFICES ASSUME L!Init PROVE LIInv
  OBVIOUS
<1> USE LectureOK DEF L!Init
<1>1. LTypes
  <2>1. course \in BOOLEAN /\ echec \in [L!Ouvriers -> BOOLEAN]
    OBVIOUS
  <2>2. /\ programme \in {"lect_fic", "suivant"} /\ illisibles \subseteq L!Fichiers
        /\ nbFichierRestant \in 2 .. L!argc
    OBVIOUS
  <2>3. /\ pcf \in [L!Ouvriers -> {"prend", "upper", "teste", "exit", "fin"}]
        /\ retour \in [L!Ouvriers -> 0 .. nbFichiers] /\ convertis \in [L!Fichiers -> 0 .. nbFichiers]
    OBVIOUS
  <2>4. index \in [L!Ouvriers -> 0 .. nbFichiers]
    OBVIOUS
  <2> QED BY <2>1, <2>2, <2>3, <2>4 DEF LTypes
<1>2. LIndices
  BY DEF LIndices
<1>3. LEchecs
  BY DEF LEchecs
<1>4. LSansCourse
  BY DEF LSansCourse
<1>5. LJoints
  <2>1. 1 .. j - 1 = {} /\ j = 1
    OBVIOUS
  <2>2. {t \in 1 .. j - 1 : echec[t]} = {} /\ {u \in 1 .. j - 1 : echec[u]} = {}
    BY <2>1
  <2>3. {retour[t] : t \in {u \in 1 .. j - 1 : echec[u]}} = {}
    BY <2>2
  <2>4. Cardinality({t \in 1 .. j - 1 : echec[t]}) = 0
    BY <2>2, FS_EmptySet
  <2>5. \A t \in 1 .. j - 1 : t \in L!Lances /\ pcf[t] = "fin"
    BY <2>1
  <2> QED BY <2>1, <2>3, <2>4, <2>5 DEF LJoints
<1> QED BY <1>1, <1>2, <1>3, <1>4, <1>5 DEF LIInv

(* What a step of a thread leaves to the joins already made.               *)
LEMMA LJointsGardes ==
  ASSUME LIInv, NEW t \in L!Ouvriers, pcf[t] # "fin", UNCHANGED <<programme, j, nommes, valRetour>>,
         \A u \in L!Ouvriers \ {t} : pcf'[u] = pcf[u] /\ echec'[u] = echec[u] /\ retour'[u] = retour[u]
  PROVE  LJoints'
<1> USE LectureOK
<1>1. j \in Nat \ {0} /\ \A u \in 1 .. j - 1 : u \in L!Lances /\ pcf[u] = "fin"
  BY DEF LIInv, LJoints
<1>2. \A u \in 1 .. j - 1 : u \in L!Ouvriers \ {t}
  BY <1>1
<1>3. L!Lances' = L!Lances /\ j' = j
  BY DEF L!Lances, L!Ouvriers
<1>4. \A u \in 1 .. j - 1 : pcf'[u] = pcf[u] /\ echec'[u] = echec[u] /\ retour'[u] = retour[u]
  BY <1>2
<1>5. {u \in 1 .. j' - 1 : echec'[u]} = {u \in 1 .. j - 1 : echec[u]}
  BY <1>3, <1>4
<1>6. {retour'[u] : u \in {v \in 1 .. j' - 1 : echec'[v]}} = {retour[u] : u \in {v \in 1 .. j - 1 : echec[v]}}
  BY <1>4, <1>5
<1>7. valRetour' = Cardinality({u \in 1 .. j' - 1 : echec'[u]})
  BY <1>5 DEF LIInv, LJoints
<1>8. nommes' = {retour'[u] : u \in {v \in 1 .. j' - 1 : echec'[v]}}
  BY <1>6 DEF LIInv, LJoints
<1>9. j' \in Nat \ {0} /\ \A u \in 1 .. j' - 1 : u \in L!Lances' /\ pcf'[u] = "fin"
  BY <1>1, <1>3, <1>4
<1> QED BY <1>7, <1>8, <1>9 DEF LJoints

(* The next index is above all those held, so that nobody displays it; a   *)
(* thread that finds none left ends without an error.                      *)
LEMMA LPrendOK == ASSUME LIInv, NEW t \in L!Ouvriers, t \in L!Lances, L!Prend(t) PROVE LIInv'
<1> USE LectureOK
<1>1. /\ programme = "suivant" /\ pcf[t] = "prend"
      /\ UNCHANGED <<programme, illisibles, echec, convertis, retour, j, nommes, valRetour, course>>
      /\ \A u \in L!Ouvriers \ {t} : pcf'[u] = pcf[u] /\ index'[u] = index[u]
  BY DEF L!Prend, LIInv, LTypes
<1>2. \/ /\ nbFichierRestant > 2 /\ nbFichierRestant' = nbFichierRestant - 1
         /\ pcf'[t] = "upper" /\ index'[t] = nbFichiers + 3 - nbFichierRestant
      \/ /\ ~(nbFichierRestant > 2) /\ nbFichierRestant' = nbFichierRestant /\ pcf'[t] = "fin" /\ index' = index
  <2>1. L!Fichier(2) = nbFichiers + 3 - nbFichierRestant
    BY DEF LIInv, LTypes
  <2> QED BY <2>1 DEF L!Prend, LIInv, LTypes
<1>3. LTypes'
  <2>1. nbFichierRestant \in 2 .. nbFichiers + 2
    BY DEF LIInv, LTypes
  <2>2. nbFichierRestant' \in 2 .. nbFichiers + 2 /\ index' \in [L!Ouvriers -> 0 .. nbFichiers]
    <3>1. index \in [L!Ouvriers -> 0 .. nbFichiers]
      BY DEF LIInv, LTypes
    <3>2. CASE nbFichierRestant > 2
      <4>1. nbFichiers + 3 - nbFichierRestant \in 0 .. nbFichiers
        BY <2>1, <3>2
      <4>2. index' = [index EXCEPT ![t] = L!Fichier(2)] /\ L!Fichier(2) = nbFichiers + 3 - nbFichierRestant
        BY <2>1, <3>2 DEF L!Prend
      <4> QED BY <1>2, <2>1, <3>1, <3>2, <4>1, <4>2
    <3>3. CASE ~(nbFichierRestant > 2)
      BY <1>2, <2>1, <3>1, <3>3
    <3> QED BY <3>2, <3>3
  <2>3. pcf' \in [L!Ouvriers -> {"prend", "upper", "teste", "exit", "fin"}]
    BY DEF L!Prend, LIInv, LTypes
  <2> QED BY <1>1, <2>2, <2>3 DEF LIInv, LTypes, L!Ouvriers, L!Fichiers, L!argc
<1>4. LJoints'
  BY <1>1, LJointsGardes
<1>5. ~echec[t] /\ retour[t] = 0
  BY <1>1 DEF LIInv, LEchecs
<1>6. LEchecs'
  <2>1. \A u \in L!Ouvriers \ {t} : nbFichierRestant = 2 => nbFichierRestant' = 2
    BY <1>2 DEF LIInv, LTypes
  <2>2. pcf'[t] = "fin" => nbFichierRestant' = 2
    BY <1>2 DEF LIInv, LTypes
  <2>3. pcf'[t] \in {"upper", "fin"}
    BY <1>2
  <2>4. \A u \in L!Ouvriers \ {t} :
           /\ echec[u] => pcf'[u] \notin {"prend", "upper"}
           /\ pcf'[u] = "fin" => (retour[u] # 0 <=> echec[u])
           /\ programme = "suivant" /\ pcf'[u] = "fin" => echec[u] \/ nbFichierRestant' = 2
           /\ programme = "suivant" /\ pcf'[u] = "exit" => echec[u]
           /\ pcf'[u] # "fin" => retour[u] = 0
    BY <1>1, <2>1 DEF LIInv, LEchecs
  <2> QED BY <1>1, <1>5, <2>2, <2>3, <2>4 DEF LEchecs, L!Ouvriers
<1>7. LSansCourse'
  <2>1. \A u \in L!Ouvriers : echec[u] => u # t
    BY <1>5
  <2> QED BY <1>1, <2>1 DEF LIInv, LSansCourse
<1>8. LIndices'
  <2>1. nbFichierRestant \in 2 .. nbFichiers + 2 /\ \A u \in L!Ouvriers : index[u] \in 0 .. nbFichiers
    BY DEF LIInv, LTypes
  <2>2. CASE nbFichierRestant > 2
    <3>1. \A u \in L!Ouvriers : index[u] <= nbFichiers + 2 - nbFichierRestant
      <4>1. L!Fichier(1) = nbFichiers + 2 - nbFichierRestant
        BY <2>1
      <4> QED BY <1>1, <4>1 DEF LIInv, LIndices
    <3>2. \A u \in L!Ouvriers \ {t} : index[u] # index'[t]
      BY <1>2, <2>1, <2>2, <3>1
    <3>3. \A u, v \in L!Ouvriers : index'[u] = index'[v] /\ index'[u] # 0 => u = v
      BY <1>1, <3>2 DEF LIInv, LIndices
    <3>4. \A u \in L!Ouvriers : pcf'[u] # "prend" /\ (pcf'[u] = "fin" => echec'[u]) => index'[u] # 0
      <4>1. index'[t] # 0
        BY <1>2, <2>1, <2>2
      <4> QED BY <1>1, <4>1 DEF LIInv, LIndices
    <3>5. \A u \in L!Ouvriers : index'[u] <= L!Fichier(1)'
      <4>1. L!Fichier(1)' = nbFichiers + 3 - nbFichierRestant
        BY <1>2, <2>1, <2>2 DEF L!Fichier, L!argc
      <4> QED BY <1>1, <1>2, <2>1, <2>2, <3>1, <4>1
    <3>6. \A u \in L!Ouvriers \ L!Lances' : pcf'[u] = "prend"
      BY <1>1 DEF LIInv, LIndices, L!Lances, L!Ouvriers
    <3>7. ASSUME NEW n \in L!Fichiers
          PROVE  /\ convertis'[n] # 0 => n <= convertis'[n] /\ convertis'[n] <= L!Fichier(1)'
                 /\ n <= L!Fichier(1)' => \/ convertis'[n] # 0
                                          \/ \E u \in L!Ouvriers : index'[u] = n /\ pcf'[u] = "upper"
      <4>1. L!Fichier(1)' = L!Fichier(1) + 1 /\ L!Fichier(1) = nbFichiers + 2 - nbFichierRestant
        BY <1>2, <2>1, <2>2 DEF L!Fichier, L!argc
      <4>2. /\ convertis[n] # 0 => n <= convertis[n] /\ convertis[n] <= L!Fichier(1)
            /\ n <= L!Fichier(1) => \/ convertis[n] # 0
                                    \/ \E u \in L!Ouvriers : index[u] = n /\ pcf[u] = "upper"
        BY <1>1 DEF LIInv, LIndices
      <4>3. convertis[n] \in 0 .. nbFichiers
        BY DEF LIInv, LTypes
      <4>4. convertis'[n] # 0 => n <= convertis'[n] /\ convertis'[n] <= L!Fichier(1)'
        BY <1>1, <2>1, <4>1, <4>2, <4>3
      <4>5. CASE n <= L!Fichier(1)
        BY <1>1, <4>2, <4>4, <4>5
      <4>6. CASE ~(n <= L!Fichier(1)) /\ n <= L!Fichier(1)'
        <5>1. n = index'[t] /\ pcf'[t] = "upper"
          BY <1>2, <2>1, <2>2, <4>1, <4>6
        <5> QED BY <4>4, <5>1
      <4> QED BY <4>4, <4>5, <4>6
    <3> QED BY <1>1, <3>3, <3>4, <3>5, <3>6, <3>7 DEF LIndices, L!Ouvriers, L!Fichiers
  <2>3. CASE ~(nbFichierRestant > 2)
    <3>1. UNCHANGED <<nbFichierRestant, index, convertis, programme, echec>> /\ pcf'[t] = "fin"
      BY <1>1, <1>2, <2>3
    <3>2. L!Fichier(1)' = L!Fichier(1) /\ L!Lances' = L!Lances
      BY <3>1 DEF L!Fichier, L!argc, L!Lances, L!Ouvriers
    <3>3. \A u \in L!Ouvriers : pcf'[u] # "prend" /\ (pcf'[u] = "fin" => echec'[u]) => index'[u] # 0
      BY <1>1, <1>5, <3>1 DEF LIInv, LIndices
    <3>4. \A n \in L!Fichiers : (\E u \in L!Ouvriers : index[u] = n /\ pcf[u] = "upper") =>
                                 \E u \in L!Ouvriers : index'[u] = n /\ pcf'[u] = "upper"
      BY <1>1, <3>1
    <3>5. \A u \in L!Ouvriers \ L!Lances : pcf'[u] = "prend"
      BY <1>1 DEF LIInv, LIndices
    <3>6. \A u, v \in L!Ouvriers : index'[u] = index'[v] /\ index'[u] # 0 => u = v
      BY <3>1 DEF LIInv, LIndices
    <3>7. \A u \in L!Ouvriers : index'[u] <= L!Fichier(1)'
      BY <1>1, <3>1, <3>2 DEF LIInv, LIndices
    <3>8. ASSUME NEW n \in L!Fichiers
          PROVE  /\ convertis'[n] # 0 => n <= convertis'[n] /\ convertis'[n] <= L!Fichier(1)'
                 /\ n <= L!Fichier(1)' => \/ convertis'[n] # 0
                                          \/ \E u \in L!Ouvriers : index'[u] = n /\ pcf'[u] = "upper"
      BY <1>1, <3>1, <3>2, <3>4 DEF LIInv, LIndices
    <3> QED BY <1>1, <3>2, <3>3, <3>5, <3>6, <3>7, <3>8 DEF LIndices, L!Ouvriers, L!Fichiers
  <2> QED BY <2>2, <2>3
<1> QED BY <1>3, <1>4, <1>6, <1>7, <1>8 DEF LIInv

(* The file converted is the one displayed or, after a race, a later one that *)
(* is not beyond the counter; no other thread displays the same index.     *)
LEMMA LUpperOK == ASSUME LIInv, NEW t \in L!Ouvriers, t \in L!Lances, L!Upper(t) PROVE LIInv'
<1> USE LectureOK
<1> DEFINE f == IF programme = "suivant" THEN L!Fichier(1) ELSE index[t]
<1>1. /\ pcf[t] = "upper"
      /\ UNCHANGED <<programme, illisibles, nbFichierRestant, index, retour, j, nommes, valRetour>>
      /\ \A u \in L!Ouvriers \ {t} : pcf'[u] = pcf[u] /\ echec'[u] = echec[u]
  BY DEF L!Upper, LIInv, LTypes
<1>2. index[t] \in L!Fichiers /\ f \in L!Fichiers /\ index[t] <= f
  <2>1. index[t] # 0 /\ index[t] \in 0 .. nbFichiers /\ nbFichierRestant \in 2 .. nbFichiers + 2
    BY <1>1 DEF LIInv, LIndices, LTypes
  <2>2. programme = "suivant" => index[t] <= L!Fichier(1) /\ L!Fichier(1) \in 0 .. nbFichiers
    BY <2>1 DEF LIInv, LIndices
  <2> QED BY <2>1, <2>2
<1>3. /\ convertis'[index[t]] = f /\ \A n \in L!Fichiers : n # index[t] => convertis'[n] = convertis[n]
      /\ convertis' \in [L!Fichiers -> 0 .. nbFichiers]
  <2>1. convertis' = [convertis EXCEPT ![index[t]] = f]
    BY DEF L!Upper
  <2>2. f \in 0 .. nbFichiers
    BY <1>2
  <2> HIDE DEF f
  <2> QED BY <1>2, <2>1, <2>2 DEF LIInv, LTypes
<1>4. echec' \in [L!Ouvriers -> BOOLEAN] /\ (echec'[t] <=> f \in illisibles)
  <2>1. echec' = [echec EXCEPT ![t] = f \in illisibles]
    BY DEF L!Upper
  <2>2. echec \in [L!Ouvriers -> BOOLEAN]
    BY DEF LIInv, LTypes
  <2> DEFINE b == f \in illisibles
  <2>3. b \in BOOLEAN /\ echec' = [echec EXCEPT ![t] = b]
    BY <2>1
  <2> HIDE DEF b
  <2>4. echec' \in [L!Ouvriers -> BOOLEAN] /\ echec'[t] = b
    BY <2>2, <2>3
  <2> QED BY <2>4 DEF b
<1>5. course' \in BOOLEAN /\ (course' <=> course \/ f # index[t])
  BY DEF L!Upper, LIInv, LTypes
<1>6. pcf'[t] = (IF programme = "suivant" THEN "teste" ELSE "exit")
  BY DEF L!Upper, LIInv, LTypes
<1>7. pcf' \in [L!Ouvriers -> {"prend", "upper", "teste", "exit", "fin"}]
  BY DEF L!Upper, LIInv, LTypes
<1>8. LTypes'
  BY <1>1, <1>3, <1>4, <1>5, <1>7 DEF LIInv, LTypes, L!Ouvriers, L!Fichiers, L!argc
<1>9. LJoints'
  BY <1>1, LJointsGardes
<1>10. L!Fichier(1)' = L!Fichier(1) /\ L!Lances' = L!Lances
  BY <1>1 DEF L!Fichier, L!argc, L!Lances, L!Ouvriers
<1>11. retour[t] = 0
  BY <1>1 DEF LIInv, LEchecs
<1>12. LEchecs'
  BY <1>1, <1>4, <1>6, <1>11 DEF LIInv, LEchecs, L!Ouvriers
<1>13. LSansCourse'
  <2> SUFFICES ASSUME ~course' PROVE LSansCourse'
    BY DEF LSansCourse
  <2>1. ~course /\ f = index[t]
    BY <1>5
  <2>2. /\ \A n \in L!Fichiers : convertis[n] \in {0, n}
        /\ \A u \in L!Ouvriers : echec[u] => /\ index[u] \in illisibles /\ convertis[index[u]] = index[u]
                                             /\ pcf[u] = "fin" => retour[u] = index[u]
        /\ \A n \in illisibles : convertis[n] # 0 => \E u \in L!Ouvriers : index[u] = n /\ echec[u]
    BY <2>1 DEF LIInv, LSansCourse
  <2>3. illisibles \subseteq L!Fichiers /\ \A u \in L!Ouvriers \ {t} : index[u] # index[t]
    <3>1. \A u \in L!Ouvriers : index[u] = index[t] => u = t
      BY <1>2 DEF LIInv, LIndices
    <3> QED BY <3>1 DEF LIInv, LTypes
  <2>4. \A n \in L!Fichiers : convertis'[n] \in {0, n}
    BY <1>3, <2>1, <2>2
  <2>5. ASSUME NEW u \in L!Ouvriers, echec'[u]
        PROVE  /\ index[u] \in illisibles /\ convertis'[index[u]] = index[u]
               /\ pcf'[u] = "fin" => retour[u] = index[u]
    <3>1. CASE u = t
      BY <1>3, <1>4, <1>6, <2>1, <2>5, <3>1
    <3>2. CASE u # t
      <4>1. echec[u] /\ pcf'[u] = pcf[u] /\ index[u] # index[t]
        BY <1>1, <2>3, <2>5, <3>2
      <4> QED BY <1>3, <2>2, <2>3, <4>1
    <3> QED BY <3>1, <3>2
  <2>6. ASSUME NEW n \in illisibles, convertis'[n] # 0
        PROVE  \E u \in L!Ouvriers : index[u] = n /\ echec'[u]
    <3>1. CASE n = index[t]
      BY <1>4, <2>1, <3>1
    <3>2. CASE n # index[t]
      <4>1. convertis[n] # 0
        BY <1>3, <2>3, <2>6, <3>2
      <4>2. PICK u \in L!Ouvriers : index[u] = n /\ echec[u]
        BY <2>2, <4>1
      <4>3. u # t
        BY <3>2, <4>2
      <4> QED BY <1>1, <4>2, <4>3
    <3> QED BY <3>1, <3>2
  <2> QED BY <1>1, <2>4, <2>5, <2>6 DEF LSansCourse, L!Ouvriers, L!Fichiers
<1>14. LIndices'
  <2>1. \A u, v \in L!Ouvriers : index'[u] = index'[v] /\ index'[u] # 0 => u = v
    BY <1>1 DEF LIInv, LIndices
  <2>2. \A u \in L!Ouvriers : pcf'[u] # "prend" /\ (pcf'[u] = "fin" => echec'[u]) => index'[u] # 0
    BY <1>1, <1>2 DEF LIInv, LIndices
  <2>3. ASSUME programme = "lect_fic"
        PROVE  /\ nbFichierRestant = L!argc
               /\ \A u \in L!Ouvriers : /\ index[u] = u /\ pcf'[u] \in {"upper", "exit", "fin"}
                                        /\ pcf'[u] # "upper" => convertis'[u] = u
    <3>1. f = index[t] /\ index[t] = t
      BY <2>3 DEF LIInv, LIndices
    <3> QED BY <1>1, <1>3, <1>6, <2>3, <3>1 DEF LIInv, LIndices
  <2>4. ASSUME programme = "suivant"
        PROVE  /\ \A u \in L!Ouvriers : index[u] <= L!Fichier(1)
               /\ \A u \in L!Ouvriers \ L!Lances : pcf'[u] = "prend"
    BY <1>1, <2>4 DEF LIInv, LIndices
  <2>5. ASSUME programme = "suivant", NEW n \in L!Fichiers
        PROVE  /\ convertis'[n] # 0 => n <= convertis'[n] /\ convertis'[n] <= L!Fichier(1)
               /\ n <= L!Fichier(1) => \/ convertis'[n] # 0
                                       \/ \E u \in L!Ouvriers : index[u] = n /\ pcf'[u] = "upper"
    <3>1. CASE n = index[t]
      <4>1. convertis'[n] = L!Fichier(1) /\ L!Fichier(1) \in L!Fichiers /\ n <= L!Fichier(1)
        BY <1>2, <1>3, <2>5, <3>1
      <4> QED BY <4>1
    <3>2. CASE n # index[t]
      <4>1. convertis'[n] = convertis[n]
        BY <1>3, <3>2
      <4>2. \A u \in L!Ouvriers : index[u] = n => u # t
        BY <3>2
      <4>3. /\ convertis[n] # 0 => n <= convertis[n] /\ convertis[n] <= L!Fichier(1)
            /\ n <= L!Fichier(1) => \/ convertis[n] # 0
                                    \/ \E u \in L!Ouvriers : index[u] = n /\ pcf[u] = "upper"
        BY <2>5 DEF LIInv, LIndices
      <4> QED BY <1>1, <4>1, <4>2, <4>3
    <3> QED BY <3>1, <3>2
  <2> HIDE DEF f
  <2>6. programme' = programme /\ index' = index /\ nbFichierRestant' = nbFichierRestant
    BY <1>1
  <2> QED BY <1>10, <2>1, <2>2, <2>3, <2>4, <2>5, <2>6 DEF LIndices, L!Ouvriers, L!Fichiers, L!argc
<1> QED BY <1>8, <1>9, <1>12, <1>13, <1>14 DEF LIInv

(* A thread goes back to the counter unless its file could not be opened.  *)
LEMMA LTesteOK == ASSUME LIInv, NEW t \in L!Ouvriers, t \in L!Lances, L!Teste(t) PROVE LIInv'
<1> USE LectureOK
<1>1. /\ pcf[t] = "teste" /\ programme = "suivant"
      /\ UNCHANGED <<programme, illisibles, nbFichierRestant, index, echec, convertis, retour, j, nommes,
                     valRetour, course>>
      /\ \A u \in L!Ouvriers \ {t} : pcf'[u] = pcf[u]
      /\ pcf'[t] = IF echec[t] THEN "exit" ELSE "prend"
      /\ pcf' \in [L!Ouvriers -> {"prend", "upper", "teste", "exit", "fin"}]
  BY DEF L!Teste, LIInv, LTypes, LIndices
<1>2. LTypes'
  BY <1>1 DEF LIInv, LTypes, L!Ouvriers, L!Fichiers, L!argc
<1>3. LJoints'
  BY <1>1, LJointsGardes
<1>4. LEchecs'
  BY <1>1 DEF LIInv, LEchecs, L!Ouvriers
<1>5. LSansCourse'
  BY <1>1 DEF LIInv, LSansCourse, L!Ouvriers, L!Fichiers
<1>6. LIndices'
  <2>1. L!Fichier(1)' = L!Fichier(1) /\ L!Lances' = L!Lances
    BY <1>1 DEF L!Fichier, L!argc, L!Lances, L!Ouvriers
  <2>2. \A u \in L!Ouvriers : pcf[u] = "upper" => u # t /\ pcf'[u] = "upper"
    BY <1>1
  <2>3. \A u \in L!Ouvriers : pcf'[u] # "prend" /\ (pcf'[u] = "fin" => echec[u]) => index[u] # 0
    BY <1>1 DEF LIInv, LIndices
  <2>4. \A u \in L!Ouvriers \ L!Lances : pcf'[u] = "prend"
    BY <1>1 DEF LIInv, LIndices
  <2> QED BY <1>1, <2>1, <2>2, <2>3, <2>4 DEF LIInv, LIndices, L!Ouvriers, L!Fichiers
<1> QED BY <1>2, <1>3, <1>4, <1>5, <1>6 DEF LIInv

(* The name that pthread_exit gives is the one displayed if the counter did *)
(* not move since.                                                         *)
LEMMA LExitOK == ASSUME LIInv, NEW t \in L!Ouvriers, t \in L!Lances, L!ExitThread(t) PROVE LIInv'
<1> USE LectureOK
<1>1. /\ pcf[t] = "exit" /\ pcf'[t] = "fin"
      /\ UNCHANGED <<programme, illisibles, nbFichierRestant, index, echec, convertis, j, nommes, valRetour>>
      /\ \A u \in L!Ouvriers \ {t} : pcf'[u] = pcf[u] /\ retour'[u] = retour[u]
      /\ pcf' \in [L!Ouvriers -> {"prend", "upper", "teste", "exit", "fin"}]
  BY DEF L!ExitThread, LIInv, LTypes
<1>2. course' \in BOOLEAN /\ (course' <=> course \/ (programme = "suivant" /\ L!Fichier(1) # index[t]))
  BY DEF L!ExitThread, LIInv, LTypes
<1>3. retour'[t] = IF programme = "suivant" THEN L!Fichier(1) ELSE IF echec[t] THEN t ELSE 0
  BY DEF L!ExitThread, LIInv, LTypes
<1>4. programme = "suivant" => echec[t] /\ index[t] # 0 /\ index[t] <= L!Fichier(1)
  BY <1>1 DEF LIInv, LEchecs, LIndices
<1>5. nbFichierRestant \in 2 .. nbFichiers + 2 /\ index[t] \in 0 .. nbFichiers
  BY DEF LIInv, LTypes
<1>6. retour'[t] \in 0 .. nbFichiers /\ (retour'[t] # 0 <=> echec[t])
  <2>1. CASE programme = "suivant"
    <3>1. L!Fichier(1) \in 1 .. nbFichiers
      BY <1>4, <1>5, <2>1
    <3> QED BY <1>3, <1>4, <2>1, <3>1
  <2>2. CASE programme # "suivant"
    BY <1>3, <2>2
  <2> QED BY <2>1, <2>2
<1>7. retour' \in [L!Ouvriers -> 0 .. nbFichiers]
  BY <1>1, <1>6 DEF L!ExitThread, LIInv, LTypes
<1>8. LTypes'
  BY <1>1, <1>2, <1>7 DEF LIInv, LTypes, L!Ouvriers, L!Fichiers, L!argc
<1>9. LJoints'
  BY <1>1, LJointsGardes
<1>10. LEchecs'
  BY <1>1, <1>4, <1>6 DEF LIInv, LEchecs, L!Ouvriers
<1>11. LSansCourse'
  <2> SUFFICES ASSUME ~course' PROVE LSansCourse'
    BY DEF LSansCourse
  <2>1. ~course
    BY <1>2
  <2>2. echec[t] => retour'[t] = index[t]
    <3>1. CASE programme = "suivant"
      BY <1>2, <1>3, <3>1
    <3>2. CASE programme # "suivant"
      BY <1>3, <3>2 DEF LIInv, LIndices, LTypes
    <3> QED BY <3>1, <3>2
  <2>3. \A n \in L!Fichiers : convertis[n] \in {0, n}
    BY <2>1 DEF LIInv, LSansCourse
  <2>4. ASSUME NEW u \in L!Ouvriers, echec[u]
        PROVE  /\ index[u] \in illisibles /\ convertis[index[u]] = index[u]
               /\ pcf'[u] = "fin" => retour'[u] = index[u]
    BY <1>1, <2>1, <2>2, <2>4 DEF LIInv, LSansCourse
  <2>5. \A n \in illisibles : convertis[n] # 0 => \E u \in L!Ouvriers : index[u] = n /\ echec[u]
    BY <2>1 DEF LIInv, LSansCourse
  <2> QED BY <1>1, <2>3, <2>4, <2>5 DEF LSansCourse, L!Ouvriers, L!Fichiers
<1>12. LIndices'
  <2>1. L!Fichier(1)' = L!Fichier(1) /\ L!Lances' = L!Lances
    BY <1>1 DEF L!Fichier, L!argc, L!Lances, L!Ouvriers
  <2>2. \A u \in L!Ouvriers : pcf[u] = "upper" => u # t /\ pcf'[u] = "upper"
    BY <1>1
  <2>3. \A u \in L!Ouvriers : pcf'[u] # "prend" /\ (pcf'[u] = "fin" => echec[u]) => index[u] # 0
    BY <1>1 DEF LIInv, LIndices
  <2>4. programme = "suivant" => \A u \in L!Ouvriers \ L!Lances : pcf'[u] = "prend"
    BY <1>1 DEF LIInv, LIndices
  <2>5. programme = "lect_fic" =>
          \A u \in L!Ouvriers : /\ index[u] = u /\ pcf'[u] \in {"upper", "exit", "fin"}
                                /\ pcf'[u] # "upper" => convertis[u] = u
    BY <1>1 DEF LIInv, LIndices
  <2> QED BY <1>1, <2>1, <2>2, <2>3, <2>4, <2>5 DEF LIInv, LIndices, L!Ouvriers, L!Fichiers, L!argc
<1> QED BY <1>8, <1>9, <1>10, <1>11, <1>12 DEF LIInv

(* A join adds one to the result if the thread joined names a file.        *)
LEMMA LMainOK == ASSUME LIInv, L!MainLecture PROVE LIInv'
<1> USE LectureOK
<1>1. /\ j \in L!Lances /\ pcf[j] = "fin" /\ j' = j + 1
      /\ UNCHANGED <<programme, illisibles, nbFichierRestant, pcf, index, echec, convertis, retour, course>>
      /\ nommes' = nommes \cup ({retour[j]} \ {0})
      /\ valRetour' = valRetour + (IF retour[j] # 0 THEN 1 ELSE 0)
  BY DEF L!MainLecture
<1>2. LTypes' /\ LEchecs'
  BY <1>1 DEF LIInv, LTypes, LEchecs, L!Ouvriers, L!Fichiers, L!argc
<1>3. L!Fichier(1)' = L!Fichier(1) /\ L!Lances' = L!Lances
  BY <1>1 DEF L!Fichier, L!argc, L!Lances, L!Ouvriers
<1>4. LIndices'
  BY <1>1, <1>3 DEF LIInv, LIndices, L!Ouvriers, L!Fichiers, L!argc
<1>5. LSansCourse'
  BY <1>1 DEF LIInv, LSansCourse, L!Ouvriers, L!Fichiers
<1>6. j \in L!Ouvriers /\ j \in Nat \ {0} /\ (retour[j] # 0 <=> echec[j])
  <2>1. j \in L!Ouvriers
    BY <1>1
  <2> QED BY <1>1, <2>1 DEF LIInv, LEchecs, LJoints
<1>7. LJoints'
  <2> DEFINE E == {u \in 1 .. j - 1 : echec[u]}
             F == {u \in 1 .. j : echec[u]}
  <2>1. 1 .. j = (1 .. j - 1) \cup {j} /\ j \notin 1 .. j - 1
    BY <1>6
  <2>2. F = IF echec[j] THEN E \cup {j} ELSE E
    BY <2>1
  <2>3. j \notin E
    BY <2>1
  <2>4. IsFiniteSet(E) /\ Cardinality(E) \in Nat
    <3>1. IsFiniteSet(1 .. j - 1)
      BY <1>6, FS_Interval
    <3> QED BY <3>1, FS_Subset, FS_CardinalityType
  <2>5. valRetour = Cardinality(E) /\ nommes = {retour[u] : u \in E}
    BY DEF LIInv, LJoints
  <2>6. valRetour' = Cardinality(F)
    <3>1. CASE echec[j]
      <4>1. Cardinality(E \cup {j}) = Cardinality(E) + 1
        BY <2>3, <2>4, FS_AddElement
      <4>2. F = E \cup {j} /\ retour[j] # 0
        BY <1>6, <2>2, <3>1
      <4> HIDE DEF E, F
      <4> QED BY <1>1, <2>5, <4>1, <4>2
    <3>2. CASE ~echec[j]
      <4>1. F = E /\ retour[j] = 0
        BY <1>6, <2>2, <3>2
      <4> HIDE DEF E, F
      <4> QED BY <1>1, <2>4, <2>5, <4>1
    <3> QED BY <3>1, <3>2
  <2>7. nommes' = {retour[u] : u \in F}
    <3>1. CASE echec[j]
      <4>1. F = E \cup {j} /\ retour[j] # 0
        BY <1>6, <2>2, <3>1
      <4> HIDE DEF E, F
      <4> QED BY <1>1, <2>5, <4>1
    <3>2. CASE ~echec[j]
      <4>1. F = E /\ retour[j] = 0
        BY <1>6, <2>2, <3>2
      <4> HIDE DEF E, F
      <4> QED BY <1>1, <2>5, <4>1
    <3> QED BY <3>1, <3>2
  <2>8. j' - 1 = j /\ j' \in Nat \ {0}
    BY <1>1, <1>6
  <2>9. \A u \in 1 .. j : u \in L!Lances /\ pcf[u] = "fin"
    BY <1>1, <2>1 DEF LIInv, LJoints
  <2> QED BY <1>1, <1>3, <2>6, <2>7, <2>8, <2>9 DEF LJoints
<1> QED BY <1>2, <1>4, <1>5, <1>7 DEF LIInv

(* No step of the threads nor of main breaks the invariant.                *)
LEMMA LStepOK == LIInv /\ [L!Next]_lvars => LIInv'
<1> SUFFICES ASSUME LIInv, [L!Next]_lvars PROVE LIInv'
  OBVIOUS
<1>1. CASE UNCHANGED lvars
  BY <1>1 DEF lvars, LIInv, LTypes, LIndices, LEchecs, LSansCourse, LJoints, L!Lances, L!Ouvriers, L!Fichiers,
              L!Fichier, L!argc
<1> QED BY <1>1, LPrendOK, LUpperOK, LTesteOK, LExitOK, LMainOK DEF L!Next, L!funcThread

(* When main ends all the threads launched have, and the others never ran. *)
LEMMA LFinOK ==
  ASSUME LIInv, L!FinMain
  PROVE  /\ 1 .. j - 1 = L!Lances
         /\ \A t \in L!Ouvriers : pcf[t] # "upper"
         /\ \A t \in L!Ouvriers \ L!Lances : ~echec[t]
<1> USE LectureOK
<1>1. j \in Nat \ {0} /\ (\A t \in 1 .. j - 1 : t \in L!Lances /\ pcf[t] = "fin") /\ j \notin L!Lances
  BY DEF LIInv, LJoints, L!FinMain
<1>2. 1 .. j - 1 = L!Lances
  <2>1. PICK m \in Nat \ {0} : L!Lances = 1 .. m
    OBVIOUS
  <2>2. j > m
    BY <1>1, <2>1
  <2>3. j - 1 <= m
    BY <1>1, <2>1
  <2> QED BY <1>1, <2>1, <2>2, <2>3
<1>3. \A t \in L!Ouvriers \ L!Lances : pcf[t] = "prend"
  BY DEF LIInv, LIndices, LTypes
<1> QED BY <1>1, <1>2, <1>3 DEF LIInv, LEchecs

(* The invariant gives what main claims of the files converted.            *)
LEMMA LTousConvertis == LIInv => L!TousConvertis
<1> SUFFICES ASSUME LIInv, L!FinMain, NEW t \in L!Lances, ~echec[t]
             PROVE  /\ \A n \in L!Fichiers : convertis[n] # 0
                    /\ programme = "suivant" => \E n \in L!Fichiers : convertis[n] = nbFichiers
                    /\ ~course => \A n \in L!Fichiers : convertis[n] = n
  BY DEF L!TousConvertis
<1> USE LectureOK
<1>1. t \in L!Ouvriers /\ pcf[t] = "fin"
  BY LFinOK DEF LIInv, LJoints
<1>2. \A n \in L!Fichiers : convertis[n] # 0
  <2>1. CASE programme = "suivant"
    <3>1. nbFichierRestant = 2
      BY <1>1, <2>1 DEF LIInv, LEchecs
    <3>2. \A n \in L!Fichiers : n <= L!Fichier(1)
      BY <3>1
    <3> QED BY <2>1, <3>2, LFinOK DEF LIInv, LIndices
  <2>2. CASE programme = "lect_fic"
    BY <2>2, LFinOK DEF LIInv, LIndices
  <2> QED BY <2>1, <2>2 DEF LIInv, LTypes
<1>3. ASSUME programme = "suivant" PROVE convertis[nbFichiers] = nbFichiers
  <2>1. nbFichierRestant = 2
    BY <1>1, <1>3 DEF LIInv, LEchecs
  <2>2. nbFichiers \in L!Fichiers /\ L!Fichier(1) = nbFichiers
    BY <2>1
  <2>3. nbFichiers <= convertis[nbFichiers] /\ convertis[nbFichiers] <= nbFichiers
    BY <1>2, <1>3, <2>2 DEF LIInv, LIndices
  <2> QED BY <2>2, <2>3 DEF LIInv, LTypes
<1>4. ~course => \A n \in L!Fichiers : convertis[n] = n
  BY <1>2 DEF LIInv, LSansCourse
<1> QED BY <1>2, <1>3, <1>4

(* The invariant gives what main claims of the files it names.             *)
LEMMA LRetourJuste == LIInv => L!RetourJuste
<1> SUFFICES ASSUME LIInv, L!FinMain
             PROVE  /\ valRetour = Cardinality({t \in L!Lances : echec[t]})
                    /\ ~course => nommes = {f \in illisibles : \E n \in L!Fichiers : convertis[n] = f}
  BY LCardinalite DEF L!RetourJuste
<1> USE LectureOK
<1>1. valRetour = Cardinality({t \in L!Lances : echec[t]})
  BY LFinOK DEF LIInv, LJoints
<1>2. nommes = {retour[t] : t \in {u \in L!Lances : echec[u]}}
  BY LFinOK DEF LIInv, LJoints
<1>3. ASSUME ~course PROVE nommes = {f \in illisibles : \E n \in L!Fichiers : convertis[n] = f}
  <2>1. \A t \in L!Lances : t \in L!Ouvriers /\ pcf[t] = "fin"
    BY LFinOK DEF LIInv, LJoints
  <2>2. illisibles \subseteq L!Fichiers
    BY DEF LIInv, LTypes
  <2>3. /\ \A n \in L!Fichiers : convertis[n] \in {0, n}
        /\ \A u \in L!Ouvriers : echec[u] => /\ index[u] \in illisibles /\ convertis[index[u]] = index[u]
                                             /\ pcf[u] = "fin" => retour[u] = index[u]
        /\ \A n \in illisibles : convertis[n] # 0 => \E u \in L!Ouvriers : index[u] = n /\ echec[u]
    BY <1>3 DEF LIInv, LSansCourse
  <2>4. ASSUME NEW t \in L!Lances, echec[t]
        PROVE  retour[t] \in illisibles /\ convertis[retour[t]] = retour[t]
    BY <2>1, <2>3, <2>4
  <2>5. ASSUME NEW f \in illisibles, NEW n \in L!Fichiers, convertis[n] = f
        PROVE  \E t \in L!Lances : echec[t] /\ retour[t] = f
    <3>1. convertis[f] # 0
      BY <2>2, <2>3, <2>5
    <3>2. PICK u \in L!Ouvriers : index[u] = f /\ echec[u]
      BY <2>3, <3>1
    <3>3. u \in L!Lances
      BY <3>2, LFinOK
    <3> QED BY <2>1, <2>3, <3>2, <3>3
  <2>6. ASSUME NEW f \in nommes
        PROVE  f \in illisibles /\ \E n \in L!Fichiers : convertis[n] = f
    <3>1. PICK t \in L!Lances : echec[t] /\ f = retour[t]
      BY <1>2
    <3> QED BY <2>2, <2>4, <3>1
  <2>7. ASSUME NEW f \in illisibles, \E n \in L!Fichiers : convertis[n] = f
        PROVE  f \in nommes
    BY <1>2, <2>5, <2>7
  <2> QED BY <2>6, <2>7
<1> QED BY <1>1, <1>3

(* For any number of threads and files: the files are converted, and the   *)
(* result of main names the right ones, as far as the race allows.         *)
THEOREM LectureConversions == MCSpec => []Conversions
<1>1. MCInit => LIInv
  BY LInitOK DEF MCInit
<1>2. LIInv /\ [MCNext]_<<exo, lvars, cvars, tvars>> => LIInv'
  BY LStepOK DEF MCNext
<1>3. LIInv => Conversions
  <2> SUFFICES ASSUME LIInv PROVE Conversions
    OBVIOUS
  <2>1. j \in 1 .. nbFichiers + 1
    <3>1. j \in Nat \ {0} /\ \A t \in 1 .. j - 1 : t \in L!Lances
      BY DEF LIInv, LJoints
    <3>2. j # 1 => j - 1 \in L!Lances
      BY <3>1
    <3> QED BY <3>1, <3>2, LectureOK
  <2>2. L!TypeOK
    BY <2>1, LectureOK DEF LIInv, LTypes, L!TypeOK
  <2> QED BY <2>2, LTousConvertis, LRetourJuste DEF Conversions
<1> QED BY <1>1, <1>2, <1>3, PTL DEF MCSpec

-----------------------------------------------------------------------------
(* The tree of threads.                                                    *)

USE PersonneAssumption

(* The threads of the tree that have set cond: they have sons, and have    *)
(* created them.                                                           *)
Poseurs == {t \in tcrees : A!lvl(t) < max /\ tpc[t] \in {"join", "fin"}}

(* A thread that is not created is at its start, and one that creates sons *)
(* is below max.                                                           *)
APlaces ==
    /\ DOMAIN tpc = ArbreThreads
    /\ tpc[Main] \in {"cree", "join", "fin"}
    /\ \A t \in A!Chemins : tpc[t] \in {"lock", "test", "lockFils", "unlock", "join", "fin"}
    /\ \A t \in A!Chemins \ tcrees : tpc[t] = "lock"
    /\ \A t \in A!Chemins : tpc[t] \in {"lockFils", "unlock", "join"} => A!lvl(t) < max

(* main sets cond once, and a thread with sons once: only one more thread  *)
(* than these ever goes on.  So of the sons of the last thread that has    *)
(* some, one at most ends, and a thread with sons never does.              *)
AIInv ==
    /\ A!MoniteurTypeOK
    /\ max \in 1 .. Profondeur /\ cond \in 0 .. 1
    /\ tcrees \subseteq A!Chemins /\ IsFiniteSet(tcrees)
    /\ APlaces
    /\ tpc[Main] = "cree" => poses = 0 /\ tcrees = {}
    /\ tpc[Main] # "cree" => poses = 1 + Cardinality(Poseurs)
    /\ Cardinality(A!Passes) + cond <= poses
    /\ \A t \in A!Chemins : tpc[t] = "fin" => ~(A!lvl(t) < max)
    /\ tpc[Main] = "fin" => tpc[<<>>] = "fin"

(* The paths of the tree: the sons of a thread are one level below it.     *)
LEMMA CheminsOK ==
  /\ ArbreThreads = {Main} \cup A!Chemins /\ Main \notin A!Chemins /\ Profondeur \in Nat \ {0}
  /\ Personne \notin ArbreThreads
  /\ <<>> \in A!Chemins /\ A!lvl(<<>>) = 1
  /\ \A t \in A!Chemins : A!lvl(t) \in 1 .. Profondeur
  /\ \A t \in A!Chemins : A!lvl(t) < Profondeur => A!Fils(t) \subseteq A!Chemins
  /\ \A t \in A!Chemins : \A s \in A!Fils(t) : A!lvl(s) = A!lvl(t) + 1
<1>1. /\ ArbreThreads = {Main} \cup A!Chemins /\ Main \notin A!Chemins /\ Profondeur \in Nat \ {0}
      /\ Personne \notin ArbreThreads
  BY MCTme5Assumption DEF A!ArbreAssumption
<1>2. \A k \in Nat : \A t \in A!Niveau(k) : t \in Seq(Nat) /\ Len(t) = k
  BY LenProperties, SeqDef DEF A!Niveau
<1>3. ASSUME NEW t \in A!Chemins
      PROVE  \E k \in 0 .. Profondeur - 1 : t \in A!Niveau(k) /\ t \in Seq(Nat) /\ Len(t) = k
  BY <1>1, <1>2, <1>3 DEF A!Chemins
<1>4. <<>> \in A!Chemins /\ A!lvl(<<>>) = 1
  <2>1. <<>> \in A!Niveau(0)
    BY DEF A!Niveau
  <2> QED BY <1>1, <2>1 DEF A!Chemins, A!lvl
<1>5. \A t \in A!Chemins : A!lvl(t) \in 1 .. Profondeur
  BY <1>1, <1>3 DEF A!lvl
<1>6. ASSUME NEW t \in A!Chemins, NEW s \in A!Fils(t)
      PROVE  /\ A!lvl(s) = A!lvl(t) + 1
             /\ A!lvl(t) < Profondeur => s \in A!Chemins
  <2>1. PICK k \in 0 .. Profondeur - 1 : t \in A!Niveau(k) /\ t \in Seq(Nat) /\ Len(t) = k
    BY <1>3
  <2>2. PICK r \in 1 .. k + 2 : s = Append(t, r)
    BY <1>6, <2>1 DEF A!Fils, A!lvl
  <2>3. s \in Seq(Nat) /\ Len(s) = k + 1
    BY <2>1, <2>2
  <2>4. s \in A!Niveau(k + 1)
    <3>1. \A q \in 1 .. k + 1 : s[q] \in Nat \ {0} /\ s[q] <= q + 1
      <4> SUFFICES ASSUME NEW q \in 1 .. k + 1 PROVE s[q] \in Nat \ {0} /\ s[q] <= q + 1
        OBVIOUS
      <4>1. CASE q = k + 1
        BY <2>1, <2>2, <4>1
      <4>2. CASE q # k + 1
        <5>1. q \in 1 .. k /\ s[q] = t[q]
          BY <2>1, <2>2, <4>2
        <5> QED BY <2>1, <5>1 DEF A!Niveau
      <4> QED BY <4>1, <4>2
    <3>2. s \in [1 .. k + 1 -> Nat]
      BY <2>3, LenProperties
    <3> QED BY <3>1, <3>2 DEF A!Niveau
  <2> QED BY <1>1, <2>1, <2>3, <2>4 DEF A!Chemins, A!lvl
<1> QED BY <1>1, <1>4, <1>5, <1>6

(* The sons of a thread are finitely many, and two at least.               *)
LEMMA FilsFinis ==
  ASSUME NEW t \in A!Chemins
  PROVE  /\ IsFiniteSet(A!Fils(t))
         /\ \E r, s \in A!Fils(t) : r # s
<1>1. t \in Seq(Nat) /\ Len(t) \in Nat
  <2>1. PICK k \in 0 .. Profondeur - 1 : t \in A!Niveau(k)
    BY CheminsOK DEF A!Chemins
  <2> QED BY <2>1, CheminsOK, SeqDef DEF A!Niveau
<1>2. IsFiniteSet(A!Fils(t))
  <2> DEFINE n == Len(t) + 2
             f == [r \in 1 .. n |-> Append(t, r)]
  <2>1. IsFiniteSet(1 .. n)
    BY <1>1, FS_Interval
  <2>2. f \in Surjection(1 .. n, A!Fils(t))
    <3>1. A!Fils(t) = {Append(t, r) : r \in 1 .. n}
      BY <1>1 DEF A!Fils, A!lvl
    <3> QED BY <3>1 DEF Surjection
  <2> QED BY <2>1, <2>2, FS_Surjection
<1>3. Append(t, 1) \in A!Fils(t) /\ Append(t, 2) \in A!Fils(t)
  BY <1>1 DEF A!Fils, A!lvl
<1>4. Append(t, 1) # Append(t, 2)
  <2>1. Append(t, 1)[Len(t) + 1] = 1 /\ Append(t, 2)[Len(t) + 1] = 2
    BY <1>1
  <2> QED BY <2>1
<1> QED BY <1>2, <1>3, <1>4

(* The sets counted are finite, and those that set cond went on.           *)
LEMMA Comptes ==
  ASSUME AIInv
  PROVE  /\ IsFiniteSet(A!Passes) /\ IsFiniteSet(Poseurs) /\ Poseurs \subseteq A!Passes
         /\ A!Passes \subseteq tcrees
         /\ Cardinality(A!Passes) \in Nat /\ Cardinality(Poseurs) \in Nat /\ poses \in Nat
         /\ Cardinality(Poseurs) <= Cardinality(tcrees) /\ Cardinality(tcrees) \in Nat
<1>1. Poseurs \subseteq A!Passes /\ A!Passes \subseteq tcrees /\ IsFiniteSet(tcrees)
  BY DEF AIInv, Poseurs, A!Passes
<1>2. IsFiniteSet(A!Passes) /\ IsFiniteSet(Poseurs) /\ Cardinality(Poseurs) <= Cardinality(tcrees)
  BY <1>1, FS_Subset
<1>3. Cardinality(A!Passes) \in Nat /\ Cardinality(Poseurs) \in Nat /\ Cardinality(tcrees) \in Nat
  BY <1>1, <1>2, FS_CardinalityType
<1> QED BY <1>1, <1>2, <1>3 DEF AIInv

(* The module instantiated counts as this one does.                        *)
LEMMA ACardinalite == \A S : A!Cardinality(S) = Cardinality(S)
  BY DEF A!Cardinality, Cardinality

(* The monitor of the tree keeps its types whatever a thread asks of it.   *)
LEMMA AMoniteurGarde ==
  ASSUME A!MoniteurTypeOK, NEW t \in ArbreThreads,
         \/ A!Lock(t)
         \/ A!Unlock(t) /\ UNCHANGED tattente
         \/ A!CondWait(t, "condthread")
         \/ tmutex' = tmutex /\ tattente' \in A!Broadcast("condthread")
         \/ A!ReveilIntempestif(t)
         \/ UNCHANGED <<tmutex, tattente>>
  PROVE  A!MoniteurTypeOK'
  BY DEF A!MoniteurTypeOK, A!Lock, A!Unlock, A!CondWait, A!Broadcast, A!ReveilIntempestif

(* Before main begins, nothing is created and cond is not set.             *)
LEMMA AInitOK == A!Init => AIInv
<1> SUFFICES ASSUME A!Init PROVE AIInv
  OBVIOUS
<1> USE CheminsOK DEF A!Init, A!MoniteurInit
<1>1. A!MoniteurTypeOK
  BY DEF A!MoniteurTypeOK
<1>2. APlaces
  BY DEF APlaces
<1>3. A!Passes = {}
  BY DEF A!Passes
<1>4. Cardinality(A!Passes) = 0 /\ IsFiniteSet(tcrees)
  BY <1>3, FS_EmptySet
<1> QED BY <1>1, <1>2, <1>4 DEF AIInv

(* main creates the first thread and sets cond.                            *)
LEMMA AMainCreeOK == ASSUME AIInv, A!MainCree PROVE AIInv'
<1> USE CheminsOK
<1>1. /\ tpc[Main] = "cree" /\ tpc' = [tpc EXCEPT ![Main] = "join"]
      /\ tcrees = {} /\ tcrees' = {<<>>} /\ cond' = 1 /\ poses = 0 /\ poses' = 1 /\ max' = max
      /\ \A t \in A!Chemins : tpc'[t] = "lock" /\ tpc[t] = "lock"
      /\ tpc'[Main] = "join" /\ DOMAIN tpc' = ArbreThreads
  BY DEF AIInv, APlaces, A!MainCree, A!Va
<1>2. A!MoniteurTypeOK'
  BY AMoniteurGarde DEF AIInv, A!MainCree
<1>3. A!Passes' = {} /\ Poseurs' = {}
  BY <1>1 DEF A!Passes, Poseurs
<1>4. Cardinality(A!Passes') = 0 /\ Cardinality(Poseurs') = 0 /\ IsFiniteSet(tcrees')
  BY <1>1, <1>3, FS_EmptySet, FS_Singleton
<1>5. APlaces'
  BY <1>1 DEF APlaces
<1> QED BY <1>1, <1>2, <1>4, <1>5 DEF AIInv

(* A thread that only takes or leaves the mutex, or waits, changes no      *)
(* count; one that goes on uses up cond.                                   *)
LEMMA AEntreOK ==
  ASSUME AIInv, NEW t \in A!Chemins, A!Entre(t) \/ A!Dort(t) \/ A!Passe(t)
  PROVE  AIInv'
<1> USE CheminsOK
<1>1. /\ t \in ArbreThreads /\ t # Main /\ t \in tcrees
      /\ \A u \in ArbreThreads \ {t} : tpc'[u] = tpc[u]
      /\ DOMAIN tpc' = ArbreThreads
      /\ UNCHANGED <<max, tcrees, poses>>
      /\ tpc[t] \in {"lock", "test"} /\ tpc'[t] \in {"lock", "test", "lockFils", "fin"}
  BY DEF AIInv, APlaces, A!Entre, A!Dort, A!Passe, A!Va
<1>2. A!MoniteurTypeOK'
  BY <1>1, AMoniteurGarde DEF AIInv, A!Entre, A!Dort, A!Passe
<1>3. /\ tpc'[t] = "lockFils" => A!lvl(t) < max
      /\ tpc'[t] = "fin" => ~(A!lvl(t) < max)
  BY DEF AIInv, APlaces, A!Entre, A!Dort, A!Passe, A!Va
<1>4. APlaces'
  BY <1>1, <1>3 DEF AIInv, APlaces, A!lvl
<1>5. Poseurs' = Poseurs
  BY <1>1, <1>3 DEF Poseurs, AIInv, A!lvl
<1>6. Cardinality(A!Passes') + cond' <= poses' /\ cond' \in 0 .. 1
  <2>1. CASE A!Entre(t) \/ A!Dort(t)
    <3>1. tpc'[t] \in {"lock", "test"} /\ cond' = cond
      BY <1>1, <2>1 DEF AIInv, APlaces, A!Entre, A!Dort, A!Va
    <3>2. A!Passes' = A!Passes
      BY <1>1, <3>1 DEF A!Passes, AIInv
    <3> QED BY <1>1, <3>1, <3>2 DEF AIInv
  <2>2. CASE A!Passe(t)
    <3>1. A!Passes' \subseteq A!Passes \cup {t} /\ cond = 1 /\ cond' = 0
      BY <1>1, <2>2 DEF A!Passes, AIInv, A!Passe
    <3>2. /\ IsFiniteSet(A!Passes \cup {t}) /\ Cardinality(A!Passes \cup {t}) <= Cardinality(A!Passes) + 1
          /\ Cardinality(A!Passes) \in Nat /\ Cardinality(A!Passes \cup {t}) \in Nat
      <4>1. IsFiniteSet(A!Passes) /\ Cardinality(A!Passes) \in Nat
        BY Comptes
      <4>2. /\ IsFiniteSet(A!Passes \cup {t})
            /\ Cardinality(A!Passes \cup {t}) =
                  IF t \in A!Passes THEN Cardinality(A!Passes) ELSE Cardinality(A!Passes) + 1
        BY <4>1, FS_AddElement
      <4> QED BY <4>1, <4>2
    <3>3. Cardinality(A!Passes') <= Cardinality(A!Passes \cup {t}) /\ Cardinality(A!Passes') \in Nat
      BY <3>1, <3>2, FS_Subset, FS_CardinalityType
    <3> QED BY <1>1, <3>1, <3>2, <3>3, Comptes DEF AIInv
  <2> QED BY <2>1, <2>2
<1> QED BY <1>1, <1>2, <1>3, <1>4, <1>5, <1>6 DEF AIInv, A!lvl

(* The sons created are at their start.                                    *)
LEMMA ACreeFilsOK == ASSUME AIInv, NEW t \in A!Chemins, A!CreeFils(t) PROVE AIInv'
<1> USE CheminsOK
<1>1. /\ t \in ArbreThreads /\ t # Main /\ t \in tcrees
      /\ \A u \in ArbreThreads \ {t} : tpc'[u] = tpc[u]
      /\ DOMAIN tpc' = ArbreThreads /\ tpc[t] = "lockFils" /\ tpc'[t] = "unlock"
      /\ UNCHANGED <<max, cond, poses>> /\ tcrees' = tcrees \cup A!Fils(t)
      /\ A!lvl(t) < max /\ max <= Profondeur /\ max \in Int
  BY DEF AIInv, APlaces, A!CreeFils, A!Va
<1>2. A!MoniteurTypeOK'
  BY <1>1, AMoniteurGarde DEF AIInv, A!CreeFils
<1>3. tcrees' \subseteq A!Chemins /\ IsFiniteSet(tcrees')
  <2>1. A!lvl(t) < Profondeur
    BY <1>1
  <2>2. A!Fils(t) \subseteq A!Chemins
    BY <2>1
  <2> QED BY <1>1, <2>2, FilsFinis, FS_Union DEF AIInv
<1>4. APlaces'
  BY <1>1, <1>3 DEF AIInv, APlaces, A!lvl
<1>5. \A u \in tcrees' \ tcrees : tpc'[u] = "lock"
  BY <1>1, <1>3 DEF AIInv, APlaces
<1>6. A!Passes' = A!Passes /\ Poseurs' = Poseurs
  BY <1>1, <1>3, <1>5 DEF A!Passes, Poseurs, AIInv, A!lvl
<1> QED BY <1>1, <1>2, <1>3, <1>4, <1>6 DEF AIInv, A!lvl

(* A setting of cond is counted with the thread that makes it.             *)
LEMMA APoseOK == ASSUME AIInv, NEW t \in A!Chemins, A!Pose(t) PROVE AIInv'
<1> USE CheminsOK
<1>1. /\ t \in ArbreThreads /\ t # Main /\ t \in tcrees
      /\ \A u \in ArbreThreads \ {t} : tpc'[u] = tpc[u]
      /\ DOMAIN tpc' = ArbreThreads /\ tpc[t] = "unlock" /\ tpc'[t] = "join"
      /\ UNCHANGED <<max, tcrees, tmutex, tattente>> /\ cond' = 1 /\ poses' = poses + 1
      /\ A!lvl(t) < max
  BY DEF AIInv, APlaces, A!Pose, A!Va, A!mvars
<1>2. A!MoniteurTypeOK'
  BY <1>1, AMoniteurGarde DEF AIInv
<1>4. APlaces'
  BY <1>1 DEF AIInv, APlaces, A!lvl
<1>5. A!Passes' = A!Passes
  BY <1>1 DEF A!Passes, AIInv
<1>6. Poseurs' = Poseurs \cup {t} /\ t \notin Poseurs
  BY <1>1 DEF Poseurs, AIInv, A!lvl
<1>7. Cardinality(Poseurs') = Cardinality(Poseurs) + 1
  BY <1>6, Comptes, FS_AddElement
<1>8. Cardinality(A!Passes) + 1 <= poses + 1
  BY Comptes DEF AIInv
<1>9. tpc[Main] # "cree"
  BY <1>1 DEF AIInv
<1>10. poses' = 1 + Cardinality(Poseurs')
  BY <1>1, <1>7, <1>9, Comptes DEF AIInv
<1> QED BY <1>1, <1>2, <1>4, <1>5, <1>8, <1>9, <1>10 DEF AIInv, A!lvl

(* A thread with sons never joins them all: two that have no sons have not *)
(* both gone on, and the others never end.                                 *)
LEMMA AJoinJamais == ASSUME AIInv, NEW t \in A!Chemins, A!Join(t) PROVE FALSE
<1> USE CheminsOK
<1>1. tpc[t] = "join" /\ A!lvl(t) < max /\ max <= Profondeur /\ max \in Int /\ A!lvl(t) \in Int
  BY DEF AIInv, APlaces, A!Join, A!Va
<1>2. \A s \in A!Fils(t) : s \in A!Chemins /\ tpc[s] = "fin"
  BY <1>1 DEF A!Join
<1>3. PICK r, s \in A!Fils(t) : r # s
  BY FilsFinis
<1>4. \A u \in {r, s} : u \in A!Passes /\ u \notin Poseurs
  BY <1>2, <1>3 DEF AIInv, APlaces, A!Passes, Poseurs
<1>5. /\ Poseurs \cup {r} \cup {s} \subseteq A!Passes
      /\ Cardinality(Poseurs \cup {r} \cup {s}) = Cardinality(Poseurs) + 2
  <2>1. IsFiniteSet(Poseurs \cup {r}) /\ Cardinality(Poseurs \cup {r}) = Cardinality(Poseurs) + 1
    BY <1>4, Comptes, FS_AddElement
  <2>2. Cardinality(Poseurs \cup {r} \cup {s}) = Cardinality(Poseurs \cup {r}) + 1
    BY <1>3, <1>4, <2>1, FS_AddElement
  <2> QED BY <1>4, <2>1, <2>2, Comptes
<1>6. Cardinality(Poseurs) + 2 <= Cardinality(A!Passes)
  BY <1>5, Comptes, FS_Subset
<1>7. tpc[Main] # "cree"
  BY <1>4 DEF AIInv, A!Passes
<1> QED BY <1>6, <1>7, Comptes DEF AIInv

(* main ends once the first thread has.                                    *)
LEMMA AJoinMainOK == ASSUME AIInv, A!Join(Main) PROVE AIInv'
<1> USE CheminsOK
<1>1. /\ \A u \in ArbreThreads \ {Main} : tpc'[u] = tpc[u]
      /\ DOMAIN tpc' = ArbreThreads /\ tpc[Main] = "join" /\ tpc'[Main] = "fin"
      /\ UNCHANGED <<max, tcrees, tmutex, tattente, cond, poses>>
      /\ tpc[<<>>] = "fin"
  BY DEF AIInv, APlaces, A!Join, A!Va, A!mvars
<1>2. A!MoniteurTypeOK'
  BY <1>1, AMoniteurGarde DEF AIInv
<1>4. APlaces'
  BY <1>1 DEF AIInv, APlaces, A!lvl
<1>5. A!Passes' = A!Passes /\ Poseurs' = Poseurs
  BY <1>1 DEF A!Passes, Poseurs, AIInv, A!lvl
<1> QED BY <1>1, <1>2, <1>4, <1>5 DEF AIInv, A!lvl

(* No step of the tree, nor a wakeup without reason, breaks the invariant. *)
LEMMA AStepOK == AIInv /\ [A!Next]_tvars => AIInv'
<1> SUFFICES ASSUME AIInv, [A!Next]_tvars PROVE AIInv'
  OBVIOUS
<1>1. ASSUME NEW t \in ArbreThreads, A!Intempestif(t) PROVE AIInv'
  <2>1. A!MoniteurTypeOK' /\ UNCHANGED <<max, cond, tcrees, tpc, poses>>
    BY <1>1, AMoniteurGarde DEF AIInv, A!Intempestif
  <2> QED BY <2>1 DEF AIInv, APlaces, Poseurs, A!Passes, A!lvl
<1>2. CASE UNCHANGED tvars
  BY <1>2 DEF tvars, AIInv, APlaces, Poseurs, A!Passes, A!lvl, A!MoniteurTypeOK
<1>3. \A t \in ArbreThreads : t # Main => t \in A!Chemins
  BY CheminsOK
<1> QED BY <1>1, <1>2, <1>3, AMainCreeOK, AEntreOK, ACreeFilsOK, APoseOK, AJoinJamais, AJoinMainOK
      DEF A!Next, A!thread_func

(* The invariant of the tree holds in every run.                           *)
LEMMA AInvariant == MCSpec => []AIInv
<1>1. MCInit => AIInv
  BY AInitOK DEF MCInit
<1>2. AIInv /\ [MCNext]_<<exo, lvars, cvars, tvars>> => AIInv'
  BY AStepOK DEF MCNext
<1> QED BY <1>1, <1>2, PTL DEF MCSpec

(* One thread of the tree at a time creates its sons: those that have set  *)
(* cond and those that create went on, and there are no more of them than  *)
(* settings.                                                               *)
LEMMA UnCreateur == AIInv => Cardinality(A!Createurs) + cond <= 1
<1> SUFFICES ASSUME AIInv PROVE Cardinality(A!Createurs) + cond <= 1
  OBVIOUS
<1>1. CASE tpc[Main] = "cree"
  <2>1. A!Createurs = {} /\ A!Passes = {} /\ poses = 0
    BY <1>1 DEF AIInv, A!Createurs, A!Passes
  <2>2. Cardinality(A!Createurs) = 0 /\ Cardinality(A!Passes) = 0
    BY <2>1, FS_EmptySet
  <2> QED BY <2>1, <2>2 DEF AIInv
<1>2. CASE tpc[Main] # "cree"
  <2>1. /\ A!Createurs \subseteq A!Passes /\ A!Createurs \cap Poseurs = {}
        /\ Poseurs \cup A!Createurs \subseteq A!Passes
    BY Comptes DEF A!Createurs, A!Passes, Poseurs
  <2>2. IsFiniteSet(A!Createurs) /\ Cardinality(A!Createurs) \in Nat
    BY <2>1, Comptes, FS_Subset, FS_CardinalityType
  <2>3. Cardinality(Poseurs \cup A!Createurs) = Cardinality(Poseurs) + Cardinality(A!Createurs)
    <3>1. Cardinality(Poseurs \cap A!Createurs) = 0
      BY <2>1, FS_EmptySet
    <3>2. Cardinality(Poseurs \cup A!Createurs)
            = Cardinality(Poseurs) + Cardinality(A!Createurs) - Cardinality(Poseurs \cap A!Createurs)
      BY <2>2, Comptes, FS_Union
    <3> QED BY <2>2, <3>1, <3>2, Comptes
  <2>4. Cardinality(Poseurs) + Cardinality(A!Createurs) <= Cardinality(A!Passes)
    BY <2>1, <2>3, Comptes, FS_Subset
  <2> QED BY <1>2, <2>2, <2>4, Comptes DEF AIInv
<1> QED BY <1>1, <1>2

(* Each setting of cond lets one thread of the tree go on, and the threads *)
(* create their sons one at a time: for every depth.                       *)
THEOREM TheoremeUnPassage == MCSpec => []UnPassageParPose
<1>1. AIInv => UnPassageParPose
  <2> SUFFICES ASSUME AIInv PROVE UnPassageParPose
    OBVIOUS
  <2>1. poses \in 0 .. Cardinality(tcrees) + 1
    BY Comptes DEF AIInv
  <2>2. A!TypeOK
    BY <2>1, CheminsOK, ACardinalite DEF AIInv, A!TypeOK
  <2>3. Cardinality(A!Passes) + cond <= poses
    BY DEF AIInv
  <2> QED BY <2>2, <2>3, UnCreateur, ACardinalite DEF UnPassageParPose, A!UnPassageParPose
<1> QED BY <1>1, AInvariant, PTL

(* The defect that MCTme5_fin shows on two levels, for every depth: main   *)
(* does not come to its end when the tree has more than one level.         *)
THEOREM ArbreSansFin == MCSpec => [](tpc[Main] = "fin" => max = 1)
<1>1. AIInv => (tpc[Main] = "fin" => max = 1)
  BY CheminsOK DEF AIInv
<1> QED BY <1>1, AInvariant, PTL

-----------------------------------------------------------------------------
(* The chain of threads.                                                   *)

USE ChaineAssumption, PersonneAssumption

Rangs == 1 .. maxThread

PcTypes ==
    /\ DOMAIN pc = Threads
    /\ pc[Main] \in {"cree", "lockMain", "creation", "relock", "sigwait", "pose", "join", "fin", "mort"}
    /\ \A t \in Rangs : pc[t] \in {"lock", "creation", "relock", "signal", "dort", "reveil", "unlock", "fin"}

(* The threads that have left the start of funcThread have created the     *)
(* next one, and there is no thread beyond.                                *)
Chainons ==
    /\ pc[Main] = "cree" => crees = 0
    /\ \A t \in Rangs :
          /\ pc[t] = "lock" => crees <= t
          /\ pc[t] # "lock" => t <= crees
          /\ pc[t] # "lock" /\ t < maxThread => t + 1 <= crees

(* Who is past a wait has seen the flag down.                              *)
Passages ==
    /\ threadCreation = 0 => crees = maxThread
    /\ pc[Main] \in {"sigwait", "pose", "join", "fin", "mort"} => threadCreation = 0
    /\ \A t \in Rangs :
          /\ pc[t] \in {"signal", "dort", "reveil", "unlock", "fin"} => threadCreation = 0
          /\ pc[t] \in {"unlock", "fin"} => signalPasRecu = 0

Joints ==
    /\ \A k \in 0 .. maxThread - 2 : k < i => pc[maxThread - k] = "fin"
    /\ pc[Main] \in {"fin", "mort"} => i = maxThread

IInv == TypeOK /\ PcTypes /\ Chainons /\ Passages /\ Joints

-----------------------------------------------------------------------------
LEMMA Initiale == Init => IInv
<1>. SUFFICES ASSUME Init PROVE IInv
  OBVIOUS
<1>1. \A t \in Rangs : t # Main /\ t \in Threads
  BY DEF Rangs
<1>2. TypeOK
  <2>1. MoniteurTypeOK
    BY DEF Init, MoniteurInit, MoniteurTypeOK
  <2>2. crees \in 0 .. maxThread /\ i \in 0 .. maxThread
    BY DEF Init
  <2>3. threadCreation \in 0 .. 1 /\ signalPasRecu \in 0 .. 1
    BY DEF Init
  <2>4. perdu \in BOOLEAN
    BY Zenon DEF Init
  <2>5. \A t \in Threads : ~(pc[t] \in {"creation", "signal", "dort", "unlock"}) /\ mutex # t
    BY DEF Init, MoniteurInit
  <2>. QED BY <2>1, <2>2, <2>3, <2>4, <2>5 DEF TypeOK
<1>3. PcTypes /\ Chainons /\ Passages /\ Joints
  BY <1>1 DEF Init, PcTypes, Chainons, Passages, Joints, Rangs
<1>. QED BY <1>2, <1>3 DEF IInv

(* The monitor keeps its types whatever a thread asks of it.               *)
LEMMA MoniteurGarde ==
    ASSUME MoniteurTypeOK, NEW t \in Threads,
           \/ Lock(t)
           \/ Unlock(t) /\ UNCHANGED attente
           \/ CondWait(t, "condCreation")
           \/ mutex' = t /\ attente' \in Broadcast("condCreation")
           \/ mutex' = mutex /\ attente' \in Broadcast("condCreation")
           \/ ReveilIntempestif(t)
           \/ UNCHANGED mvars
    PROVE  MoniteurTypeOK'
  BY DEF MoniteurTypeOK, Lock, Unlock, CondWait, Broadcast, ReveilIntempestif, mvars

LEMMA CreeSuivantGarde == ASSUME IInv, NEW t \in Rangs, CreeSuivant(t) PROVE IInv'
<1>. USE DEF Rangs
<1>1. crees = t /\ crees' = t + 1 /\ t + 1 <= maxThread /\ t # Main /\ t \in Threads
  BY DEF IInv, TypeOK, Chainons, CreeSuivant, Va
<1>2. pc' = [pc EXCEPT ![t] = "creation"] /\ mutex = Personne /\ mutex' = t /\ pc[t] = "lock"
  BY DEF CreeSuivant, Va, Lock
<1>3. MoniteurTypeOK'
  BY <1>1, MoniteurGarde DEF IInv, TypeOK, CreeSuivant
<1>4. PcTypes'
  BY <1>1, <1>2 DEF IInv, PcTypes
<1>5. TypeOK'
  BY <1>1, <1>2, <1>3 DEF IInv, TypeOK, PcTypes, CreeSuivant
<1>6. Chainons'
  BY <1>1, <1>2 DEF IInv, Chainons, PcTypes, TypeOK
<1>7. threadCreation # 0
  BY <1>1 DEF IInv, Passages
<1>8. Passages' /\ Joints'
  BY <1>1, <1>2, <1>7 DEF IInv, Passages, Joints, PcTypes, CreeSuivant
<1>. QED BY <1>4, <1>5, <1>6, <1>8 DEF IInv

LEMMA DernierGarde == ASSUME IInv, NEW t \in Rangs, Dernier(t) PROVE IInv'
<1>. USE DEF Rangs
<1>1. crees = maxThread /\ crees' = crees /\ t = maxThread /\ t # Main /\ t \in Threads
  BY DEF IInv, TypeOK, Chainons, Dernier, Va
<1>2. pc' = [pc EXCEPT ![t] = "creation"] /\ mutex = Personne /\ mutex' = t /\ pc[t] = "lock"
  BY DEF Dernier, Va
<1>3. MoniteurTypeOK'
  BY <1>1, MoniteurGarde DEF IInv, TypeOK, Dernier
<1>4. PcTypes'
  BY <1>1, <1>2 DEF IInv, PcTypes
<1>5. TypeOK'
  BY <1>1, <1>2, <1>3 DEF IInv, TypeOK, PcTypes, Dernier
<1>6. Chainons'
  BY <1>1, <1>2 DEF IInv, Chainons, PcTypes, TypeOK
<1>7. Passages' /\ Joints'
  BY <1>1, <1>2 DEF IInv, Passages, Joints, PcTypes, Dernier
<1>. QED BY <1>4, <1>5, <1>6, <1>7 DEF IInv

LEMMA AttendCreationGarde == ASSUME IInv, NEW t \in Threads, AttendCreation(t) PROVE IInv'
<1>. USE DEF Rangs
<1>1. MoniteurTypeOK'
  BY MoniteurGarde DEF IInv, TypeOK, AttendCreation
<1>2. PcTypes'
  BY DEF IInv, PcTypes, AttendCreation, Va
<1>3. \A u \in Threads : (pc'[u] \in {"creation", "signal", "dort", "unlock"}) <=> (mutex' = u)
  BY DEF IInv, PcTypes, TypeOK, AttendCreation, Va, CondWait, Lock, Unlock, mvars
<1>4. TypeOK'
  BY <1>1, <1>3 DEF IInv, TypeOK, AttendCreation
<1>5. Chainons' /\ Joints'
  BY DEF IInv, Chainons, Joints, PcTypes, AttendCreation, Va
<1>6. Passages'
  BY DEF IInv, Passages, PcTypes, AttendCreation, Va
<1>. QED BY <1>2, <1>4, <1>5, <1>6 DEF IInv

LEMMA AttendSignalGarde == ASSUME IInv, NEW t \in Rangs, AttendSignal(t) PROVE IInv'
<1>. USE DEF Rangs
<1>1. MoniteurTypeOK'
  BY MoniteurGarde DEF IInv, TypeOK, AttendSignal
<1>2. PcTypes'
  BY DEF IInv, PcTypes, AttendSignal, Va
<1>3. \A u \in Threads : (pc'[u] \in {"creation", "signal", "dort", "unlock"}) <=> (mutex' = u)
  BY DEF IInv, PcTypes, TypeOK, AttendSignal, Va, CondWait, Lock, Unlock, mvars
<1>4. TypeOK'
  BY <1>1, <1>3 DEF IInv, TypeOK, AttendSignal
<1>5. Chainons' /\ Joints'
  BY DEF IInv, Chainons, Joints, PcTypes, AttendSignal, Va
<1>6. Passages'
  BY DEF IInv, TypeOK, Passages, PcTypes, AttendSignal, Va
<1>. QED BY <1>2, <1>4, <1>5, <1>6 DEF IInv

LEMMA SortGarde == ASSUME IInv, NEW t \in Rangs, Sort(t) PROVE IInv'
<1>. USE DEF Rangs
<1>1. MoniteurTypeOK'
  BY MoniteurGarde DEF IInv, TypeOK, Sort
<1>2. PcTypes'
  BY DEF IInv, PcTypes, Sort, Va
<1>3. \A u \in Threads : (pc'[u] \in {"creation", "signal", "dort", "unlock"}) <=> (mutex' = u)
  BY DEF IInv, PcTypes, TypeOK, Sort, Va, Unlock
<1>4. TypeOK'
  BY <1>1, <1>3 DEF IInv, TypeOK, Sort
<1>5. Chainons' /\ Joints' /\ Passages'
  BY DEF IInv, Chainons, Joints, Passages, PcTypes, Sort, Va
<1>. QED BY <1>2, <1>4, <1>5 DEF IInv

(* A step of main that is not a wait: it leaves the other threads alone.   *)
LEMMA MainGarde ==
    ASSUME IInv, MainCree \/ MainAffiche \/ Sigwait \/ PoseSignal
    PROVE  IInv'
<1>. USE DEF Rangs
<1>1. Main \in Threads /\ \A t \in Rangs : t # Main /\ t \in Threads
  OBVIOUS
<1>2. CASE MainCree
  <2>1. MoniteurTypeOK'
    BY <1>1, <1>2, MoniteurGarde DEF IInv, TypeOK, MainCree
  <2>2. PcTypes'
    BY <1>1, <1>2 DEF IInv, PcTypes, MainCree, Va
  <2>3. crees' \in 0 .. maxThread /\ UNCHANGED <<threadCreation, signalPasRecu, i, perdu>>
    BY <1>2 DEF IInv, TypeOK, MainCree
  <2>4. \A u \in Threads : (pc'[u] \in {"creation", "signal", "dort", "unlock"}) <=> (mutex' = u)
    BY <1>1, <1>2 DEF IInv, PcTypes, TypeOK, MainCree, Va, Lock, mvars
  <2>5. TypeOK'
    BY <2>1, <2>3, <2>4 DEF IInv, TypeOK
  <2>6. Chainons'
    BY <1>1, <1>2 DEF IInv, TypeOK, Chainons, PcTypes, MainCree, Va
  <2>7. Passages'
    BY <1>1, <1>2 DEF IInv, TypeOK, Chainons, Passages, PcTypes, MainCree, Va
  <2>8. Joints'
    BY <1>1, <1>2 DEF IInv, Joints, PcTypes, MainCree, Va
  <2>. QED BY <2>2, <2>5, <2>6, <2>7, <2>8 DEF IInv
<1>3. CASE MainAffiche
  <2>1. MoniteurTypeOK'
    BY <1>1, <1>3, MoniteurGarde DEF IInv, TypeOK, MainAffiche
  <2>2. PcTypes'
    BY <1>1, <1>3 DEF IInv, PcTypes, MainAffiche, Va
  <2>3. \A u \in Threads : (pc'[u] \in {"creation", "signal", "dort", "unlock"}) <=> (mutex' = u)
    BY <1>1, <1>3 DEF IInv, PcTypes, TypeOK, MainAffiche, Va, Unlock
  <2>4. TypeOK'
    BY <1>3, <2>1, <2>3 DEF IInv, TypeOK, MainAffiche
  <2>5. Chainons' /\ Joints' /\ Passages'
    BY <1>1, <1>3 DEF IInv, Chainons, Joints, Passages, PcTypes, MainAffiche, Va
  <2>. QED BY <2>2, <2>4, <2>5 DEF IInv
<1>4. CASE Sigwait
  <2>1. MoniteurTypeOK'
    BY <1>1, <1>4, MoniteurGarde DEF IInv, TypeOK, Sigwait
  <2>2. PcTypes'
    BY <1>1, <1>4 DEF IInv, PcTypes, Sigwait, Va
  <2>3. \A u \in Threads : (pc'[u] \in {"creation", "signal", "dort", "unlock"}) <=> (mutex' = u)
    BY <1>1, <1>4 DEF IInv, PcTypes, TypeOK, Sigwait, Va
  <2>4. TypeOK'
    BY <1>4, <2>1, <2>3 DEF IInv, TypeOK, Sigwait
  <2>5. Chainons' /\ Joints' /\ Passages'
    BY <1>1, <1>4 DEF IInv, Chainons, Joints, Passages, PcTypes, Sigwait, Va
  <2>. QED BY <2>2, <2>4, <2>5 DEF IInv
<1>5. CASE PoseSignal
  <2>1. MoniteurTypeOK'
    BY <1>5 DEF IInv, TypeOK, MoniteurTypeOK, PoseSignal, mvars
  <2>2. PcTypes'
    BY <1>1, <1>5 DEF IInv, PcTypes, PoseSignal, Va
  <2>3. \A u \in Threads : (pc'[u] \in {"creation", "signal", "dort", "unlock"}) <=> (mutex' = u)
    BY <1>1, <1>5 DEF IInv, PcTypes, TypeOK, PoseSignal, Va, mvars
  <2>4. perdu' \in BOOLEAN
    BY <1>5, Zenon DEF PoseSignal
  <2>5. signalPasRecu' \in 0 .. 1 /\ UNCHANGED <<threadCreation, crees, i>>
    BY <1>5 DEF PoseSignal
  <2>6. TypeOK'
    BY <2>1, <2>3, <2>4, <2>5 DEF IInv, TypeOK
  <2>7. Chainons' /\ Joints' /\ Passages'
    BY <1>1, <1>5 DEF IInv, Chainons, Joints, Passages, PcTypes, PoseSignal, Va
  <2>. QED BY <2>2, <2>6, <2>7 DEF IInv
<1>. QED BY <1>2, <1>3, <1>4, <1>5

LEMMA JoinGarde == ASSUME IInv, Join PROVE IInv'
<1>. USE DEF Rangs
<1>1. PICK f \in (IF i + 1 = maxThread THEN {"fin", "mort"} ELSE {"join"}) :
          pc' = [pc EXCEPT ![Main] = f]
  BY DEF Join
<1>2. /\ \A t \in Rangs : pc'[t] = pc[t]
      /\ pc'[Main] = f /\ pc[Main] = "join" /\ DOMAIN pc' = Threads
  BY <1>1 DEF Join, IInv, PcTypes
<1>3. PcTypes'
  BY <1>1, <1>2 DEF IInv, PcTypes
<1>4. TypeOK'
  <2>1. MoniteurTypeOK' /\ i' \in 0 .. maxThread
    BY DEF IInv, TypeOK, MoniteurTypeOK, Join, mvars
  <2>2. \A u \in Threads : (pc'[u] \in {"creation", "signal", "dort", "unlock"}) <=> (mutex' = u)
    BY <1>1, <1>2 DEF IInv, TypeOK, Join, mvars
  <2>. QED BY <2>1, <2>2 DEF IInv, TypeOK, Join
<1>5. Chainons' /\ Passages'
  BY <1>1, <1>2 DEF IInv, Chainons, Passages, Join
<1>6. Joints'
  <2>1. \A k \in 0 .. maxThread - 2 : k < i + 1 => pc'[maxThread - k] = "fin"
    BY <1>2 DEF IInv, TypeOK, Joints, Join
  <2>2. f \in {"fin", "mort"} => i' = maxThread
    BY <1>1 DEF Join
  <2>. QED BY <1>2, <2>1, <2>2 DEF Joints, Join
<1>. QED BY <1>3, <1>4, <1>5, <1>6 DEF IInv

LEMMA IntempestifGarde == ASSUME IInv, NEW t \in Threads, Intempestif(t) PROVE IInv'
<1>1. MoniteurTypeOK'
  BY MoniteurGarde DEF IInv, TypeOK, Intempestif
<1>2. UNCHANGED <<mutex, threadCreation, signalPasRecu, crees, pc, i, perdu>>
  BY DEF Intempestif, ReveilIntempestif
<1>. QED BY <1>1, <1>2 DEF IInv, TypeOK, PcTypes, Chainons, Passages, Joints

LEMMA Inductive == IInv /\ [Next]_cvars => IInv'
<1>. SUFFICES ASSUME IInv, [Next]_cvars PROVE IInv'
  OBVIOUS
<1>1. CASE MainPas \/ Sigwait
  BY <1>1, MainGarde, AttendCreationGarde, JoinGarde DEF MainPas
<1>2. ASSUME NEW t \in Threads, t # Main, funcThread(t) PROVE IInv'
  <2>1. t \in Rangs
    BY <1>2 DEF Rangs
  <2>. QED BY <1>2, <2>1, CreeSuivantGarde, DernierGarde, AttendCreationGarde,
              AttendSignalGarde, SortGarde DEF funcThread
<1>3. ASSUME NEW t \in Threads, Intempestif(t) PROVE IInv'
  BY <1>3, IntempestifGarde
<1>4. CASE UNCHANGED cvars
  BY <1>4 DEF cvars, mvars, IInv, TypeOK, MoniteurTypeOK, PcTypes, Chainons, Passages, Joints
<1>. QED BY <1>1, <1>2, <1>3, <1>4 DEF Next

(* Whatever the number of threads of thread_chaine_reveil_user_.c and the  *)
(* wakeups: the mutex has the holder the places of the threads say, main   *)
(* announces the creation of all of them when it is done, no thread ends   *)
(* before SIGINT, and main announces their end when all but the first have *)
(* ended.                                                                  *)
THEOREM TheoremeAnnonces == Spec => []Annonces
<1>1. IInv => Annonces
  <2>. SUFFICES ASSUME IInv PROVE Annonces
    OBVIOUS
  <2>1. CreesAvant
    BY DEF IInv, Passages, CreesAvant, Rangs
  <2>2. FinApresSignal
    <3>1. ASSUME pc[Main] = "fin", NEW t \in 2 .. maxThread PROVE pc[t] = "fin"
      <4>1. maxThread - t \in 0 .. maxThread - 2 /\ maxThread - t < i
        BY <3>1 DEF IInv, Joints
      <4>2. pc[maxThread - (maxThread - t)] = "fin"
        BY <4>1 DEF IInv, Joints
      <4>. QED BY <4>2
    <3>. QED BY <3>1 DEF IInv, Passages, FinApresSignal, Rangs
  <2>. QED BY <2>1, <2>2 DEF IInv, Annonces
<1>. QED BY <1>1, Initiale, Inductive, PTL DEF Spec
=============================================================================

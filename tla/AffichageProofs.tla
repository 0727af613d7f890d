-------------------------- MODULE AffichageProofs --------------------------
(* Proofs about the programs of MCAffichage: ex4c.c and ex4.c, for any     *)
(* number of threads, then the sum that a thread created first displays,   *)
(* for any finite number of adding threads.  Their inductive invariants    *)
(* are FIInv, OIInv and IInv.                                              *)
EXTENDS MCAffichage, FiniteSetTheorems, TLAPS

(* ex4c.c: the thread t has displayed.                                     *)
Montre(t) == fpc[t] \in {"suivant", "leve", "signale", "fin"}

(* A flag raised, a thread in its wait or past it, and what was displayed, *)
(* say of the thread before that it has displayed: the flag because it     *)
(* raises it afterwards, the others until a wait returns without a signal. *)
FIInv ==
    /\ F!TypeOK
    /\ \A t \in F!Rangs : fpc[t] \in {"suivant", "leve", "signale"} => t + 1 \in F!Rangs
    /\ \A t \in dort : fpc[t] = "relock"
    /\ \A t \in F!Rangs : Montre(t) => \E k \in 1 .. Len(faffiches) : faffiches[k] = t
    /\ \A t \in F!Rangs \ {0} : flag[t] = 1 => Montre(t - 1)
    /\ ~intempestif =>
        /\ \A k \in 1 .. Len(faffiches) : faffiches[k] = k - 1
        /\ \A t \in F!Rangs : Montre(t) <=> t < Len(faffiches)
        /\ \A t \in F!Rangs \ {0} :
              fpc[t] \in {"unlock", "affiche"} \/ (fpc[t] = "relock" /\ t \notin dort) => Montre(t - 1)

LEMMA FInitOK == F!Init => FIInv
<1> SUFFICES ASSUME F!Init PROVE FIInv
  OBVIOUS
<1> USE MCAffichageAssumption DEF F!Init, F!FlagsAssumption, F!Rangs, F!Libre
<1>1. F!TypeOK
  <2>1. faffiches \in Seq(F!Rangs) /\ crees \in 0 .. N /\ prets \in 0 .. N
    OBVIOUS
  <2>2. /\ fmutex \in [F!Rangs -> F!Rangs \cup {F!Libre}] /\ flag \in [F!Rangs -> {0, 1}]
        /\ fpc \in [F!Rangs -> {"affiche", "lock"}]
    OBVIOUS
  <2> QED BY <2>1, <2>2 DEF F!TypeOK
<1> QED BY <1>1 DEF FIInv, Montre

(* main creates the slots one after the other, and no display depends on   *)
(* what it erases there.                                                   *)
LEMMA FMainOK ==
  ASSUME FIInv, F!Main
  PROVE  FIInv'
<1> USE MCAffichageAssumption DEF F!FlagsAssumption, F!Rangs, F!Libre
<1>1. F!TypeOK'
  <2>1. CASE F!MainInit
    <3>1. ecrase' \in BOOLEAN
      BY <2>1 DEF F!MainInit, F!Ecrase
    <3> QED BY <2>1, <3>1 DEF FIInv, F!TypeOK, F!MainInit
  <2>2. CASE F!MainCree
    BY <2>2 DEF FIInv, F!TypeOK, F!MainCree
  <2> QED BY <2>1, <2>2 DEF F!Main
<1>2. /\ UNCHANGED <<fpc, dort, faffiches, intempestif>>
      /\ \A t \in F!Rangs : flag'[t] = flag[t] \/ flag'[t] = 0
  BY DEF FIInv, F!TypeOK, F!Main, F!MainInit, F!MainCree
<1> QED BY <1>1, <1>2 DEF FIInv, Montre

(* A wait that returns without a signal sets intempestif.                  *)
LEMMA FReveilOK ==
  ASSUME FIInv, NEW t \in F!Rangs, F!ReveilIntempestif(t)
  PROVE  FIInv'
<1> USE DEF F!ReveilIntempestif
<1>1. F!TypeOK'
  BY DEF FIInv, F!TypeOK
<1> QED BY <1>1 DEF FIInv, Montre

(* What a thread displays is, without such a return, what comes next.      *)
LEMMA FAfficheOK ==
  ASSUME FIInv, NEW t \in F!Rangs, F!Affiche(t)
  PROVE  FIInv'
<1> USE MCAffichageAssumption DEF F!FlagsAssumption, F!Rangs
<1>1. /\ fpc[t] = "affiche" /\ fpc' = [fpc EXCEPT ![t] = IF t = N - 1 THEN "fin" ELSE "suivant"]
      /\ faffiches' = Append(faffiches, t) /\ faffiches \in Seq(F!Rangs)
      /\ UNCHANGED <<fmutex, dort, flag, crees, prets, intempestif, ecrase>>
      /\ F!TypeOK
  BY DEF FIInv, F!TypeOK, F!Affiche, F!Goto
<1>2. /\ Len(faffiches') = Len(faffiches) + 1 /\ Len(faffiches) \in Nat
      /\ faffiches'[Len(faffiches) + 1] = t
      /\ \A k \in 1 .. Len(faffiches) : faffiches'[k] = faffiches[k]
  BY <1>1
<1>3. /\ fpc'[t] \in {"fin", "suivant"} /\ (fpc'[t] = "suivant" => t + 1 \in F!Rangs)
      /\ \A u \in F!Rangs \ {t} : fpc'[u] = fpc[u]
  BY <1>1 DEF F!TypeOK
<1>4. F!TypeOK'
  BY <1>1 DEF F!TypeOK
<1>5. Montre(t)' /\ ~Montre(t) /\ \A u \in F!Rangs \ {t} : Montre(u)' = Montre(u)
  BY <1>1, <1>3 DEF Montre
<1>6. ASSUME NEW u \in F!Rangs, Montre(u)'
      PROVE  \E k \in 1 .. Len(faffiches') : faffiches'[k] = u
  <2>1. CASE u = t
    BY <1>2, <2>1
  <2>2. CASE u # t
    <3>1. PICK k \in 1 .. Len(faffiches) : faffiches[k] = u
      BY <1>5, <1>6, <2>2 DEF FIInv
    <3> QED BY <1>2, <3>1
  <2> QED BY <2>1, <2>2
<1>7. ASSUME ~intempestif
      PROVE  /\ t = Len(faffiches)
             /\ \A u \in F!Rangs : Montre(u) <=> u < Len(faffiches)
  <2>1. \A u \in F!Rangs : Montre(u) <=> u < Len(faffiches)
    BY <1>7 DEF FIInv
  <2>2. t = 0 \/ Montre(t - 1)
    BY <1>1, <1>7 DEF FIInv
  <2>3. t - 1 \in F!Rangs \/ t = 0
    OBVIOUS
  <2> QED BY <1>2, <1>5, <2>1, <2>2, <2>3
<1>8. ASSUME ~intempestif
      PROVE  /\ \A k \in 1 .. Len(faffiches') : faffiches'[k] = k - 1
             /\ \A u \in F!Rangs : Montre(u)' <=> u < Len(faffiches')
  <2>1. \A k \in 1 .. Len(faffiches) : faffiches[k] = k - 1
    BY <1>8 DEF FIInv
  <2>2. \A u \in F!Rangs : Montre(u)' <=> u < Len(faffiches')
    <3>1. ASSUME NEW u \in F!Rangs, u # t PROVE Montre(u)' <=> u < Len(faffiches')
      <4>1. (u < Len(faffiches')) <=> (u < Len(faffiches))
        BY <1>2, <1>7, <1>8, <3>1
      <4> QED BY <1>5, <1>7, <1>8, <3>1, <4>1
    <3>2. t < Len(faffiches')
      BY <1>2, <1>7, <1>8
    <3> QED BY <1>5, <3>1, <3>2
  <2> QED BY <1>2, <1>7, <1>8, <2>1, <2>2
<1>9. \A u \in F!Rangs : Montre(u) => Montre(u)'
  BY <1>5
<1>10. \A u \in F!Rangs \ {0} : u - 1 \in F!Rangs
  OBVIOUS
<1>11. \A u \in F!Rangs : fpc'[u] \in {"unlock", "affiche", "relock"} => fpc'[u] = fpc[u]
  BY <1>3
<1>12. \A u \in dort : fpc'[u] = "relock"
  BY <1>1, <1>3 DEF FIInv, F!TypeOK
<1> HIDE DEF F!Rangs
<1> QED BY <1>1, <1>3, <1>4, <1>6, <1>8, <1>9, <1>10, <1>11, <1>12 DEF FIInv

(* The other steps: a thread goes past its flag raised, or past its wait   *)
(* after the signal of the thread before, which had displayed.             *)
LEMMA FAutresOK ==
  ASSUME FIInv, NEW t \in F!Rangs, F!thread_cond(t), ~F!Affiche(t)
  PROVE  FIInv'
<1> USE MCAffichageAssumption DEF F!FlagsAssumption, F!Rangs, F!Libre, F!Goto
<1>0. /\ UNCHANGED <<faffiches, intempestif>>
      /\ \A u \in F!Rangs \ {t} : fpc'[u] = fpc[u]
      /\ \/ fpc[t] \in {"lock", "if", "attend", "relock", "unlock"} /\ ~(fpc'[t] \in {"suivant", "leve", "signale", "fin"})
         \/ fpc[t] \in {"suivant", "leve", "signale"} /\ fpc'[t] \in {"leve", "signale", "fin"}
      /\ \A u \in dort' : u \in dort \/ fpc'[u] = "relock"
      /\ fpc[t] = "relock" => t \notin dort
  <2>1. CASE F!LockSien(t)
    BY <2>1 DEF FIInv, F!TypeOK, F!LockSien
  <2>2. CASE F!Teste(t)
    BY <2>2 DEF FIInv, F!TypeOK, F!Teste
  <2>3. CASE F!Attend(t)
    BY <2>3 DEF FIInv, F!TypeOK, F!Attend
  <2>4. CASE F!Reprend(t)
    BY <2>4 DEF FIInv, F!TypeOK, F!Reprend
  <2>5. CASE F!Unlock(t)
    BY <2>5 DEF FIInv, F!TypeOK, F!Unlock
  <2>6. CASE F!LockSuivant(t)
    BY <2>6 DEF FIInv, F!TypeOK, F!LockSuivant
  <2>7. CASE F!Leve(t)
    BY <2>7 DEF FIInv, F!TypeOK, F!Leve
  <2>8. CASE F!Signale(t)
    BY <2>8 DEF FIInv, F!TypeOK, F!Signale
  <2> QED BY <2>1, <2>2, <2>3, <2>4, <2>5, <2>6, <2>7, <2>8 DEF F!thread_cond
<1>1. F!TypeOK'
  <2>1. CASE F!LockSien(t)
    BY <2>1 DEF FIInv, F!TypeOK, F!LockSien
  <2>2. CASE F!Teste(t)
    BY <2>2 DEF FIInv, F!TypeOK, F!Teste
  <2>3. CASE F!Attend(t)
    BY <2>3 DEF FIInv, F!TypeOK, F!Attend
  <2>4. CASE F!Reprend(t)
    BY <2>4 DEF FIInv, F!TypeOK, F!Reprend
  <2>5. CASE F!Unlock(t)
    BY <2>5 DEF FIInv, F!TypeOK, F!Unlock
  <2>6. CASE F!LockSuivant(t)
    BY <2>6 DEF FIInv, F!TypeOK, F!LockSuivant
  <2>7. CASE F!Leve(t)
    BY <2>7 DEF FIInv, F!TypeOK, F!Leve
  <2>8. CASE F!Signale(t)
    BY <2>8 DEF FIInv, F!TypeOK, F!Signale
  <2> QED BY <2>1, <2>2, <2>3, <2>4, <2>5, <2>6, <2>7, <2>8 DEF F!thread_cond
<1>2. \A u \in F!Rangs : Montre(u)' = Montre(u)
  BY <1>0 DEF Montre
<1>3. \A u \in F!Rangs : fpc'[u] \in {"suivant", "leve", "signale"} => u + 1 \in F!Rangs
  BY <1>0 DEF FIInv
<1>4. \A u \in dort' : fpc'[u] = "relock"
  BY <1>0 DEF FIInv, F!TypeOK
<1>5. \A u \in F!Rangs \ {0} : flag'[u] = 1 => Montre(u - 1)
  <2>1. CASE F!Leve(t)
    <3>1. flag' = [flag EXCEPT ![t + 1] = 1] /\ Montre(t)
      BY <2>1 DEF F!Leve, Montre
    <3> QED BY <3>1 DEF FIInv, F!TypeOK
  <2>2. CASE ~F!Leve(t)
    <3>1. flag' = flag
      BY <2>2 DEF F!thread_cond, F!LockSien, F!Teste, F!Attend, F!Reprend, F!Unlock, F!LockSuivant, F!Signale
    <3> QED BY <3>1 DEF FIInv
  <2> QED BY <2>1, <2>2
<1>6. ASSUME ~intempestif, NEW u \in F!Rangs \ {0},
             fpc'[u] \in {"unlock", "affiche"} \/ (fpc'[u] = "relock" /\ u \notin dort')
      PROVE  Montre(u - 1)
  <2>1. CASE F!Signale(t) /\ u = t + 1
    BY <2>1 DEF F!Signale, Montre
  <2>2. CASE F!Teste(t) /\ u = t
    BY <1>6, <2>2 DEF F!Teste, FIInv, F!TypeOK
  <2>3. CASE ~(F!Signale(t) /\ u = t + 1) /\ ~(F!Teste(t) /\ u = t)
    <3>1. fpc[u] \in {"unlock", "affiche"} \/ (fpc[u] = "relock" /\ u \notin dort)
      <4>1. CASE u # t
        <5>1. u \in dort => u \in dort'
          BY <2>3, <4>1 DEF F!thread_cond, F!LockSien, F!Teste, F!Attend, F!Reprend, F!Unlock,
            F!LockSuivant, F!Leve, F!Signale
        <5> QED BY <1>0, <1>6, <4>1, <5>1
      <4>2. CASE u = t
        BY <1>6, <2>3, <4>2 DEF FIInv, F!TypeOK, F!thread_cond, F!LockSien, F!Attend, F!Reprend, F!Unlock,
          F!LockSuivant, F!Leve, F!Signale
      <4> QED BY <4>1, <4>2
    <3> QED BY <1>6, <3>1 DEF FIInv
  <2> QED BY <2>1, <2>2, <2>3
<1> HIDE DEF F!Rangs, F!Goto
<1>7. \A u \in F!Rangs \ {0} : u - 1 \in F!Rangs
  BY DEF F!Rangs
<1> QED BY <1>0, <1>1, <1>2, <1>3, <1>4, <1>5, <1>6, <1>7 DEF FIInv

LEMMA FStepOK == FIInv /\ [F!Next]_fvars => FIInv'
<1> SUFFICES ASSUME FIInv, [F!Next]_fvars PROVE FIInv'
  OBVIOUS
<1>1. CASE UNCHANGED fvars
  BY <1>1 DEF fvars, FIInv, Montre, F!TypeOK
<1> QED BY <1>1, FMainOK, FReveilOK, FAfficheOK, FAutresOK DEF F!Next

(* ex4c.c displays in order until a wait returns without a signal, and a   *)
(* flag is raised only after the display of the thread before, whatever    *)
(* the number of threads and however late main initialises their slots.    *)
THEOREM FlagsEnOrdre == MCSpec => []FlagsJustes
<1>1. MCInit => FIInv
  BY FInitOK DEF MCInit
<1>2. FIInv /\ [MCNext]_<<exo, vars, ovars, fvars>> => FIInv'
  BY FStepOK DEF MCNext
<1>3. FIInv => FlagsJustes
  <2> SUFFICES ASSUME FIInv PROVE FlagsJustes
    OBVIOUS
  <2>1. F!EnOrdre
    BY DEF FIInv, F!EnOrdre
  <2>2. F!FlagMerite
    <3> SUFFICES ASSUME NEW t \in F!Rangs \ {0}, flag[t] = 1
                 PROVE  \E k \in 1 .. Len(faffiches) : faffiches[k] = t - 1
      BY DEF F!FlagMerite
    <3>1. t - 1 \in F!Rangs /\ Montre(t - 1)
      BY MCAffichageAssumption DEF FIInv, F!Rangs, F!FlagsAssumption
    <3> QED BY <3>1 DEF FIInv
  <2> QED BY <2>1, <2>2 DEF FIInv, FlagsJustes
<1> QED BY <1>1, <1>2, <1>3, PTL DEF MCSpec

-----------------------------------------------------------------------------
(* O!EnOrdre needs that the turn is the number of displays made.             *)
OIInv ==
    /\ O!TypeOK
    /\ valCond = Len(affiches)
    /\ O!EnOrdre
    /\ O!SonTourEveille

LEMMA OInitOK == O!Init => OIInv
  BY MCAffichageAssumption DEF O!OrdreAssumption, OThreads, O!Init, O!MoniteurInit, OIInv, O!TypeOK, O!MoniteurTypeOK, O!EnOrdre, O!SonTourEveille

(* The thread whose turn it is displays its number after the smaller ones, *)
(* and wakes all the others: none sleeps through the turn that begins.     *)
LEMMA OAfficheOK ==
  ASSUME OIInv, NEW t \in OThreads, O!Affiche(t)
  PROVE  OIInv'
<1>1. /\ omutex' = Personne /\ valCond' = valCond + 1 /\ finis' = finis \cup {t}
      /\ affiches' = Append(affiches, t) /\ t = valCond /\ affiches \in Seq(OThreads)
  BY DEF OIInv, O!TypeOK, O!Affiche, O!Unlock
<1>2. oattente' = [oattente EXCEPT !["cond"] = {}]
  BY DEF O!Affiche, O!Broadcast
<1>3. valCond' = Len(affiches') /\ affiches' \in Seq(OThreads) /\ valCond' \in 0 .. nbThread
  BY <1>1, MCAffichageAssumption DEF O!OrdreAssumption, OThreads, OIInv, O!TypeOK
<1>4. O!TypeOK'
  BY <1>1, <1>2, <1>3 DEF OIInv, O!TypeOK, O!MoniteurTypeOK
<1>5. O!EnOrdre'
  <2> SUFFICES ASSUME NEW k \in 1 .. Len(affiches') PROVE affiches'[k] = k - 1
    BY DEF O!EnOrdre
  <2>1. CASE k = Len(affiches')
    BY <1>1, <1>3, <2>1 DEF OIInv
  <2>2. CASE k # Len(affiches')
    <3>1. k \in 1 .. Len(affiches)
      BY <1>1, <2>2
    <3> QED BY <1>1, <3>1 DEF OIInv, O!EnOrdre
  <2> QED BY <2>1, <2>2
<1>6. O!SonTourEveille'
  BY <1>2, MCAffichageAssumption DEF O!OrdreAssumption, OIInv, O!TypeOK, O!MoniteurTypeOK, O!SonTourEveille
<1> QED BY <1>3, <1>4, <1>5, <1>6 DEF OIInv

(* A thread that starts to wait has just seen, under the mutex, that the   *)
(* turn is not its own.                                                    *)
LEMMA ODortOK ==
  ASSUME OIInv, NEW t \in OThreads, O!Dort(t)
  PROVE  OIInv'
<1>1. /\ omutex' = Personne /\ valCond # t
      /\ oattente' = [oattente EXCEPT !["cond"] = @ \cup {t}]
      /\ UNCHANGED <<valCond, finis, affiches>>
  BY DEF O!Dort, O!CondWait, O!Unlock
<1> QED BY <1>1 DEF OIInv, O!TypeOK, O!MoniteurTypeOK, O!EnOrdre, O!SonTourEveille

LEMMA OStepOK == OIInv /\ [O!Next]_ovars => OIInv'
<1> SUFFICES ASSUME OIInv, [O!Next]_ovars PROVE OIInv'
  OBVIOUS
<1> USE DEF OIInv, O!TypeOK, O!MoniteurTypeOK, O!EnOrdre, O!SonTourEveille
<1>1. CASE \E t \in OThreads : O!Entre(t)
  BY <1>1 DEF O!Entre, O!Lock
<1>2. CASE \E t \in OThreads : O!Intempestif(t)
  BY <1>2 DEF O!Intempestif, O!ReveilIntempestif
<1>3. CASE UNCHANGED ovars
  BY <1>3 DEF ovars, O!mvars
<1> QED BY <1>1, <1>2, <1>3, ODortOK, OAfficheOK DEF O!Next, O!funcThread

LEMMA OrdreInvariant == MCSpec => []OIInv
<1>1. MCInit => OIInv
  BY OInitOK DEF MCInit
<1>2. OIInv /\ [MCNext]_<<exo, vars, ovars, fvars>> => OIInv'
  BY OStepOK DEF MCNext
<1> QED BY <1>1, <1>2, PTL DEF MCSpec

(* Whatever the number of threads and the order they are scheduled in, the *)
(* k-th number displayed by ex4.c is k - 1.                                *)
THEOREM OrdreEnOrdre == MCSpec => []EnOrdre
<1>1. OIInv => EnOrdre
  BY DEF OIInv, EnOrdre
<1> QED BY <1>1, OrdreInvariant, PTL

(* The thread whose turn it is never sleeps: the one before it wakes it or *)
(* has passed the turn on before its test.                                 *)
THEOREM OrdreEveille == MCSpec => []SonTourEveille
<1>1. OIInv => SonTourEveille
  BY DEF OIInv, SonTourEveille
<1> QED BY <1>1, OrdreInvariant, PTL

-----------------------------------------------------------------------------
(* The adding threads that have counted themselves.                        *)
Comptes == {t \in Ajouts : pc[t] \in {"ajoute", "fin"}}

Lieux ==
    /\ pc \in [Threads -> {"detache", "charge", "range", "compte", "ajoute",
                           "lock", "affiche", "fin"}]
    /\ pc[Attente] \in {"detache", "lock", "affiche", "fin"}
    /\ ~SeDetachent => \A t \in Threads : pc[t] \notin {"detache", "charge", "range"}

(* valThread never exceeds the number of those that counted themselves,    *)
(* increments may be lost in detach.c only.                                *)
Compteur ==
    /\ valThread \in Nat /\ valThread <= Cardinality(Comptes)
    /\ reg \in [Ajouts -> Nat]
    /\ \A t \in Ajouts : reg[t] <= Cardinality(Comptes)
    /\ ~SeDetachent => valThread = Cardinality(Comptes)

(* Counting and adding are one section where the mutex is held for both:   *)
(* the last one to count itself is then the last one to add.               *)
Section ==
    ~SeDetachent =>
        /\ \A t \in Ajouts : pc[t] = "ajoute" => mutex = t
        /\ condition = 1 => val = Ajouts
        /\ pc[Attente] = "affiche" => condition = 1

IInv ==
    /\ MoniteurTypeOK /\ attente["cond"] \subseteq {Attente}
    /\ prog \in Programmes /\ fini \in BOOLEAN /\ condition \in {0, 1}
    /\ Lieux /\ Compteur /\ Section
    /\ val = {t \in Ajouts : pc[t] = "fin"}
    /\ affiche \subseteq SUBSET Ajouts
    /\ SommeComplete
    /\ PasPerdu

USE SommeAssumption, PersonneAssumption

LEMMA ComptesFinite ==
    /\ IsFiniteSet(Comptes) /\ Cardinality(Comptes) \in Nat
    /\ valTab \in Nat /\ Cardinality(Comptes) <= valTab
    /\ Cardinality(Comptes) = valTab => Comptes = Ajouts
  BY FS_Subset, FS_CardinalityType DEF Comptes, valTab

LEMMA InitOK == Init => IInv
<1> SUFFICES ASSUME Init PROVE IInv
  OBVIOUS
<1> USE DEF Init, MoniteurInit, SeDetachent
<1>1. Comptes = {} /\ Cardinality(Comptes) = 0
  BY FS_EmptySet DEF Comptes
<1>2. Lieux /\ Compteur /\ Section
  BY <1>1 DEF Lieux, Compteur, Section
<1> QED BY <1>2 DEF IInv, MoniteurTypeOK, SommeComplete, PasPerdu

(* A thread that counts itself makes one more, with or without the mutex.  *)
LEMMA CompteUn ==
  ASSUME Lieux, NEW t \in Ajouts, pc[t] \notin {"ajoute", "fin"},
         pc' = [pc EXCEPT ![t] = "ajoute"]
  PROVE  /\ Comptes' = Comptes \cup {t}
         /\ Cardinality(Comptes') = Cardinality(Comptes) + 1
<1>1. Comptes' = Comptes \cup {t} /\ t \notin Comptes
  BY DEF Comptes, Lieux
<1> QED BY <1>1, ComptesFinite, FS_AddElement

LEMMA ChargeOK ==
  ASSUME IInv, NEW t \in Ajouts, UNCHANGED fini,
         Detache(t) \/ Charge(t) \/ RangeCompte(t)
  PROVE  IInv'
<1> USE DEF IInv, Lieux, MoniteurTypeOK, SeDetachent, Goto, mvars, svars
<1>1. CASE Detache(t) \/ Charge(t)
  <2>1. /\ pc' = [pc EXCEPT ![t] = "charge"] \/ pc' = [pc EXCEPT ![t] = "range"]
        /\ pc[t] \in {"detache", "charge"} /\ t # Attente
        /\ reg' = reg \/ reg' = [reg EXCEPT ![t] = valThread]
        /\ UNCHANGED <<mutex, attente, prog, valThread, val, condition, affiche>>
    BY <1>1 DEF Detache, Charge
  <2>2. Comptes' = Comptes /\ Cardinality(Comptes) \in Nat
    BY <2>1, ComptesFinite DEF Comptes
  <2>3. SeDetachent /\ SeDetachent'
    BY <2>1
  <2>4. Lieux' /\ Section'
    BY <2>1, <2>3 DEF Section
  <2>5. Compteur'
    BY <2>1, <2>2, <2>3 DEF Compteur
  <2> QED BY <2>1, <2>4, <2>5 DEF SommeComplete, PasPerdu
<1>2. CASE RangeCompte(t)
  <2>1. /\ pc' = [pc EXCEPT ![t] = "ajoute"] /\ pc[t] = "range" /\ t # Attente
        /\ valThread' = reg[t] + 1
        /\ UNCHANGED <<mutex, attente, prog, val, condition, affiche, reg>>
    BY <1>2 DEF RangeCompte
  <2>2. Cardinality(Comptes') = Cardinality(Comptes) + 1 /\ Cardinality(Comptes) \in Nat
    BY <2>1, CompteUn, ComptesFinite
  <2>3. SeDetachent /\ SeDetachent'
    BY <2>1
  <2>4. Lieux' /\ Section'
    BY <2>1, <2>3 DEF Section
  <2>5. Compteur'
    BY <2>1, <2>2, <2>3 DEF Compteur
  <2> QED BY <2>1, <2>4, <2>5 DEF SommeComplete, PasPerdu
<1> QED BY <1>1, <1>2

LEMMA CompteOK ==
  ASSUME IInv, NEW t \in Ajouts, UNCHANGED fini, Compte(t)
  PROVE  IInv'
<1> USE DEF IInv, Lieux, MoniteurTypeOK, SeDetachent, Goto, mvars, svars
<1>1. /\ pc' = [pc EXCEPT ![t] = "ajoute"] /\ pc[t] = "compte" /\ t # Attente
      /\ mutex = t /\ valThread' = valThread + 1
      /\ UNCHANGED <<mutex, attente, prog, val, condition, affiche, reg>>
  BY DEF Compte
<1>2. Cardinality(Comptes') = Cardinality(Comptes) + 1 /\ Cardinality(Comptes) \in Nat
  BY <1>1, CompteUn, ComptesFinite
<1>3. Lieux' /\ Section'
  BY <1>1 DEF Section
<1>4. Compteur'
  BY <1>1, <1>2 DEF Compteur
<1> QED BY <1>1, <1>3, <1>4 DEF SommeComplete, PasPerdu

(* The one that finds itself the last raises the condition, and signals to *)
(* the only thread that can be waiting.                                    *)
LEMMA AjouteOK ==
  ASSUME IInv, NEW t \in Ajouts, UNCHANGED fini, Ajoute(t)
  PROVE  IInv'
<1> USE DEF IInv, Lieux, MoniteurTypeOK, SeDetachent, Goto
<1>1. /\ pc' = [pc EXCEPT ![t] = "fin"] /\ pc[t] = "ajoute" /\ t # Attente
      /\ mutex = t /\ mutex' = Personne /\ val' = val \cup {t}
      /\ UNCHANGED <<prog, valThread, affiche, reg>>
  BY DEF Ajoute, Unlock
<1>2. /\ attente' \in [Conds -> SUBSET Threads] /\ attente'["cond"] \subseteq {Attente}
      /\ condition' \in {0, 1}
      /\ condition' = 1 => attente'["cond"] = {}
      /\ condition = 1 => condition' = 1
      /\ condition' = 1 => condition = 1 \/ valThread = valTab
  BY DEF Ajoute, Signal, PasPerdu
<1>3. Comptes' = Comptes
  BY <1>1 DEF Comptes
<1>4. val' = {u \in Ajouts : pc'[u] = "fin"}
  BY <1>1
<1>5. Compteur'
  BY <1>1, <1>3 DEF Compteur
<1>6. ~SeDetachent /\ valThread = valTab => val' = Ajouts
  <2> SUFFICES ASSUME ~SeDetachent, valThread = valTab, NEW u \in Ajouts, u # t
               PROVE  pc[u] = "fin"
    BY <1>1, <1>4
  <2>1. u \in Comptes
    BY ComptesFinite DEF Compteur
  <2> QED BY <1>1, <2>1 DEF Comptes, Section
<1>7. Section'
  BY <1>1, <1>2, <1>6 DEF Section
<1> QED BY <1>1, <1>2, <1>4, <1>5, <1>7 DEF SommeComplete, PasPerdu

(* The display thread sleeps only after it has read condition = 0 under    *)
(* the mutex, and leaves only after it has read 1.                         *)
LEMMA AttenteOK ==
  ASSUME IInv, UNCHANGED fini,
         Detache(Attente) \/ LockAttente \/ Dort \/ Sort \/ Affiche \/ Intempestif
  PROVE  IInv'
<1> USE DEF IInv, Lieux, MoniteurTypeOK, SeDetachent, Goto, mvars, svars
<1>1. Comptes' = Comptes /\ reg' = reg /\ valThread' = valThread /\ prog' = prog /\ val' = val
  BY DEF Comptes, Detache, LockAttente, Dort, Sort, Affiche, Intempestif
<1>2. Compteur'
  BY <1>1 DEF Compteur
<1>3. CASE Detache(Attente)
  BY <1>1, <1>2, <1>3 DEF Detache, Section, SommeComplete, PasPerdu
<1>4. CASE LockAttente
  BY <1>1, <1>2, <1>4 DEF LockAttente, Lock, Section, SommeComplete, PasPerdu
<1>5. CASE Dort
  <2>1. /\ attente' = [attente EXCEPT !["cond"] = @ \cup {Attente}]
        /\ condition = 0 /\ mutex = Attente /\ mutex' = Personne
        /\ UNCHANGED <<condition, affiche, pc>>
    BY <1>5 DEF Dort, CondWait, Unlock
  <2> QED BY <1>1, <1>2, <2>1 DEF Section, SommeComplete, PasPerdu
<1>6. CASE Sort
  <2>1. /\ pc' = [pc EXCEPT ![Attente] = "affiche"] /\ pc[Attente] = "lock"
        /\ condition = 1 /\ mutex = Attente /\ mutex' = Personne
        /\ UNCHANGED <<attente, condition, affiche>>
    BY <1>6 DEF Sort, Unlock
  <2>2. Lieux' /\ Section'
    BY <1>1, <2>1 DEF Section
  <2> QED BY <1>1, <1>2, <2>1, <2>2 DEF SommeComplete, PasPerdu
<1>7. CASE Affiche
  <2>1. /\ pc' = [pc EXCEPT ![Attente] = "fin"] /\ pc[Attente] = "affiche"
        /\ affiche' = affiche \cup {val} /\ val \subseteq Ajouts
        /\ UNCHANGED <<mutex, attente, condition>>
    BY <1>7 DEF Affiche
  <2>2. Lieux' /\ Section'
    BY <1>1, <2>1 DEF Section
  <2>3. SommeComplete'
    BY <1>1, <2>1 DEF SommeComplete, Section
  <2> QED BY <1>1, <1>2, <2>1, <2>2, <2>3 DEF PasPerdu
<1>8. CASE Intempestif
  <2>1. /\ attente' = [attente EXCEPT !["cond"] = @ \ {Attente}]
        /\ UNCHANGED <<mutex, condition, affiche, pc>>
    BY <1>8 DEF Intempestif, ReveilIntempestif
  <2> QED BY <1>1, <1>2, <2>1 DEF Section, SommeComplete, PasPerdu
<1> QED BY <1>3, <1>4, <1>5, <1>6, <1>7, <1>8

LEMMA StepOK == IInv /\ [Next]_vars => IInv'
<1> SUFFICES ASSUME IInv, [Next]_vars PROVE IInv'
  OBVIOUS
<1> USE DEF mvars, svars
<1>1. ASSUME NEW t \in Ajouts, LockAjout(t), UNCHANGED fini
      PROVE  IInv'
  BY <1>1 DEF LockAjout, Lock, IInv, Lieux, Compteur, Comptes, Section, MoniteurTypeOK,
              SeDetachent, SommeComplete, PasPerdu
<1>2. CASE Main \/ UNCHANGED vars
  <2>1. UNCHANGED <<mutex, attente, prog, valThread, val, condition, affiche, pc, reg>> /\ fini' \in BOOLEAN
    BY <1>2 DEF Main, vars, IInv
  <2>2. Comptes' = Comptes
    BY <2>1 DEF Comptes
  <2> QED BY <2>1, <2>2 DEF IInv, Lieux, Compteur, Section, MoniteurTypeOK, SeDetachent,
                            SommeComplete, PasPerdu
<1> QED BY <1>1, <1>2, ChargeOK, CompteOK, AjouteOK, AttenteOK
        DEF Next, funcThread, funcAttente

LEMMA SommeInvariant == MCSpec => []IInv
<1>1. MCInit => IInv
  BY InitOK DEF MCInit
<1>2. IInv /\ [MCNext]_<<exo, vars, ovars, fvars>> => IInv'
  BY StepOK DEF MCNext
<1> QED BY <1>1, <1>2, PTL DEF MCSpec

(* The counters stay within the number of adding threads, lost increments  *)
(* included.                                                               *)
THEOREM SommeTyped == MCSpec => []TypeOK
<1>1. IInv => TypeOK
  BY ComptesFinite DEF IInv, Lieux, Compteur, TypeOK
<1> QED BY <1>1, SommeInvariant, PTL

(* In the two programs that count under the mutex, nothing else than the   *)
(* complete sum is ever displayed.                                         *)
THEOREM SommeEstComplete == MCSpec => []SommeComplete
<1>1. IInv => SommeComplete
  BY DEF IInv
<1> QED BY <1>1, SommeInvariant, PTL

(* In the three programs, the display thread does not sleep once the       *)
(* condition is raised.                                                    *)
THEOREM SommeReveille == MCSpec => []PasPerdu
<1>1. IInv => PasPerdu
  BY DEF IInv
<1> QED BY <1>1, SommeInvariant, PTL
=============================================================================

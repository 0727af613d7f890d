----------------------------- MODULE PileProofs -----------------------------
(* Proofs about the shared stack, for any number of producers, of          *)
(* consumers and of characters and any STACK_SIZE. Its types hold in every *)
(* program, the rest in those whose tests are coherent (the two that are   *)
(* full at STACK_SIZE).                                                    *)
EXTENDS Pile, TLAPS

(* What NoLostWakeup needs to be kept by every step: the threads wait on   *)
(* their own condition, the producer inside push holds a character, and    *)
(* stack_size stays between the values of the two tests (TypeOK).          *)
Attentes ==
    /\ attente \in [Conds -> SUBSET Threads]
    /\ attente["car"] \subseteq prog.cons
    /\ attente["place"] \subseteq prog.prod

Tenant == \A p \in Producteurs : mutex = p => main[p] \in Cars

Typed == TypeOK /\ Tenant

IInv ==
    /\ TypeOK
    /\ Attentes
    /\ Tenant
    /\ NoLostWakeup

(* The other two programs lose wakeups: nothing is claimed of them.        *)
CInv == Coherent(prog) => IInv

USE DEF Rien, Eof

(* Broadcast and Signal only take threads out of the one condition.        *)
LEMMA ReveilOK ==
  ASSUME Attentes, NEW c \in Conds, NEW att \in Reveil(c)
  PROVE  /\ att \in [Conds -> SUBSET Threads]
         /\ \A d \in Conds : att[d] \subseteq attente[d]
         /\ \A d \in Conds : d # c => att[d] = attente[d]
         /\ prog.tous => att[c] = {}
         /\ (\A t, u \in attente[c] : t = u) => att[c] = {}
  BY DEF Reveil, Broadcast, Signal, Attentes

LEMMA ReveilType ==
  ASSUME MoniteurTypeOK, NEW c \in Conds, NEW att \in Reveil(c)
  PROVE  att \in [Conds -> SUBSET Threads]
  BY DEF Reveil, Broadcast, Signal, MoniteurTypeOK

LEMMA TypedInit == Init => Typed
<1> SUFFICES ASSUME Init PROVE Typed
  OBVIOUS
<1> USE PileAssumption, PersonneAssumption DEF Init, MoniteurInit
<1>1. MoniteurTypeOK /\ Tenant
  BY DEF MoniteurTypeOK, Tenant
<1>2. /\ prog \in [prod : SUBSET Producteurs, cons : SUBSET Consommateurs,
                   vide : {-1, 0}, init : {-1, 0}, plein : Nat, lit : {-1, 0},
                   premier : Int, libere : Int, tous : BOOLEAN]
      /\ prog.vide <= prog.init /\ prog.init <= prog.plein
  OBVIOUS
<1>3. stack_size \in prog.vide .. prog.plein
  BY <1>2
<1>4. /\ pile \in [Cases -> Cars \cup {Rien}] /\ (\A k \in Cases : pile[k] = Rien)
      /\ main \in [Producteurs -> Cars \cup {Rien, Eof}]
      /\ sortis \in [Cars -> Nat] /\ lu \in 0 .. Longueur
  OBVIOUS
<1> QED BY <1>1, <1>3, <1>4 DEF Typed, TypeOK

(* What the assumption says of the program that runs.                      *)
LEMMA ProgOK ==
  ASSUME TypeOK
  PROVE  /\ prog.prod \subseteq Producteurs /\ prog.cons \subseteq Consommateurs
         /\ prog.vide \in {-1, 0} /\ prog.plein \in Nat /\ prog.plein <= STACK_SIZE
         /\ prog.vide <= prog.plein /\ STACK_SIZE \in Nat
  BY PileAssumption DEF TypeOK

LEMMA TypedStep == Typed /\ [Next]_vars => Typed'
<1> SUFFICES ASSUME TypeOK, Tenant, [Next]_vars PROVE Typed'
  BY DEF Typed
<1> USE ProgOK, PileAssumption, PersonneAssumption DEF MoniteurTypeOK
<1>1. CASE UNCHANGED vars
  BY <1>1 DEF Typed, TypeOK, Tenant, vars, mvars
<1>2. ASSUME NEW p \in prog.prod, Push(p) PROVE Typed'
  <2>1. /\ main[p] \in Cars /\ prog' = prog /\ mutex' = Personne /\ lu' = lu /\ sortis' = sortis
        /\ stack_size' = stack_size + 1 /\ stack_size + 1 \in prog.vide + 1 .. prog.plein
        /\ main' = [main EXCEPT ![p] = Rien]
        /\ pile' = [pile EXCEPT ![stack_size + 1] = main[p]]
    BY <1>2 DEF Push, Unlock, TypeOK, Tenant
  <2>2. attente' \in [Conds -> SUBSET Threads]
    <3>1. CASE stack_size + 1 = prog.premier
      BY <1>2, <3>1, ReveilType DEF Push, TypeOK
    <3>2. CASE stack_size + 1 # prog.premier
      BY <1>2, <3>2 DEF Push, TypeOK
    <3> QED BY <3>1, <3>2
  <2>3. \A k \in Cases : k \notin prog.vide + 1 .. prog.plein => pile'[k] = Rien
    BY <2>1 DEF TypeOK
  <2>4. Tenant'
    BY <2>1 DEF Tenant
  <2>5. /\ pile' \in [Cases -> Cars \cup {Rien}]
        /\ main' \in [Producteurs -> Cars \cup {Rien, Eof}]
    BY <2>1 DEF TypeOK
  <2>6. stack_size' \in prog'.vide .. prog'.plein
    BY <2>1
  <2> QED BY <2>1, <2>2, <2>3, <2>4, <2>5, <2>6 DEF Typed, TypeOK
<1>3. ASSUME NEW c \in prog.cons, Pop(c) PROVE Typed'
  <2>1. /\ prog' = prog /\ mutex' = Personne /\ lu' = lu /\ main' = main /\ pile' = pile
        /\ stack_size' = stack_size - 1 /\ stack_size - 1 \in prog.vide .. prog.plein
    BY <1>3 DEF Pop, Unlock, TypeOK
  <2>2. attente' \in [Conds -> SUBSET Threads]
    <3>1. CASE stack_size - 1 = prog.libere
      BY <1>3, <3>1, ReveilType DEF Pop, TypeOK
    <3>2. CASE stack_size - 1 # prog.libere
      BY <1>3, <3>2 DEF Pop, TypeOK
    <3> QED BY <3>1, <3>2
  <2>3. sortis' \in [Cars -> Nat]
    BY <1>3 DEF Pop, TypeOK
  <2>4. Tenant'
    BY <2>1 DEF Tenant
  <2> QED BY <2>1, <2>2, <2>3, <2>4 DEF Typed, TypeOK
<1>4. ASSUME NEW p \in prog.prod, Getchar(p) PROVE Typed'
  <2>1. /\ lu' \in 0 .. Longueur /\ mutex # p
        /\ \E k \in Cars \cup {Eof} : main' = [main EXCEPT ![p] = k]
        /\ UNCHANGED <<prog, mutex, attente, stack_size, pile, sortis>>
    BY <1>4 DEF Getchar, Cars, TypeOK, Tenant, mvars
  <2> QED BY <2>1 DEF Typed, TypeOK, Tenant
<1>5. ASSUME NEW p \in prog.prod, PushLock(p) \/ PushWait(p) PROVE Typed'
  <2>1. p \in Threads /\ p \in Producteurs
    OBVIOUS
  <2>2. CASE PushLock(p)
    <3>1. main[p] \in Cars
      BY <2>1, <2>2 DEF PushLock, TypeOK, Cars
    <3> QED BY <2>1, <2>2, <3>1 DEF PushLock, Lock, Typed, TypeOK, Tenant
  <2>3. CASE PushWait(p)
    BY <2>1, <2>3 DEF PushWait, CondWait, Unlock, Typed, TypeOK, Tenant
  <2> QED BY <1>5, <2>2, <2>3
<1>6. ASSUME NEW c \in prog.cons, PopLock(c) \/ PopWait(c) PROVE Typed'
  <2>1. c \in Threads /\ c \notin Producteurs
    OBVIOUS
  <2>2. CASE PopLock(c)
    BY <2>1, <2>2 DEF PopLock, Lock, Typed, TypeOK, Tenant
  <2>3. CASE PopWait(c)
    BY <2>1, <2>3 DEF PopWait, CondWait, Unlock, Typed, TypeOK, Tenant
  <2> QED BY <1>6, <2>2, <2>3
<1>7. ASSUME NEW t \in Threads, Intempestif(t) PROVE Typed'
  BY <1>7 DEF Intempestif, ReveilIntempestif, Typed, TypeOK, Tenant
<1> QED BY <1>1, <1>2, <1>3, <1>4, <1>5, <1>6, <1>7 DEF Next, Producteur, Consommateur

(* In each of the four programs the top stays between the values that its  *)
(* two tests compare it with, and the cells outside of them are never      *)
(* written, whoever waits and is woken.                                    *)
THEOREM PileTyped == Spec => []TypeOK
<1>1. Typed => TypeOK
  BY DEF Typed
<1> QED BY <1>1, TypedInit, TypedStep, PTL DEF Spec

LEMMA InitOK == Coherent(prog) /\ Init => IInv
<1> SUFFICES ASSUME Coherent(prog), Init PROVE IInv
  OBVIOUS
<1> USE PileAssumption DEF Init, MoniteurInit
<1>1. Attentes /\ NoLostWakeup
  BY PersonneAssumption DEF Attentes, NoLostWakeup
<1> QED BY <1>1, TypedInit DEF IInv, Typed

(* A push ends with a stack that is not empty: nobody may still wait for a *)
(* character, and nobody waited for room.                                  *)
LEMMA PushOK ==
  ASSUME Coherent(prog), IInv, NEW p \in prog.prod, Push(p)
  PROVE  IInv'
<1> USE PileAssumption, PersonneAssumption DEF IInv, TypeOK, MoniteurTypeOK
<1>1. /\ main[p] \in Cars
      /\ prog' = prog /\ stack_size' = stack_size + 1 /\ stack_size \in -1 .. STACK_SIZE - 1
      /\ mutex' = Personne /\ lu' = lu /\ sortis' = sortis
      /\ main' = [main EXCEPT ![p] = Rien]
      /\ pile' = [pile EXCEPT ![stack_size + 1] = main[p]]
  BY DEF Push, Unlock, Coherent, Tenant
<1>2. Attentes' /\ attente'["car"] = {} /\ attente'["place"] = {}
  <2>1. attente["place"] = {}
    BY DEF Push, NoLostWakeup
  <2>2. CASE stack_size + 1 = prog.premier
    <3>1. attente' \in Reveil("car")
      BY <2>2 DEF Push
    <3>2. \A t, u \in prog.cons : ~prog.tous => t = u
      BY DEF Coherent
    <3> QED BY <2>1, <3>1, <3>2, ReveilOK DEF Attentes
  <2>3. CASE stack_size + 1 # prog.premier
    <3>1. attente' = attente
      BY <2>3 DEF Push
    <3>2. attente["car"] = {}
      BY <2>3 DEF NoLostWakeup, Coherent
    <3> QED BY <2>1, <3>1, <3>2 DEF Attentes
  <2> QED BY <2>2, <2>3
<1>3. TypeOK' /\ Tenant'
  BY TypedStep DEF Typed, Next, Producteur
<1> QED BY <1>1, <1>2, <1>3 DEF NoLostWakeup

(* A pop ends with a stack that is not full.                               *)
LEMMA PopOK ==
  ASSUME Coherent(prog), IInv, NEW c \in prog.cons, Pop(c)
  PROVE  IInv'
<1> USE PileAssumption, PersonneAssumption DEF IInv, TypeOK, MoniteurTypeOK
<1>1. /\ prog' = prog /\ stack_size' = stack_size - 1 /\ stack_size \in 0 .. STACK_SIZE
      /\ mutex' = Personne /\ lu' = lu /\ main' = main /\ pile' = pile
  BY DEF Pop, Unlock, Coherent
<1>2. Attentes' /\ attente'["car"] = {} /\ attente'["place"] = {}
  <2>1. attente["car"] = {}
    BY DEF Pop, NoLostWakeup
  <2>2. CASE stack_size - 1 = prog.libere
    <3>1. attente' \in Reveil("place")
      BY <2>2 DEF Pop
    <3>2. \A t, u \in prog.prod : ~prog.tous => t = u
      BY DEF Coherent
    <3> QED BY <2>1, <3>1, <3>2, ReveilOK DEF Attentes
  <2>3. CASE stack_size - 1 # prog.libere
    <3>1. attente' = attente
      BY <2>3 DEF Pop
    <3>2. attente["place"] = {}
      BY <2>3 DEF NoLostWakeup, Coherent
    <3> QED BY <2>1, <3>1, <3>2 DEF Attentes
  <2> QED BY <2>2, <2>3
<1>3. TypeOK' /\ Tenant'
  BY TypedStep DEF Typed, Next, Consommateur
<1> QED BY <1>1, <1>2, <1>3 DEF NoLostWakeup

(* The steps that leave the stack alone: a thread that starts to wait has  *)
(* just read the value it waits on, under the mutex.                       *)
LEMMA WaitOK ==
  ASSUME Coherent(prog), IInv,
         \/ \E p \in prog.prod : Getchar(p) \/ PushLock(p) \/ PushWait(p)
         \/ \E c \in prog.cons : PopLock(c) \/ PopWait(c)
         \/ \E t \in Threads : Intempestif(t)
         \/ UNCHANGED vars
  PROVE  IInv'
<1> USE PileAssumption, PersonneAssumption DEF IInv, TypeOK, MoniteurTypeOK, Attentes, Tenant, NoLostWakeup, mvars
<1>1. CASE \E p \in prog.prod : Getchar(p)
  <2>1. PICK p \in prog.prod : Getchar(p)
    BY <1>1
  <2>2. /\ lu' \in 0 .. Longueur /\ mutex # p
        /\ \E k \in Cars \cup {Eof} : main' = [main EXCEPT ![p] = k]
        /\ UNCHANGED <<prog, mutex, attente, stack_size, pile, sortis>>
    BY <2>1 DEF Getchar, Cars
  <2> QED BY <2>2
<1>2. CASE \E p \in prog.prod : PushLock(p)
  BY <1>2 DEF PushLock, Lock, Cars
<1>3. CASE \E p \in prog.prod : PushWait(p)
  <2>1. PICK p \in prog.prod : PushWait(p)
    BY <1>3
  <2>2. /\ attente' = [attente EXCEPT !["place"] = @ \cup {p}]
        /\ mutex' = Personne /\ stack_size = prog.plein
        /\ UNCHANGED <<prog, stack_size, pile, lu, main, sortis>>
    BY <2>1 DEF PushWait, CondWait, Unlock
  <2>3. attente'["car"] = attente["car"] /\ attente'["place"] = attente["place"] \cup {p}
    BY <2>2
  <2> QED BY <2>2, <2>3
<1>4. CASE \E c \in prog.cons : PopLock(c)
  BY <1>4 DEF PopLock, Lock
<1>5. CASE \E c \in prog.cons : PopWait(c)
  <2>1. PICK c \in prog.cons : PopWait(c)
    BY <1>5
  <2>2. /\ attente' = [attente EXCEPT !["car"] = @ \cup {c}]
        /\ mutex' = Personne /\ stack_size = prog.vide
        /\ UNCHANGED <<prog, stack_size, pile, lu, main, sortis>>
    BY <2>1 DEF PopWait, CondWait, Unlock, Coherent
  <2>3. attente'["car"] = attente["car"] \cup {c} /\ attente'["place"] = attente["place"]
    BY <2>2
  <2> QED BY <2>2, <2>3
<1>6. CASE \E t \in Threads : Intempestif(t)
  BY <1>6 DEF Intempestif, ReveilIntempestif
<1>7. CASE UNCHANGED vars
  BY <1>7 DEF vars
<1> QED BY <1>1, <1>2, <1>3, <1>4, <1>5, <1>6, <1>7

LEMMA StepOK == CInv /\ [Next]_vars => CInv'
<1> SUFFICES ASSUME CInv, [Next]_vars, Coherent(prog') PROVE IInv'
  BY DEF CInv
<1>1. prog' = prog
  BY DEF Next, vars, Producteur, Consommateur, Getchar, PushLock, PushWait, Push,
         PopLock, PopWait, Pop, Intempestif
<1>2. Coherent(prog) /\ IInv
  BY <1>1 DEF CInv
<1> QED BY <1>2, PushOK, PopOK, WaitOK DEF Next, Producteur, Consommateur

LEMMA PileInvariant == Spec => []CInv
<1>1. Init => CInv
  BY InitOK DEF CInv
<1>2. CInv /\ [Next]_vars => CInv'
  BY StepOK
<1> QED BY <1>1, <1>2, PTL DEF Spec

(* No wakeup is lost, whatever the number of threads when all the waiting  *)
(* ones are woken, with one of each kind when a signal wakes one.          *)
THEOREM PileWakes == Spec => []NoLostWakeup
<1>1. CInv => NoLostWakeup
  BY DEF CInv, IInv, NoLostWakeup
<1> QED BY <1>1, PileInvariant, PTL

-----------------------------------------------------------------------------
(* EachCarOnce, said of the character k without the sets of its places.    *)
UnePlace(k) ==
    /\ sortis[k] > 0 => /\ sortis[k] = 1
                        /\ \A p \in Producteurs : main[p] # k
                        /\ \A j \in Vivantes : pile[j] # k
    /\ \A p \in Producteurs, j \in Vivantes : ~(main[p] = k /\ pile[j] = k)
    /\ \A p, q \in Producteurs : main[p] = k /\ main[q] = k => p = q
    /\ \A j, l \in Vivantes : pile[j] = k /\ pile[l] = k => j = l
    /\ k <= lu <=> \/ sortis[k] > 0
                   \/ \E j \in Vivantes : pile[j] = k
                   \/ \E p \in Producteurs : main[p] = k

LEMMA UnePlaceSuffit == EachCarOnce <=> (Coherent(prog) => \A k \in Cars : UnePlace(k))
  BY DEF EachCarOnce, UnePlace

(* In a coherent program the live cells are those from 0 to stack_size.    *)
LEMMA VivantesDe == Coherent(prog) => Vivantes = {k \in Cases : 0 <= k /\ k <= stack_size}
  BY PileAssumption DEF Coherent, Vivantes, Cases

(* A push moves one character from its producer to the next cell.          *)
LEMMA PushUnePlace ==
  ASSUME Coherent(prog), IInv, NEW p \in prog.prod, Push(p), NEW k \in Cars, UnePlace(k)
  PROVE  UnePlace(k)'
<1> USE PileAssumption, PersonneAssumption
<1>1. /\ main[p] \in Cars /\ p \in Producteurs
      /\ prog' = prog /\ stack_size' = stack_size + 1 /\ stack_size \in -1 .. STACK_SIZE - 1
      /\ lu' = lu /\ sortis' = sortis /\ sortis[k] \in Nat
      /\ main' = [main EXCEPT ![p] = Rien] /\ main \in [Producteurs -> Cars \cup {Rien, Eof}]
      /\ pile' = [pile EXCEPT ![stack_size + 1] = main[p]] /\ pile \in [Cases -> Cars \cup {Rien}]
  BY DEF Push, Unlock, Coherent, IInv, TypeOK, Tenant
<1>2. Vivantes = {j \in Cases : 0 <= j /\ j <= stack_size}
  BY VivantesDe
<1>3. /\ Vivantes' = Vivantes \cup {stack_size + 1} /\ stack_size + 1 \notin Vivantes
      /\ stack_size + 1 \in Cases /\ Vivantes \subseteq Cases
  <2>1. Vivantes' = {j \in Cases : 0 <= j /\ j <= stack_size + 1}
    BY <1>1 DEF Vivantes, Coherent, Cases
  <2> QED BY <1>1, <1>2, <2>1 DEF Cases
<1>4. /\ \A j \in Vivantes : pile'[j] = pile[j]
      /\ pile'[stack_size + 1] = main[p]
  BY <1>1, <1>3
<1>5. main'[p] # k /\ \A q \in Producteurs \ {p} : main'[q] = main[q]
  BY <1>1 DEF Cars
<1> HIDE DEF Cars, Vivantes
<1>6. CASE main[p] = k
  BY <1>1, <1>3, <1>4, <1>5, <1>6 DEF UnePlace
<1>7. CASE main[p] # k
  BY <1>1, <1>3, <1>4, <1>5, <1>7 DEF UnePlace
<1> QED BY <1>6, <1>7

(* A pop moves one character from the last live cell out.                  *)
LEMMA PopUnePlace ==
  ASSUME Coherent(prog), IInv, NEW c \in prog.cons, Pop(c), NEW k \in Cars, UnePlace(k)
  PROVE  UnePlace(k)'
<1> USE PileAssumption, PersonneAssumption
<1>1. /\ stack_size' = stack_size - 1 /\ stack_size \in 0 .. STACK_SIZE
      /\ lu' = lu /\ main' = main /\ pile' = pile /\ prog' = prog
      /\ sortis' = IF pile[stack_size] \in Cars THEN [sortis EXCEPT ![pile[stack_size]] = @ + 1] ELSE sortis
      /\ sortis \in [Cars -> Nat]
  BY DEF Pop, Lue, Coherent, IInv, TypeOK
<1>2. /\ Vivantes' = Vivantes \ {stack_size} /\ stack_size \in Vivantes
  <2>1. Vivantes = {j \in Cases : 0 <= j /\ j <= stack_size}
    BY VivantesDe
  <2>2. Vivantes' = {j \in Cases : 0 <= j /\ j <= stack_size - 1}
    BY <1>1 DEF Vivantes, Coherent, Cases
  <2> QED BY <1>1, <2>1, <2>2 DEF Cases
<1>3. CASE pile[stack_size] = k
  <2>1. sortis'[k] = sortis[k] + 1
    BY <1>1, <1>3
  <2>2. sortis[k] = 0
    BY <1>1, <1>2, <1>3 DEF UnePlace
  <2>3. sortis'[k] = 1
    BY <2>1, <2>2
  <2> QED BY <1>1, <1>2, <1>3, <2>3 DEF UnePlace
<1>4. CASE pile[stack_size] # k
  <2>1. sortis'[k] = sortis[k]
    BY <1>1, <1>4
  <2> QED BY <1>1, <1>2, <1>4, <2>1 DEF UnePlace
<1> QED BY <1>3, <1>4

(* A character just read is nowhere yet; the other steps move none.        *)
LEMMA GetcharUnePlace ==
  ASSUME IInv, NEW p \in prog.prod, Getchar(p), NEW k \in Cars, UnePlace(k)
  PROVE  UnePlace(k)'
<1> USE PileAssumption
<1>1. /\ p \in Producteurs /\ main[p] = Rien /\ lu \in Nat
      /\ main \in [Producteurs -> Cars \cup {Rien, Eof}]
      /\ UNCHANGED <<prog, stack_size, pile, sortis>>
  BY DEF Getchar, IInv, TypeOK
<1>2. Vivantes' = Vivantes
  BY <1>1 DEF Vivantes
<1>3. CASE lu < Longueur
  <2>1. lu' = lu + 1 /\ main' = [main EXCEPT ![p] = lu + 1]
    BY <1>3 DEF Getchar
  <2>2. k <= lu' <=> k <= lu \/ k = lu + 1
    BY <1>1, <2>1 DEF Cars
  <2>3. main[p] # k /\ (k = lu + 1 => ~(k <= lu))
    BY <1>1 DEF Cars
  <2>4. \A q \in Producteurs : main'[q] = k <=> main[q] = k \/ (q = p /\ k = lu + 1)
    BY <1>1, <2>1, <2>3
  <2>5. CASE k = lu + 1
    BY <1>1, <1>2, <2>2, <2>3, <2>4, <2>5 DEF UnePlace
  <2>6. CASE k # lu + 1
    BY <1>1, <1>2, <2>2, <2>4, <2>6 DEF UnePlace
  <2> QED BY <2>5, <2>6
<1>4. CASE ~(lu < Longueur)
  <2>1. lu' = lu /\ main' = [main EXCEPT ![p] = Eof]
    BY <1>4 DEF Getchar
  <2>2. \A q \in Producteurs : main'[q] = k <=> main[q] = k
    BY <1>1, <2>1 DEF Cars
  <2> QED BY <1>1, <1>2, <2>1, <2>2 DEF UnePlace
<1> QED BY <1>3, <1>4

(* No character is lost, read twice or delivered twice.                    *)
THEOREM PileEachCarOnce == Spec => []EachCarOnce
<1> DEFINE Partout == Coherent(prog) => \A k \in Cars : UnePlace(k)
<1>1. Init => Partout
  <2> SUFFICES ASSUME Init, NEW k \in Cars, Coherent(prog) PROVE UnePlace(k)
    OBVIOUS
  <2>1. sortis[k] = 0 /\ ~(k <= lu) /\ k # Rien
    BY DEF Init, Cars
  <2>2. \A p \in Producteurs : main[p] # k
    BY <2>1 DEF Init
  <2>3. \A j \in Vivantes : pile[j] # k
    BY <2>1 DEF Init, Vivantes
  <2> QED BY <2>1, <2>2, <2>3 DEF UnePlace
<1>2. CInv /\ Partout /\ [Next]_vars => Partout'
  <2> SUFFICES ASSUME CInv, Partout, [Next]_vars, Coherent(prog'), NEW k \in Cars
               PROVE  UnePlace(k)'
    OBVIOUS
  <2>1. prog' = prog
    BY DEF Next, vars, Producteur, Consommateur, Getchar, PushLock, PushWait, Push,
           PopLock, PopWait, Pop, Intempestif
  <2>2. Coherent(prog) /\ IInv /\ UnePlace(k)
    BY <2>1 DEF CInv
  <2>3. CASE UNCHANGED <<prog, stack_size, pile, lu, main, sortis>>
    BY <2>2, <2>3 DEF UnePlace, Vivantes
  <2>4. CASE Next
    BY <2>2, <2>3, <2>4, PushUnePlace, PopUnePlace, GetcharUnePlace
      DEF Next, Producteur, Consommateur, PushLock, PushWait, PopLock, PopWait, Intempestif
  <2> QED BY <2>3, <2>4 DEF vars
<1> QED BY <1>1, <1>2, PileInvariant, UnePlaceSuffit, PTL DEF Spec
=============================================================================

--------------------------- MODULE PileSemProofs ---------------------------
(* Proofs about the stack in shared memory, for any number of producers,   *)
(* of consumers and of characters and any STACK_SIZE.                      *)
EXTENDS PileSem, FiniteSetTheorems, TLAPS

(* Each mutex is held by one process of its side, from the wait to the     *)
(* post: the one that is not at "mutex".                                   *)
Exclus ==
    /\ \A p, q \in Producteurs : pc[p] # "mutex" /\ pc[q] # "mutex" => p = q
    /\ \A c, d \in Consommateurs : pc[c] # "mutex" /\ pc[d] # "mutex" => c = d
    /\ \A p \in Producteurs : pc[p] # "mutex" => mutexpush = 0
    /\ \A c \in Consommateurs : pc[c] # "mutex" => mutexpop = 0

(* What a test has found stays true until the store, although the other    *)
(* side writes stack_size in between: a pop only stores less than          *)
(* STACK_SIZE, a push at least 0, even from a value loaded long before.    *)
Limites ==
    /\ stack_size \in -1 .. STACK_SIZE
    /\ \A p \in Producteurs :
        /\ pc[p] = "charge" => stack_size < STACK_SIZE
        /\ pc[p] = "range" => reg[p] \in -1 .. STACK_SIZE - 1
    /\ \A c \in Consommateurs :
        /\ pc[c] \in {"indice", "acces", "charge"} => stack_size >= 0
        /\ pc[c] \in {"acces", "range"} => reg[c] \in Cases

(* A producer holds a character from getchar to the end of push, a         *)
(* consumer from its read of the array to the end of pop; and nothing is   *)
(* anywhere before it is read.                                             *)
Mains ==
    /\ \A p \in Producteurs : pc[p] # "mutex" => main[p] # Rien
    /\ \A c \in Consommateurs : pc[c] \notin {"charge", "range", "reveil", "post"} => main[c] = Rien
    /\ \A t \in Processus : main[t] <= lu
    /\ \A j \in Cases : ptr[j] <= lu
    /\ \A k \in Cars : k > lu => sortis[k] = 0

SansDeux == \A p \in Producteurs, c \in Consommateurs : ~(pc[p] \in Section /\ pc[c] \in Section)

(* Until a push and a pop overlap, what was loaded is what is there.       *)
Seuls ==
    ~chevauche =>
        /\ SansDeux
        /\ \A p \in Producteurs :
            /\ pc[p] \in {"range", "acces"} => reg[p] = stack_size
            /\ pc[p] \in {"indice", "acces", "reveil"} => stack_size >= 0
        /\ \A c \in Consommateurs :
            /\ pc[c] \in {"acces", "range"} => reg[c] = stack_size
            /\ pc[c] \in {"indice", "acces", "charge", "range"} => stack_size >= 0
            /\ pc[c] = "reveil" => stack_size < STACK_SIZE

(* One that waits without a post to take: the stack is still as it found   *)
(* it, or the other side is about to post.                                 *)
Attentes ==
    ~chevauche =>
        /\ \A c \in Consommateurs : pc[c] = "attend" /\ mutexCondPop = 0 =>
            stack_size = IF Dans(Producteurs, {"indice", "acces", "reveil"}) THEN 0 ELSE -1
        /\ \A p \in Producteurs : pc[p] = "attend" /\ mutexCondPush = 0 =>
            stack_size = IF Dans(Consommateurs, {"reveil"}) THEN STACK_SIZE - 1 ELSE STACK_SIZE

(* EachCarOnce, said of the character k without cardinalities.             *)
Tenants(k)  == {t \in Processus : main[t] = k /\ ~(t \in Producteurs /\ pc[t] \in {"reveil", "post"})}
Cellules(k) == {j \in Pleines : ptr[j] = k}
UnePlace(k) ==
    \/ sortis[k] = 1 /\ Tenants(k) = {} /\ Cellules(k) = {}
    \/ sortis[k] = 0 /\ (\E t \in Processus : Tenants(k) = {t}) /\ Cellules(k) = {}
    \/ sortis[k] = 0 /\ Tenants(k) = {} /\ \E j \in Cases : Cellules(k) = {j}
Places == ~chevauche => \A k \in Cars : k <= lu => UnePlace(k)

IInv == TypeOK /\ Exclus /\ Limites /\ Mains /\ Seuls /\ Attentes /\ Places

Lieux == Section \cup {"mutex", "test", "attend", "post", "mort"}

USE PileSemAssumption DEF Rien

LEMMA InitOK == Init => IInv
<1> SUFFICES ASSUME Init PROVE IInv
  OBVIOUS
<1> USE DEF Init
<1>1. \A t \in Processus : pc[t] = "mutex" /\ main[t] = Rien
  OBVIOUS
<1>2. TypeOK
  <2>1. /\ lu \in 0 .. Longueur /\ sortis \in [Cars -> Nat]
        /\ mutexCondPush \in Nat /\ mutexCondPop \in Nat /\ stack_size \in Int
    OBVIOUS
  <2>2. /\ ptr \in [Cases -> Cars \cup {Rien}]
        /\ main \in [Processus -> Cars \cup {Rien}] /\ reg \in [Processus -> Int]
        /\ pc \in [Processus -> Section \cup {"mutex", "test", "attend", "post", "mort"}]
    OBVIOUS
  <2>3. mutexpush \in {0, 1} /\ mutexpop \in {0, 1} /\ chevauche \in BOOLEAN
    OBVIOUS
  <2> QED BY <2>1, <2>2, <2>3 DEF TypeOK
<1>3. Exclus
  BY <1>1 DEF Exclus, Processus
<1>4. Limites
  BY <1>1 DEF Limites, Processus
<1>5. Mains
  BY <1>1 DEF Mains, Processus
<1>6. Seuls /\ Attentes
  BY <1>1 DEF Seuls, Attentes, Section, SansDeux, Processus
<1>7. Places
  BY DEF Places, Cars
<1> QED BY <1>2, <1>3, <1>4, <1>5, <1>6, <1>7 DEF IInv

(* A step moves one process, and knows whether it makes an overlap.        *)
LEMMA VaOK ==
  ASSUME TypeOK, NEW t \in Processus, NEW from, NEW to \in Lieux, Va(t, from, to)
  PROVE  /\ pc[t] = from /\ pc'[t] = to /\ pc' \in [Processus -> Lieux]
         /\ \A u \in Processus : u # t => pc'[u] = pc[u]
         /\ chevauche' \in BOOLEAN
         /\ ~chevauche' => ~chevauche
         /\ ~chevauche' => SansDeux'
<1>1. pc[t] = from /\ pc' = [pc EXCEPT ![t] = to]
  BY DEF Va
<1>2. pc \in [Processus -> Lieux]
  BY DEF TypeOK, Lieux
<1>3. chevauche' = (chevauche \/ \E p \in Producteurs, c \in Consommateurs :
                                    pc'[p] \in Section /\ pc'[c] \in Section)
  BY DEF Va
<1>4. pc'[t] = to /\ pc' \in [Processus -> Lieux] /\ \A u \in Processus : u # t => pc'[u] = pc[u]
  BY <1>1, <1>2
<1> QED BY <1>1, <1>3, <1>4 DEF TypeOK, SansDeux

LEMMA CotesOK ==
    /\ \A p \in Producteurs : p \in Processus /\ p \notin Consommateurs
    /\ \A c \in Consommateurs : c \in Processus /\ c \notin Producteurs
  BY DEF Processus

LEMMA LoadOK ==
  ASSUME TypeOK, NEW t \in Processus, Load(t)
  PROVE  /\ reg'[t] = stack_size /\ reg' \in [Processus -> Int]
         /\ \A u \in Processus : u # t => reg'[u] = reg[u]
  BY DEF TypeOK, Load

(* The steps that move no character: the holders, the cells that count and *)
(* what they hold are the same.                                            *)
LEMMA NeutreOK ==
  ASSUME Places, ~chevauche' => ~chevauche, UNCHANGED <<lu, sortis, ptr>>,
         ~chevauche' => Pleines' = Pleines,
         \A k \in Cars : Tenants(k)' = Tenants(k)
  PROVE  Places'
  BY DEF Places, UnePlace, Cellules

LEMMA PleinesOK ==
  ASSUME UNCHANGED stack_size, EnTrain' = EnTrain
  PROVE  Pleines' = Pleines
  BY DEF Pleines

(* The steps that touch neither stack_size nor a character: the mutexes,   *)
(* the tests, the loads and the posts.  A test that waits has just found   *)
(* the stack full or empty; a post that is due is made.                    *)
LEMMA PushMutexOK ==
  ASSUME IInv, NEW p \in Producteurs, PushMutex(p)
  PROVE  IInv'
<1>0. p \in Processus /\ p \notin Consommateurs /\ TypeOK
  BY CotesOK DEF IInv
<1>1. /\ pc[p] = "mutex" /\ pc'[p] = "test" /\ pc' \in [Processus -> Lieux]
      /\ \A u \in Processus : u # p => pc'[u] = pc[u]
  BY <1>0, VaOK DEF PushMutex, Lieux, Section, SansDeux
<1>2. /\ chevauche' \in BOOLEAN
      /\ ~chevauche' => ~chevauche
      /\ ~chevauche' => SansDeux'
  BY <1>0, VaOK DEF PushMutex, Lieux, Section, SansDeux
<1>3. UNCHANGED <<mutexpop, mutexCondPush, mutexCondPop, stack_size, ptr, reg, lu, main, sortis>>
  BY DEF PushMutex, sems, Segment, entree
<1>4. mutexpush = 1 /\ mutexpush' = 0 /\ main[p] # Rien
  BY <1>0 DEF PushMutex, TypeOK
<1>5. TypeOK'
  BY <1>2, <1>0, <1>1, <1>3, <1>4 DEF TypeOK, Lieux, Cars
<1>6. Exclus'
  BY <1>0, <1>1, <1>3, <1>4, CotesOK DEF IInv, TypeOK, Exclus
<1>7. Limites'
  BY <1>0, <1>1, <1>3, <1>4, CotesOK DEF IInv, TypeOK, Exclus, Limites, Cases
<1>8. Mains'
  BY <1>0, <1>1, <1>3, <1>4, CotesOK DEF IInv, TypeOK, Mains
<1>9. Seuls'
  BY <1>2, <1>0, <1>1, <1>3, <1>4, CotesOK
    DEF IInv, TypeOK, Exclus, Limites, Seuls, Section, SansDeux
<1>10. Attentes'
  BY <1>2, <1>0, <1>1, <1>3, <1>4, CotesOK
    DEF IInv, TypeOK, Exclus, Limites, Seuls, Attentes, Section, SansDeux, Dans
<1>11. Places'
  <2>1. Pleines' = Pleines
    <3>1. EnTrain' = EnTrain
      BY <1>0, <1>1, <1>3, <1>4, CotesOK DEF EnTrain, Dans
    <3> QED BY <1>3, <3>1, PleinesOK
  <2>2. \A k \in Cars : Tenants(k)' = Tenants(k)
    BY <1>0, <1>1, <1>3, <1>4, CotesOK DEF Tenants
  <2> QED BY <1>2, <1>3, <2>1, <2>2, NeutreOK DEF IInv
<1> QED BY <1>5, <1>6, <1>7, <1>8, <1>9, <1>10, <1>11 DEF IInv

LEMMA PushTestOK ==
  ASSUME IInv, NEW p \in Producteurs, PushTest(p)
  PROVE  IInv'
<1>0. p \in Processus /\ p \notin Consommateurs /\ TypeOK
  BY CotesOK DEF IInv
<1>1. /\ pc[p] = "test" /\ pc'[p] = (IF stack_size = STACK_SIZE THEN "attend" ELSE "charge")
      /\ pc' \in [Processus -> Lieux]
      /\ \A u \in Processus : u # p => pc'[u] = pc[u]
  BY <1>0, VaOK DEF PushTest, Lieux, Section, SansDeux
<1>2. /\ chevauche' \in BOOLEAN
      /\ ~chevauche' => ~chevauche
      /\ ~chevauche' => SansDeux'
  BY <1>0, VaOK DEF PushTest, Lieux, Section, SansDeux
<1>3. UNCHANGED <<mutexpush, mutexpop, mutexCondPush, mutexCondPop,
                stack_size, ptr, reg, lu, main, sortis>>
  BY DEF PushTest, sems, Segment, entree
<1>5. TypeOK'
  BY <1>2, <1>0, <1>1, <1>3 DEF TypeOK, Lieux, Cars
<1>6. Exclus'
  BY <1>0, <1>1, <1>3, CotesOK DEF IInv, TypeOK, Exclus
<1>7. Limites'
  BY <1>0, <1>1, <1>3, CotesOK DEF IInv, TypeOK, Exclus, Limites, Cases
<1>8. Mains'
  BY <1>0, <1>1, <1>3, CotesOK DEF IInv, TypeOK, Mains
<1>9. Seuls'
  BY <1>2, <1>0, <1>1, <1>3, CotesOK DEF IInv, TypeOK, Exclus, Limites, Seuls, Section, SansDeux
<1>10. Attentes'
  BY <1>2, <1>0, <1>1, <1>3, CotesOK
    DEF IInv, TypeOK, Exclus, Limites, Seuls, Attentes, Section, SansDeux, Dans
<1>11. Places'
  <2>1. Pleines' = Pleines
    <3>1. EnTrain' = EnTrain
      BY <1>0, <1>1, <1>3, CotesOK DEF EnTrain, Dans
    <3> QED BY <1>3, <3>1, PleinesOK
  <2>2. \A k \in Cars : Tenants(k)' = Tenants(k)
    BY <1>0, <1>1, <1>3, CotesOK DEF Tenants
  <2> QED BY <1>2, <1>3, <2>1, <2>2, NeutreOK DEF IInv
<1> QED BY <1>5, <1>6, <1>7, <1>8, <1>9, <1>10, <1>11 DEF IInv

LEMMA PushAttendOK ==
  ASSUME IInv, NEW p \in Producteurs, PushAttend(p)
  PROVE  IInv'
<1>0. p \in Processus /\ p \notin Consommateurs /\ TypeOK
  BY CotesOK DEF IInv
<1>1. /\ pc[p] = "attend" /\ pc'[p] = "test" /\ pc' \in [Processus -> Lieux]
      /\ \A u \in Processus : u # p => pc'[u] = pc[u]
  BY <1>0, VaOK DEF PushAttend, Lieux, Section, SansDeux
<1>2. /\ chevauche' \in BOOLEAN
      /\ ~chevauche' => ~chevauche
      /\ ~chevauche' => SansDeux'
  BY <1>0, VaOK DEF PushAttend, Lieux, Section, SansDeux
<1>3. UNCHANGED <<mutexpush, mutexpop, mutexCondPop, stack_size, ptr, reg, lu, main, sortis>>
  BY DEF PushAttend, sems, Segment, entree
<1>4. mutexCondPush > 0 /\ mutexCondPush' = mutexCondPush - 1
  BY DEF PushAttend
<1>5. TypeOK'
  BY <1>2, <1>0, <1>1, <1>3, <1>4 DEF TypeOK, Lieux, Cars
<1>6. Exclus'
  BY <1>0, <1>1, <1>3, <1>4, CotesOK DEF IInv, TypeOK, Exclus
<1>7. Limites'
  BY <1>0, <1>1, <1>3, <1>4, CotesOK DEF IInv, TypeOK, Exclus, Limites, Cases
<1>8. Mains'
  BY <1>0, <1>1, <1>3, <1>4, CotesOK DEF IInv, TypeOK, Mains
<1>9. Seuls'
  BY <1>2, <1>0, <1>1, <1>3, <1>4, CotesOK
    DEF IInv, TypeOK, Exclus, Limites, Seuls, Section, SansDeux
<1>10. Attentes'
  BY <1>2, <1>0, <1>1, <1>3, <1>4, CotesOK
    DEF IInv, TypeOK, Exclus, Limites, Seuls, Attentes, Section, SansDeux, Dans
<1>11. Places'
  <2>1. Pleines' = Pleines
    <3>1. EnTrain' = EnTrain
      BY <1>0, <1>1, <1>3, <1>4, CotesOK DEF EnTrain, Dans
    <3> QED BY <1>3, <3>1, PleinesOK
  <2>2. \A k \in Cars : Tenants(k)' = Tenants(k)
    BY <1>0, <1>1, <1>3, <1>4, CotesOK DEF Tenants
  <2> QED BY <1>2, <1>3, <2>1, <2>2, NeutreOK DEF IInv
<1> QED BY <1>5, <1>6, <1>7, <1>8, <1>9, <1>10, <1>11 DEF IInv

LEMMA PushChargeOK ==
  ASSUME IInv, NEW p \in Producteurs, PushCharge(p)
  PROVE  IInv'
<1>0. p \in Processus /\ p \notin Consommateurs /\ TypeOK
  BY CotesOK DEF IInv
<1>1. /\ pc[p] = "charge" /\ pc'[p] = "range" /\ pc' \in [Processus -> Lieux]
      /\ \A u \in Processus : u # p => pc'[u] = pc[u]
  BY <1>0, VaOK DEF PushCharge, Lieux, Section, SansDeux
<1>2. /\ chevauche' \in BOOLEAN
      /\ ~chevauche' => ~chevauche
      /\ ~chevauche' => SansDeux'
  BY <1>0, VaOK DEF PushCharge, Lieux, Section, SansDeux
<1>3. UNCHANGED <<mutexpush, mutexpop, mutexCondPush, mutexCondPop,
                stack_size, ptr, lu, main, sortis>>
  BY DEF PushCharge, sems, Segment, entree
<1>4. /\ reg'[p] = stack_size /\ reg' \in [Processus -> Int]
      /\ \A u \in Processus : u # p => reg'[u] = reg[u]
  BY <1>0, LoadOK DEF PushCharge
<1>5. TypeOK'
  BY <1>2, <1>0, <1>1, <1>3, <1>4 DEF TypeOK, Lieux, Cars
<1>6. Exclus'
  BY <1>0, <1>1, <1>3, <1>4, CotesOK DEF IInv, TypeOK, Exclus
<1>7. Limites'
  BY <1>0, <1>1, <1>3, <1>4, CotesOK DEF IInv, TypeOK, Exclus, Limites, Cases
<1>8. Mains'
  BY <1>0, <1>1, <1>3, <1>4, CotesOK DEF IInv, TypeOK, Mains
<1>9. Seuls'
  BY <1>2, <1>0, <1>1, <1>3, <1>4, CotesOK
    DEF IInv, TypeOK, Exclus, Limites, Seuls, Section, SansDeux
<1>10. Attentes'
  BY <1>2, <1>0, <1>1, <1>3, <1>4, CotesOK
    DEF IInv, TypeOK, Exclus, Limites, Seuls, Attentes, Section, SansDeux, Dans
<1>11. Places'
  <2>1. Pleines' = Pleines
    <3>1. EnTrain' = EnTrain
      BY <1>0, <1>1, <1>3, <1>4, CotesOK DEF EnTrain, Dans
    <3> QED BY <1>3, <3>1, PleinesOK
  <2>2. \A k \in Cars : Tenants(k)' = Tenants(k)
    BY <1>0, <1>1, <1>3, <1>4, CotesOK DEF Tenants
  <2> QED BY <1>2, <1>3, <2>1, <2>2, NeutreOK DEF IInv
<1> QED BY <1>5, <1>6, <1>7, <1>8, <1>9, <1>10, <1>11 DEF IInv

LEMMA PushIndiceOK ==
  ASSUME IInv, NEW p \in Producteurs, PushIndice(p)
  PROVE  IInv'
<1>0. p \in Processus /\ p \notin Consommateurs /\ TypeOK
  BY CotesOK DEF IInv
<1>1. /\ pc[p] = "indice" /\ pc'[p] = "acces" /\ pc' \in [Processus -> Lieux]
      /\ \A u \in Processus : u # p => pc'[u] = pc[u]
  BY <1>0, VaOK DEF PushIndice, Lieux, Section, SansDeux
<1>2. /\ chevauche' \in BOOLEAN
      /\ ~chevauche' => ~chevauche
      /\ ~chevauche' => SansDeux'
  BY <1>0, VaOK DEF PushIndice, Lieux, Section, SansDeux
<1>3. UNCHANGED <<mutexpush, mutexpop, mutexCondPush, mutexCondPop,
                stack_size, ptr, lu, main, sortis>>
  BY DEF PushIndice, sems, Segment, entree
<1>4. /\ reg'[p] = stack_size /\ reg' \in [Processus -> Int]
      /\ \A u \in Processus : u # p => reg'[u] = reg[u]
  BY <1>0, LoadOK DEF PushIndice
<1>5. TypeOK'
  BY <1>2, <1>0, <1>1, <1>3, <1>4 DEF TypeOK, Lieux, Cars
<1>6. Exclus'
  BY <1>0, <1>1, <1>3, <1>4, CotesOK DEF IInv, TypeOK, Exclus
<1>7. Limites'
  BY <1>0, <1>1, <1>3, <1>4, CotesOK DEF IInv, TypeOK, Exclus, Limites, Cases
<1>8. Mains'
  BY <1>0, <1>1, <1>3, <1>4, CotesOK DEF IInv, TypeOK, Mains
<1>9. Seuls'
  BY <1>2, <1>0, <1>1, <1>3, <1>4, CotesOK
    DEF IInv, TypeOK, Exclus, Limites, Seuls, Section, SansDeux
<1>10. Attentes'
  BY <1>2, <1>0, <1>1, <1>3, <1>4, CotesOK
    DEF IInv, TypeOK, Exclus, Limites, Seuls, Attentes, Section, SansDeux, Dans
<1>11. Places'
  <2>1. Pleines' = Pleines
    <3>1. EnTrain' = EnTrain
      BY <1>0, <1>1, <1>3, <1>4, CotesOK DEF EnTrain, Dans
    <3> QED BY <1>3, <3>1, PleinesOK
  <2>2. \A k \in Cars : Tenants(k)' = Tenants(k)
    BY <1>0, <1>1, <1>3, <1>4, CotesOK DEF Tenants
  <2> QED BY <1>2, <1>3, <2>1, <2>2, NeutreOK DEF IInv
<1> QED BY <1>5, <1>6, <1>7, <1>8, <1>9, <1>10, <1>11 DEF IInv

LEMMA PushReveilOK ==
  ASSUME IInv, NEW p \in Producteurs, PushReveil(p)
  PROVE  IInv'
<1>0. p \in Processus /\ p \notin Consommateurs /\ TypeOK
  BY CotesOK DEF IInv
<1>1. /\ pc[p] = "reveil" /\ pc'[p] = "post" /\ pc' \in [Processus -> Lieux]
      /\ \A u \in Processus : u # p => pc'[u] = pc[u]
  BY <1>0, VaOK DEF PushReveil, Lieux, Section, SansDeux
<1>2. /\ chevauche' \in BOOLEAN
      /\ ~chevauche' => ~chevauche
      /\ ~chevauche' => SansDeux'
  BY <1>0, VaOK DEF PushReveil, Lieux, Section, SansDeux
<1>3. UNCHANGED <<mutexpush, mutexpop, mutexCondPush, stack_size, ptr, reg, lu, main, sortis>>
  BY DEF PushReveil, sems, Segment, entree
<1>4. mutexCondPop' = mutexCondPop + (IF stack_size = 0 THEN 1 ELSE 0)
  BY DEF PushReveil
<1>5. TypeOK'
  BY <1>2, <1>0, <1>1, <1>3, <1>4 DEF TypeOK, Lieux, Cars
<1>6. Exclus'
  BY <1>0, <1>1, <1>3, <1>4, CotesOK DEF IInv, TypeOK, Exclus
<1>7. Limites'
  BY <1>0, <1>1, <1>3, <1>4, CotesOK DEF IInv, TypeOK, Exclus, Limites, Cases
<1>8. Mains'
  BY <1>0, <1>1, <1>3, <1>4, CotesOK DEF IInv, TypeOK, Mains
<1>9. Seuls'
  BY <1>2, <1>0, <1>1, <1>3, <1>4, CotesOK
    DEF IInv, TypeOK, Exclus, Limites, Seuls, Section, SansDeux
<1>10. Attentes'
  BY <1>2, <1>0, <1>1, <1>3, <1>4, CotesOK
    DEF IInv, TypeOK, Exclus, Limites, Seuls, Attentes, Section, SansDeux, Dans
<1>11. Places'
  <2>1. Pleines' = Pleines
    <3>1. EnTrain' = EnTrain
      BY <1>0, <1>1, <1>3, <1>4, CotesOK DEF EnTrain, Dans
    <3> QED BY <1>3, <3>1, PleinesOK
  <2>2. \A k \in Cars : Tenants(k)' = Tenants(k)
    BY <1>0, <1>1, <1>3, <1>4, CotesOK DEF Tenants
  <2> QED BY <1>2, <1>3, <2>1, <2>2, NeutreOK DEF IInv
<1> QED BY <1>5, <1>6, <1>7, <1>8, <1>9, <1>10, <1>11 DEF IInv

LEMMA PopMutexOK ==
  ASSUME IInv, NEW c \in Consommateurs, PopMutex(c)
  PROVE  IInv'
<1>0. c \in Processus /\ c \notin Producteurs /\ TypeOK
  BY CotesOK DEF IInv
<1>1. /\ pc[c] = "mutex" /\ pc'[c] = "test" /\ pc' \in [Processus -> Lieux]
      /\ \A u \in Processus : u # c => pc'[u] = pc[u]
  BY <1>0, VaOK DEF PopMutex, Lieux, Section, SansDeux
<1>2. /\ chevauche' \in BOOLEAN
      /\ ~chevauche' => ~chevauche
      /\ ~chevauche' => SansDeux'
  BY <1>0, VaOK DEF PopMutex, Lieux, Section, SansDeux
<1>3. UNCHANGED <<mutexpush, mutexCondPush, mutexCondPop, stack_size, ptr, reg, lu, main, sortis>>
  BY DEF PopMutex, sems, Segment, entree
<1>4. mutexpop = 1 /\ mutexpop' = 0
  BY <1>0 DEF PopMutex, TypeOK
<1>5. TypeOK'
  BY <1>2, <1>0, <1>1, <1>3, <1>4 DEF TypeOK, Lieux, Cars
<1>6. Exclus'
  BY <1>0, <1>1, <1>3, <1>4, CotesOK DEF IInv, TypeOK, Exclus
<1>7. Limites'
  BY <1>0, <1>1, <1>3, <1>4, CotesOK DEF IInv, TypeOK, Exclus, Limites, Cases
<1>8. Mains'
  BY <1>0, <1>1, <1>3, <1>4, CotesOK DEF IInv, TypeOK, Mains
<1>9. Seuls'
  BY <1>2, <1>0, <1>1, <1>3, <1>4, CotesOK
    DEF IInv, TypeOK, Exclus, Limites, Seuls, Section, SansDeux
<1>10. Attentes'
  BY <1>2, <1>0, <1>1, <1>3, <1>4, CotesOK
    DEF IInv, TypeOK, Exclus, Limites, Seuls, Attentes, Section, SansDeux, Dans
<1>11. Places'
  <2>1. Pleines' = Pleines
    <3>1. EnTrain' = EnTrain
      BY <1>0, <1>1, <1>3, <1>4, CotesOK DEF EnTrain, Dans
    <3> QED BY <1>3, <3>1, PleinesOK
  <2>2. \A k \in Cars : Tenants(k)' = Tenants(k)
    BY <1>0, <1>1, <1>3, <1>4, CotesOK DEF Tenants
  <2> QED BY <1>2, <1>3, <2>1, <2>2, NeutreOK DEF IInv
<1> QED BY <1>5, <1>6, <1>7, <1>8, <1>9, <1>10, <1>11 DEF IInv

LEMMA PopTestOK ==
  ASSUME IInv, NEW c \in Consommateurs, PopTest(c)
  PROVE  IInv'
<1>0. c \in Processus /\ c \notin Producteurs /\ TypeOK
  BY CotesOK DEF IInv
<1>1. /\ pc[c] = "test" /\ pc'[c] = (IF stack_size = -1 THEN "attend" ELSE "indice")
      /\ pc' \in [Processus -> Lieux]
      /\ \A u \in Processus : u # c => pc'[u] = pc[u]
  BY <1>0, VaOK DEF PopTest, Lieux, Section, SansDeux
<1>2. /\ chevauche' \in BOOLEAN
      /\ ~chevauche' => ~chevauche
      /\ ~chevauche' => SansDeux'
  BY <1>0, VaOK DEF PopTest, Lieux, Section, SansDeux
<1>3. UNCHANGED <<mutexpush, mutexpop, mutexCondPush, mutexCondPop,
                stack_size, ptr, reg, lu, main, sortis>>
  BY DEF PopTest, sems, Segment, entree
<1>5. TypeOK'
  BY <1>2, <1>0, <1>1, <1>3 DEF TypeOK, Lieux, Cars
<1>6. Exclus'
  BY <1>0, <1>1, <1>3, CotesOK DEF IInv, TypeOK, Exclus
<1>7. Limites'
  BY <1>0, <1>1, <1>3, CotesOK DEF IInv, TypeOK, Exclus, Limites, Cases
<1>8. Mains'
  BY <1>0, <1>1, <1>3, CotesOK DEF IInv, TypeOK, Mains
<1>9. Seuls'
  BY <1>2, <1>0, <1>1, <1>3, CotesOK DEF IInv, TypeOK, Exclus, Limites, Seuls, Section, SansDeux
<1>10. Attentes'
  BY <1>2, <1>0, <1>1, <1>3, CotesOK
    DEF IInv, TypeOK, Exclus, Limites, Seuls, Attentes, Section, SansDeux, Dans
<1>11. Places'
  <2>1. Pleines' = Pleines
    <3>1. EnTrain' = EnTrain
      BY <1>0, <1>1, <1>3, CotesOK DEF EnTrain, Dans
    <3> QED BY <1>3, <3>1, PleinesOK
  <2>2. \A k \in Cars : Tenants(k)' = Tenants(k)
    BY <1>0, <1>1, <1>3, CotesOK DEF Tenants
  <2> QED BY <1>2, <1>3, <2>1, <2>2, NeutreOK DEF IInv
<1> QED BY <1>5, <1>6, <1>7, <1>8, <1>9, <1>10, <1>11 DEF IInv

LEMMA PopAttendOK ==
  ASSUME IInv, NEW c \in Consommateurs, PopAttend(c)
  PROVE  IInv'
<1>0. c \in Processus /\ c \notin Producteurs /\ TypeOK
  BY CotesOK DEF IInv
<1>1. /\ pc[c] = "attend" /\ pc'[c] = "test" /\ pc' \in [Processus -> Lieux]
      /\ \A u \in Processus : u # c => pc'[u] = pc[u]
  BY <1>0, VaOK DEF PopAttend, Lieux, Section, SansDeux
<1>2. /\ chevauche' \in BOOLEAN
      /\ ~chevauche' => ~chevauche
      /\ ~chevauche' => SansDeux'
  BY <1>0, VaOK DEF PopAttend, Lieux, Section, SansDeux
<1>3. UNCHANGED <<mutexpush, mutexpop, mutexCondPush, stack_size, ptr, reg, lu, main, sortis>>
  BY DEF PopAttend, sems, Segment, entree
<1>4. mutexCondPop > 0 /\ mutexCondPop' = mutexCondPop - 1
  BY DEF PopAttend
<1>5. TypeOK'
  BY <1>2, <1>0, <1>1, <1>3, <1>4 DEF TypeOK, Lieux, Cars
<1>6. Exclus'
  BY <1>0, <1>1, <1>3, <1>4, CotesOK DEF IInv, TypeOK, Exclus
<1>7. Limites'
  BY <1>0, <1>1, <1>3, <1>4, CotesOK DEF IInv, TypeOK, Exclus, Limites, Cases
<1>8. Mains'
  BY <1>0, <1>1, <1>3, <1>4, CotesOK DEF IInv, TypeOK, Mains
<1>9. Seuls'
  BY <1>2, <1>0, <1>1, <1>3, <1>4, CotesOK
    DEF IInv, TypeOK, Exclus, Limites, Seuls, Section, SansDeux
<1>10. Attentes'
  BY <1>2, <1>0, <1>1, <1>3, <1>4, CotesOK
    DEF IInv, TypeOK, Exclus, Limites, Seuls, Attentes, Section, SansDeux, Dans
<1>11. Places'
  <2>1. Pleines' = Pleines
    <3>1. EnTrain' = EnTrain
      BY <1>0, <1>1, <1>3, <1>4, CotesOK DEF EnTrain, Dans
    <3> QED BY <1>3, <3>1, PleinesOK
  <2>2. \A k \in Cars : Tenants(k)' = Tenants(k)
    BY <1>0, <1>1, <1>3, <1>4, CotesOK DEF Tenants
  <2> QED BY <1>2, <1>3, <2>1, <2>2, NeutreOK DEF IInv
<1> QED BY <1>5, <1>6, <1>7, <1>8, <1>9, <1>10, <1>11 DEF IInv

LEMMA PopIndiceOK ==
  ASSUME IInv, NEW c \in Consommateurs, PopIndice(c)
  PROVE  IInv'
<1>0. c \in Processus /\ c \notin Producteurs /\ TypeOK
  BY CotesOK DEF IInv
<1>1. /\ pc[c] = "indice" /\ pc'[c] = "acces" /\ pc' \in [Processus -> Lieux]
      /\ \A u \in Processus : u # c => pc'[u] = pc[u]
  BY <1>0, VaOK DEF PopIndice, Lieux, Section, SansDeux
<1>2. /\ chevauche' \in BOOLEAN
      /\ ~chevauche' => ~chevauche
      /\ ~chevauche' => SansDeux'
  BY <1>0, VaOK DEF PopIndice, Lieux, Section, SansDeux
<1>3. UNCHANGED <<mutexpush, mutexpop, mutexCondPush, mutexCondPop,
                stack_size, ptr, lu, main, sortis>>
  BY DEF PopIndice, sems, Segment, entree
<1>4. /\ reg'[c] = stack_size /\ reg' \in [Processus -> Int]
      /\ \A u \in Processus : u # c => reg'[u] = reg[u]
  BY <1>0, LoadOK DEF PopIndice
<1>5. TypeOK'
  BY <1>2, <1>0, <1>1, <1>3, <1>4 DEF TypeOK, Lieux, Cars
<1>6. Exclus'
  BY <1>0, <1>1, <1>3, <1>4, CotesOK DEF IInv, TypeOK, Exclus
<1>7. Limites'
  <2>1. stack_size \in Cases
    BY <1>1 DEF IInv, Limites, Cases
  <2> QED BY <1>0, <1>1, <1>3, <1>4, <2>1, CotesOK DEF IInv, Limites
<1>8. Mains'
  BY <1>0, <1>1, <1>3, <1>4, CotesOK DEF IInv, TypeOK, Mains
<1>9. Seuls'
  BY <1>2, <1>0, <1>1, <1>3, <1>4, CotesOK
    DEF IInv, TypeOK, Exclus, Limites, Seuls, Section, SansDeux
<1>10. Attentes'
  BY <1>2, <1>0, <1>1, <1>3, <1>4, CotesOK
    DEF IInv, TypeOK, Exclus, Limites, Seuls, Attentes, Section, SansDeux, Dans
<1>11. Places'
  <2>1. Pleines' = Pleines
    <3>1. EnTrain' = EnTrain
      BY <1>0, <1>1, <1>3, <1>4, CotesOK DEF EnTrain, Dans
    <3> QED BY <1>3, <3>1, PleinesOK
  <2>2. \A k \in Cars : Tenants(k)' = Tenants(k)
    BY <1>0, <1>1, <1>3, <1>4, CotesOK DEF Tenants
  <2> QED BY <1>2, <1>3, <2>1, <2>2, NeutreOK DEF IInv
<1> QED BY <1>5, <1>6, <1>7, <1>8, <1>9, <1>10, <1>11 DEF IInv

LEMMA PopChargeOK ==
  ASSUME IInv, NEW c \in Consommateurs, PopCharge(c)
  PROVE  IInv'
<1>0. c \in Processus /\ c \notin Producteurs /\ TypeOK
  BY CotesOK DEF IInv
<1>1. /\ pc[c] = "charge" /\ pc'[c] = "range" /\ pc' \in [Processus -> Lieux]
      /\ \A u \in Processus : u # c => pc'[u] = pc[u]
  BY <1>0, VaOK DEF PopCharge, Lieux, Section, SansDeux
<1>2. /\ chevauche' \in BOOLEAN
      /\ ~chevauche' => ~chevauche
      /\ ~chevauche' => SansDeux'
  BY <1>0, VaOK DEF PopCharge, Lieux, Section, SansDeux
<1>3. UNCHANGED <<mutexpush, mutexpop, mutexCondPush, mutexCondPop,
                stack_size, ptr, lu, main, sortis>>
  BY DEF PopCharge, sems, Segment, entree
<1>4. /\ reg'[c] = stack_size /\ reg' \in [Processus -> Int]
      /\ \A u \in Processus : u # c => reg'[u] = reg[u]
  BY <1>0, LoadOK DEF PopCharge
<1>5. TypeOK'
  BY <1>2, <1>0, <1>1, <1>3, <1>4 DEF TypeOK, Lieux, Cars
<1>6. Exclus'
  BY <1>0, <1>1, <1>3, <1>4, CotesOK DEF IInv, TypeOK, Exclus
<1>7. Limites'
  <2>1. stack_size \in Cases
    BY <1>1 DEF IInv, Limites, Cases
  <2> QED BY <1>0, <1>1, <1>3, <1>4, <2>1, CotesOK DEF IInv, Limites
<1>8. Mains'
  BY <1>0, <1>1, <1>3, <1>4, CotesOK DEF IInv, TypeOK, Mains
<1>9. Seuls'
  BY <1>2, <1>0, <1>1, <1>3, <1>4, CotesOK
    DEF IInv, TypeOK, Exclus, Limites, Seuls, Section, SansDeux
<1>10. Attentes'
  BY <1>2, <1>0, <1>1, <1>3, <1>4, CotesOK
    DEF IInv, TypeOK, Exclus, Limites, Seuls, Attentes, Section, SansDeux, Dans
<1>11. Places'
  <2>1. Pleines' = Pleines
    <3>1. EnTrain' = EnTrain
      BY <1>0, <1>1, <1>3, <1>4, CotesOK DEF EnTrain, Dans
    <3> QED BY <1>3, <3>1, PleinesOK
  <2>2. \A k \in Cars : Tenants(k)' = Tenants(k)
    BY <1>0, <1>1, <1>3, <1>4, CotesOK DEF Tenants
  <2> QED BY <1>2, <1>3, <2>1, <2>2, NeutreOK DEF IInv
<1> QED BY <1>5, <1>6, <1>7, <1>8, <1>9, <1>10, <1>11 DEF IInv

LEMMA PopReveilOK ==
  ASSUME IInv, NEW c \in Consommateurs, PopReveil(c)
  PROVE  IInv'
<1>0. c \in Processus /\ c \notin Producteurs /\ TypeOK
  BY CotesOK DEF IInv
<1>1. /\ pc[c] = "reveil" /\ pc'[c] = "post" /\ pc' \in [Processus -> Lieux]
      /\ \A u \in Processus : u # c => pc'[u] = pc[u]
  BY <1>0, VaOK DEF PopReveil, Lieux, Section, SansDeux
<1>2. /\ chevauche' \in BOOLEAN
      /\ ~chevauche' => ~chevauche
      /\ ~chevauche' => SansDeux'
  BY <1>0, VaOK DEF PopReveil, Lieux, Section, SansDeux
<1>3. UNCHANGED <<mutexpush, mutexpop, mutexCondPop, stack_size, ptr, reg, lu, main, sortis>>
  BY DEF PopReveil, sems, Segment, entree
<1>4. mutexCondPush' = mutexCondPush + (IF stack_size = STACK_SIZE - 1 THEN 1 ELSE 0)
  BY DEF PopReveil
<1>5. TypeOK'
  BY <1>2, <1>0, <1>1, <1>3, <1>4 DEF TypeOK, Lieux, Cars
<1>6. Exclus'
  BY <1>0, <1>1, <1>3, <1>4, CotesOK DEF IInv, TypeOK, Exclus
<1>7. Limites'
  BY <1>0, <1>1, <1>3, <1>4, CotesOK DEF IInv, TypeOK, Exclus, Limites, Cases
<1>8. Mains'
  BY <1>0, <1>1, <1>3, <1>4, CotesOK DEF IInv, TypeOK, Mains
<1>9. Seuls'
  BY <1>2, <1>0, <1>1, <1>3, <1>4, CotesOK
    DEF IInv, TypeOK, Exclus, Limites, Seuls, Section, SansDeux
<1>10. Attentes'
  BY <1>2, <1>0, <1>1, <1>3, <1>4, CotesOK
    DEF IInv, TypeOK, Exclus, Limites, Seuls, Attentes, Section, SansDeux, Dans
<1>11. Places'
  <2>1. Pleines' = Pleines
    <3>1. EnTrain' = EnTrain
      BY <1>0, <1>1, <1>3, <1>4, CotesOK DEF EnTrain, Dans
    <3> QED BY <1>3, <3>1, PleinesOK
  <2>2. \A k \in Cars : Tenants(k)' = Tenants(k)
    BY <1>0, <1>1, <1>3, <1>4, CotesOK DEF Tenants
  <2> QED BY <1>2, <1>3, <2>1, <2>2, NeutreOK DEF IInv
<1> QED BY <1>5, <1>6, <1>7, <1>8, <1>9, <1>10, <1>11 DEF IInv

(* A character just read is with its producer, and nowhere else.           *)
LEMMA GetcharOK ==
  ASSUME IInv, NEW p \in Producteurs, Getchar(p)
  PROVE  IInv'
<1>0. p \in Processus /\ p \notin Consommateurs /\ TypeOK
  BY CotesOK DEF IInv
<1>1. /\ pc[p] = "mutex" /\ main[p] = Rien
      /\ UNCHANGED <<mutexpush, mutexpop, mutexCondPush, mutexCondPop, stack_size, ptr, pc, reg, sortis, chevauche>>
  BY DEF Getchar, sems, Segment
<1>2. lu' = lu + 1 /\ lu' \in Cars /\ lu' \in 0 .. Longueur /\ lu \in Nat
  BY <1>0 DEF Getchar, TypeOK, Cars
<1>3. /\ main' \in [Processus -> Cars \cup {Rien}] /\ main'[p] = lu + 1
      /\ \A u \in Processus : u # p => main'[u] = main[u]
  BY <1>0, <1>2 DEF Getchar, TypeOK
<1>5. TypeOK'
  BY <1>0, <1>1, <1>2, <1>3 DEF TypeOK
<1>6. Exclus' /\ Limites' /\ Seuls' /\ Attentes'
  BY <1>1 DEF IInv, Exclus, Limites, Seuls, SansDeux, Attentes, Dans
<1>7. Mains'
  <2>1. /\ \A q \in Producteurs : pc'[q] # "mutex" => main'[q] # Rien
        /\ \A c \in Consommateurs : pc'[c] \notin {"charge", "range", "reveil", "post"} => main'[c] = Rien
    BY <1>0, <1>1, <1>3, CotesOK DEF IInv, Mains
  <2>2. \A t \in Processus : main[t] <= lu /\ main[t] \in Int
    BY <1>0 DEF IInv, Mains, TypeOK, Cars
  <2>3. \A j \in Cases : ptr[j] <= lu /\ ptr[j] \in Int
    BY <1>0 DEF IInv, Mains, TypeOK, Cars
  <2>4. \A t \in Processus : main'[t] <= lu'
    <3>1. main'[p] <= lu'
      BY <1>2, <1>3
    <3>2. \A t \in Processus : t # p => main'[t] <= lu'
      BY <1>2, <1>3, <2>2
    <3> QED BY <3>1, <3>2
  <2>5. \A j \in Cases : ptr'[j] <= lu'
    BY <1>1, <1>2, <2>3
  <2>6. \A k \in Cars : k > lu' => sortis'[k] = 0
    BY <1>1, <1>2 DEF IInv, Mains, Cars
  <2> QED BY <2>1, <2>4, <2>5, <2>6 DEF Mains
<1>8. Pleines' = Pleines
  BY <1>1 DEF Pleines, EnTrain, Dans
<1>9. ASSUME NEW k \in Cars, k <= lu', ~chevauche'
      PROVE  UnePlace(k)'
  <2>1. CASE k = lu + 1
    <3>1. sortis'[k] = 0 /\ \A j \in Cases : ptr'[j] # k
      BY <1>1, <1>2, <2>1 DEF IInv, Mains, TypeOK, Cars
    <3>2. \A u \in Processus : main[u] # k
      BY <1>2, <2>1 DEF IInv, Mains, TypeOK, Cars
    <3>3. Tenants(k)' = {p}
      BY <1>0, <1>1, <1>3, <2>1, <3>2 DEF Tenants
    <3>4. Cellules(k)' = {}
      BY <3>1 DEF Cellules, Pleines
    <3> QED BY <1>0, <3>1, <3>3, <3>4 DEF UnePlace
  <2>2. CASE k # lu + 1
    <3>1. UnePlace(k)
      BY <1>1, <1>2, <1>9, <2>2 DEF IInv, Places, Cars
    <3>2. Tenants(k)' = Tenants(k)
      BY <1>0, <1>1, <1>2, <1>3, <2>2 DEF Tenants, Cars
    <3>3. Cellules(k)' = Cellules(k)
      BY <1>1, <1>8 DEF Cellules
    <3> QED BY <1>1, <3>1, <3>2, <3>3 DEF UnePlace
  <2> QED BY <2>1, <2>2
<1>10. Places'
  BY <1>9 DEF Places
<1> QED BY <1>5, <1>6, <1>7, <1>10 DEF IInv

(* The store of a push: with nobody in pop it adds one to what it loaded,  *)
(* and the cell it opens does not count until it is written.               *)
LEMMA PushRangeOK ==
  ASSUME IInv, NEW p \in Producteurs, PushRange(p)
  PROVE  IInv'
<1>0. p \in Processus /\ p \notin Consommateurs /\ TypeOK
  BY CotesOK DEF IInv
<1>1. /\ pc[p] = "range" /\ pc'[p] = "indice" /\ pc' \in [Processus -> Lieux]
      /\ \A u \in Processus : u # p => pc'[u] = pc[u]
  BY <1>0, VaOK DEF PushRange, Lieux, Section, SansDeux
<1>2. /\ chevauche' \in BOOLEAN
      /\ ~chevauche' => ~chevauche
      /\ ~chevauche' => SansDeux'
  BY <1>0, VaOK DEF PushRange, Lieux, Section, SansDeux
<1>3. UNCHANGED <<mutexpush, mutexpop, mutexCondPush, mutexCondPop, ptr, reg, lu, main, sortis>>
  BY DEF PushRange, sems, Segment, entree
<1>4. stack_size' = reg[p] + 1
  BY DEF PushRange
<1>5. TypeOK'
  BY <1>2, <1>0, <1>1, <1>3, <1>4 DEF TypeOK, Lieux, Cars
<1>6. Exclus'
  BY <1>0, <1>1, <1>3, <1>4, CotesOK DEF IInv, TypeOK, Exclus
<1>7. Limites'
  <2>1. stack_size' \in 0 .. STACK_SIZE
    BY <1>0, <1>1, <1>4 DEF IInv, Limites
  <2>2. \A q \in Producteurs : q # p => pc[q] = "mutex"
    BY <1>1 DEF IInv, Exclus
  <2> QED BY <1>0, <1>1, <1>3, <2>1, <2>2, CotesOK DEF IInv, Limites
<1>8. Mains'
  BY <1>0, <1>1, <1>3, <1>4, CotesOK DEF IInv, TypeOK, Mains
<1>9. Seuls'
  BY <1>2, <1>0, <1>1, <1>3, <1>4, CotesOK
    DEF IInv, TypeOK, Exclus, Limites, Seuls, Section, SansDeux
<1>10. Attentes'
  BY <1>2, <1>0, <1>1, <1>3, <1>4, CotesOK
    DEF IInv, TypeOK, Exclus, Limites, Seuls, Attentes, Section, SansDeux, Dans
<1>11. Places'
  <2>1. ASSUME ~chevauche' PROVE Pleines' = Pleines
    <3>1. ~EnTrain
      BY <1>0, <1>1, <1>2, <2>1, CotesOK DEF EnTrain, Dans, IInv, Exclus, Seuls, Section, SansDeux
    <3>2. EnTrain'
      BY <1>1 DEF EnTrain, Dans
    <3>3. stack_size' = stack_size + 1 /\ stack_size \in Int
      BY <1>0, <1>1, <1>2, <1>4, <2>1 DEF IInv, Seuls, TypeOK
    <3>4. \A j \in Cases : (j < stack_size' \/ (j = stack_size' /\ ~EnTrain'))
                              <=> (j < stack_size \/ (j = stack_size /\ ~EnTrain))
      <4>1. \A j \in Cases : j < stack_size' <=> j < stack_size \/ j = stack_size
        BY <3>3 DEF Cases
      <4> QED BY <3>1, <3>2, <4>1
    <3> QED BY <3>4 DEF Pleines
  <2>2. \A k \in Cars : Tenants(k)' = Tenants(k)
    BY <1>0, <1>1, <1>3, CotesOK DEF Tenants
  <2> QED BY <1>2, <1>3, <2>1, <2>2, NeutreOK DEF IInv
<1> QED BY <1>5, <1>6, <1>7, <1>8, <1>9, <1>10, <1>11 DEF IInv

LEMMA PushPostOK ==
  ASSUME IInv, NEW p \in Producteurs, PushPost(p)
  PROVE  IInv'
<1>0. p \in Processus /\ p \notin Consommateurs /\ TypeOK
  BY CotesOK DEF IInv
<1>1. /\ pc[p] = "post" /\ pc'[p] = "mutex" /\ pc' \in [Processus -> Lieux]
      /\ \A u \in Processus : u # p => pc'[u] = pc[u]
  BY <1>0, VaOK DEF PushPost, Lieux, Section, SansDeux
<1>2. /\ chevauche' \in BOOLEAN
      /\ ~chevauche' => ~chevauche
      /\ ~chevauche' => SansDeux'
  BY <1>0, VaOK DEF PushPost, Lieux, Section, SansDeux
<1>3. UNCHANGED <<mutexpop, mutexCondPush, mutexCondPop, stack_size, ptr, reg, lu, sortis>>
  BY DEF PushPost, sems, Segment, entree
<1>4. /\ mutexpush = 0 /\ mutexpush' = 1 /\ main' \in [Processus -> Cars \cup {Rien}]
      /\ main'[p] = Rien /\ \A u \in Processus : u # p => main'[u] = main[u]
  BY <1>0, <1>1 DEF PushPost, TypeOK, IInv, Exclus
<1>5. TypeOK'
  BY <1>2, <1>0, <1>1, <1>3, <1>4 DEF TypeOK, Lieux, Cars
<1>6. Exclus'
  BY <1>0, <1>1, <1>3, <1>4, CotesOK DEF IInv, TypeOK, Exclus
<1>7. Limites'
  BY <1>0, <1>1, <1>3, <1>4, CotesOK DEF IInv, TypeOK, Exclus, Limites, Cases
<1>8. Mains'
  BY <1>0, <1>1, <1>3, <1>4, CotesOK DEF IInv, TypeOK, Mains
<1>9. Seuls'
  BY <1>2, <1>0, <1>1, <1>3, <1>4, CotesOK
    DEF IInv, TypeOK, Exclus, Limites, Seuls, Section, SansDeux
<1>10. Attentes'
  BY <1>2, <1>0, <1>1, <1>3, <1>4, CotesOK
    DEF IInv, TypeOK, Exclus, Limites, Seuls, Attentes, Section, SansDeux, Dans
<1>11. Places'
  <2>1. Pleines' = Pleines
    <3>1. EnTrain' = EnTrain
      BY <1>0, <1>1, <1>3, <1>4, CotesOK DEF EnTrain, Dans
    <3> QED BY <1>3, <3>1, PleinesOK
  <2>2. \A k \in Cars : Tenants(k)' = Tenants(k)
    BY <1>0, <1>1, <1>3, <1>4, CotesOK DEF Tenants, Cars
  <2> QED BY <1>2, <1>3, <2>1, <2>2, NeutreOK DEF IInv
<1> QED BY <1>5, <1>6, <1>7, <1>8, <1>9, <1>10, <1>11 DEF IInv

(* The store of a pop closes a cell that no longer counted.                *)
LEMMA PopRangeOK ==
  ASSUME IInv, NEW c \in Consommateurs, PopRange(c)
  PROVE  IInv'
<1>0. c \in Processus /\ c \notin Producteurs /\ TypeOK
  BY CotesOK DEF IInv
<1>1. /\ pc[c] = "range" /\ pc'[c] = "reveil" /\ pc' \in [Processus -> Lieux]
      /\ \A u \in Processus : u # c => pc'[u] = pc[u]
  BY <1>0, VaOK DEF PopRange, Lieux, Section, SansDeux
<1>2. /\ chevauche' \in BOOLEAN
      /\ ~chevauche' => ~chevauche
      /\ ~chevauche' => SansDeux'
  BY <1>0, VaOK DEF PopRange, Lieux, Section, SansDeux
<1>3. UNCHANGED <<mutexpush, mutexpop, mutexCondPush, mutexCondPop, ptr, reg, lu, main, sortis>>
  BY DEF PopRange, sems, Segment, entree
<1>4. stack_size' = reg[c] - 1
  BY DEF PopRange
<1>5. TypeOK'
  BY <1>2, <1>0, <1>1, <1>3, <1>4 DEF TypeOK, Lieux, Cars
<1>6. Exclus'
  BY <1>0, <1>1, <1>3, <1>4, CotesOK DEF IInv, TypeOK, Exclus
<1>7. Limites'
  <2>1. stack_size' \in -1 .. STACK_SIZE - 1
    BY <1>0, <1>1, <1>4 DEF IInv, Limites, Cases
  <2>2. \A d \in Consommateurs : d # c => pc[d] = "mutex"
    BY <1>1 DEF IInv, Exclus
  <2> QED BY <1>0, <1>1, <1>3, <2>1, <2>2, CotesOK DEF IInv, Limites
<1>8. Mains'
  BY <1>0, <1>1, <1>3, <1>4, CotesOK DEF IInv, TypeOK, Mains
<1>9. Seuls'
  BY <1>2, <1>0, <1>1, <1>3, <1>4, CotesOK
    DEF IInv, TypeOK, Exclus, Limites, Seuls, Section, SansDeux
<1>10. Attentes'
  BY <1>2, <1>0, <1>1, <1>3, <1>4, CotesOK
    DEF IInv, TypeOK, Exclus, Limites, Seuls, Attentes, Section, SansDeux, Dans
<1>11. Places'
  <2>1. ASSUME ~chevauche' PROVE Pleines' = Pleines
    <3>1. EnTrain
      BY <1>1 DEF EnTrain, Dans
    <3>2. ~EnTrain'
      BY <1>0, <1>1, <1>2, <2>1, CotesOK DEF EnTrain, Dans, IInv, Exclus, Seuls, Section, SansDeux
    <3>3. stack_size' = stack_size - 1 /\ stack_size \in Int
      BY <1>0, <1>1, <1>2, <1>4, <2>1 DEF IInv, Seuls, TypeOK
    <3>4. \A j \in Cases : (j < stack_size' \/ (j = stack_size' /\ ~EnTrain'))
                              <=> (j < stack_size \/ (j = stack_size /\ ~EnTrain))
      <4>1. \A j \in Cases : j < stack_size <=> j < stack_size' \/ j = stack_size'
        BY <3>3 DEF Cases
      <4> QED BY <3>1, <3>2, <4>1
    <3> QED BY <3>4 DEF Pleines
  <2>2. \A k \in Cars : Tenants(k)' = Tenants(k)
    BY <1>0, <1>1, <1>3, CotesOK DEF Tenants
  <2> QED BY <1>2, <1>3, <2>1, <2>2, NeutreOK DEF IInv
<1> QED BY <1>5, <1>6, <1>7, <1>8, <1>9, <1>10, <1>11 DEF IInv

(* The write of a push moves the character from its producer to the cell  *)
(* at stack_size; only an overlap makes the index -1.                      *)
LEMMA PushEcritOK ==
  ASSUME IInv, NEW p \in Producteurs, PushEcrit(p)
  PROVE  IInv'
<1>0. p \in Processus /\ p \notin Consommateurs /\ TypeOK
  BY CotesOK DEF IInv
<1>1. /\ pc[p] = "acces" /\ pc'[p] \in {"reveil", "mort"} /\ pc' \in [Processus -> Lieux]
      /\ \A u \in Processus : u # p => pc'[u] = pc[u]
  BY <1>0, VaOK DEF PushEcrit, Lieux, Section, SansDeux
<1>2. /\ chevauche' \in BOOLEAN
      /\ ~chevauche' => ~chevauche
      /\ ~chevauche' => SansDeux'
  BY <1>0, VaOK DEF PushEcrit, Lieux, Section, SansDeux
<1>3. UNCHANGED <<mutexpush, mutexpop, mutexCondPush, mutexCondPop,
                stack_size, reg, lu, main, sortis>>
  BY DEF PushEcrit, sems, Segment, entree
<1>4. /\ ptr' \in [Cases -> Cars \cup {Rien}]
      /\ \A j \in Cases : ptr'[j] = IF j = reg[p] THEN main[p] ELSE ptr[j]
      /\ pc'[p] = "mort" => reg[p] = -1
      /\ main[p] \in Cars /\ main[p] <= lu
  <2>1. /\ ptr' = [k \in Cases |-> IF k = reg[p] THEN main[p] ELSE ptr[k]]
        /\ main[p] \in Cars /\ main[p] <= lu
    BY <1>0, <1>1 DEF PushEcrit, TypeOK, IInv, Mains
  <2>2. pc'[p] = "mort" => reg[p] = -1
    BY <1>0, VaOK DEF PushEcrit, Lieux, Section, SansDeux
  <2> QED BY <1>0, <2>1, <2>2 DEF TypeOK
<1>5. TypeOK'
  BY <1>2, <1>0, <1>1, <1>3, <1>4 DEF TypeOK, Lieux, Cars
<1>6. Exclus'
  BY <1>0, <1>1, <1>3, <1>4, CotesOK DEF IInv, TypeOK, Exclus
<1>7. Limites'
  BY <1>0, <1>1, <1>3, <1>4, CotesOK DEF IInv, TypeOK, Exclus, Limites, Cases
<1>8. Mains'
  BY <1>0, <1>1, <1>3, <1>4, CotesOK DEF IInv, TypeOK, Mains
<1>9. Seuls'
  BY <1>2, <1>0, <1>1, <1>3, <1>4, CotesOK
    DEF IInv, TypeOK, Exclus, Limites, Seuls, Section, SansDeux
<1>10. Attentes'
  BY <1>2, <1>0, <1>1, <1>3, <1>4, CotesOK
    DEF IInv, TypeOK, Exclus, Limites, Seuls, Attentes, Section, SansDeux, Dans
<1>11. Places'
  <2> SUFFICES ASSUME ~chevauche', NEW k \in Cars, k <= lu', UnePlace(k)
               PROVE  UnePlace(k)'
    BY <1>2, <1>3 DEF IInv, Places
  <2>1. reg[p] = stack_size /\ stack_size \in Cases /\ pc'[p] = "reveil"
    BY <1>0, <1>1, <1>2, <1>4 DEF IInv, Seuls, Limites, Cases
  <2>2. EnTrain /\ ~EnTrain'
    BY <1>0, <1>1, <1>2, <2>1, CotesOK DEF EnTrain, Dans, IInv, Exclus, Seuls, Section, SansDeux
  <2>3. Pleines' = Pleines \cup {stack_size} /\ stack_size \notin Pleines /\ Pleines \subseteq Cases
    BY <1>3, <2>1, <2>2 DEF Pleines, Cases
  <2>4. Tenants(k)' = Tenants(k) \ {p} /\ (p \in Tenants(k) <=> main[p] = k)
    BY <1>0, <1>1, <1>3, <2>1, CotesOK DEF Tenants
  <2>5. Cellules(k)' = IF main[p] = k THEN Cellules(k) \cup {stack_size} ELSE Cellules(k)
    BY <1>4, <2>1, <2>3 DEF Cellules
  <2> QED BY <1>3, <2>1, <2>4, <2>5 DEF UnePlace
<1> QED BY <1>5, <1>6, <1>7, <1>8, <1>9, <1>10, <1>11 DEF IInv

(* The read of a pop moves it from that cell to the consumer.              *)
LEMMA PopLitOK ==
  ASSUME IInv, NEW c \in Consommateurs, PopLit(c)
  PROVE  IInv'
<1>0. c \in Processus /\ c \notin Producteurs /\ TypeOK
  BY CotesOK DEF IInv
<1>1. /\ pc[c] = "acces" /\ pc'[c] = "charge" /\ pc' \in [Processus -> Lieux]
      /\ \A u \in Processus : u # c => pc'[u] = pc[u]
  BY <1>0, VaOK DEF PopLit, Lieux, Section, SansDeux
<1>2. /\ chevauche' \in BOOLEAN
      /\ ~chevauche' => ~chevauche
      /\ ~chevauche' => SansDeux'
  BY <1>0, VaOK DEF PopLit, Lieux, Section, SansDeux
<1>3. UNCHANGED <<mutexpush, mutexpop, mutexCondPush, mutexCondPop,
                stack_size, ptr, reg, lu, sortis>>
  BY DEF PopLit, sems, Segment, entree
<1>4. /\ main' \in [Processus -> Cars \cup {Rien}]
      /\ main'[c] = ptr[reg[c]] /\ reg[c] \in Cases /\ main[c] = Rien /\ ptr[reg[c]] <= lu
      /\ \A u \in Processus : u # c => main'[u] = main[u]
  <2>1. reg[c] \in Cases /\ main[c] = Rien /\ ptr[reg[c]] <= lu
    BY <1>1 DEF IInv, Limites, Mains
  <2>2. main' = [main EXCEPT ![c] = ptr[reg[c]]]
    BY DEF PopLit
  <2> QED BY <1>0, <2>1, <2>2 DEF TypeOK
<1>5. TypeOK'
  BY <1>2, <1>0, <1>1, <1>3, <1>4 DEF TypeOK, Lieux, Cars
<1>6. Exclus'
  BY <1>0, <1>1, <1>3, <1>4, CotesOK DEF IInv, TypeOK, Exclus
<1>7. Limites'
  BY <1>0, <1>1, <1>3, <1>4, CotesOK DEF IInv, TypeOK, Exclus, Limites, Cases
<1>8. Mains'
  BY <1>0, <1>1, <1>3, <1>4, CotesOK DEF IInv, TypeOK, Mains
<1>9. Seuls'
  BY <1>2, <1>0, <1>1, <1>3, <1>4, CotesOK
    DEF IInv, TypeOK, Exclus, Limites, Seuls, Section, SansDeux
<1>10. Attentes'
  BY <1>2, <1>0, <1>1, <1>3, <1>4, CotesOK
    DEF IInv, TypeOK, Exclus, Limites, Seuls, Attentes, Section, SansDeux, Dans
<1>11. Places'
  <2> SUFFICES ASSUME ~chevauche', NEW k \in Cars, k <= lu', UnePlace(k)
               PROVE  UnePlace(k)'
    BY <1>2, <1>3 DEF IInv, Places
  <2>1. reg[c] = stack_size /\ stack_size \in Cases
    BY <1>0, <1>1, <1>2, <1>4 DEF IInv, Seuls
  <2>2. ~EnTrain /\ EnTrain'
    BY <1>0, <1>1, <1>2, <2>1, CotesOK DEF EnTrain, Dans, IInv, Exclus, Seuls, Section, SansDeux
  <2>3. Pleines' = Pleines \ {stack_size} /\ stack_size \in Pleines /\ Pleines \subseteq Cases
    BY <1>3, <2>1, <2>2 DEF Pleines, Cases
  <2>4. Tenants(k)' = IF ptr[stack_size] = k THEN Tenants(k) \cup {c} ELSE Tenants(k)
    BY <1>0, <1>1, <1>3, <1>4, <2>1, CotesOK DEF Tenants, Cars
  <2>5. Cellules(k)' = Cellules(k) \ {stack_size} /\ (stack_size \in Cellules(k) <=> ptr[stack_size] = k)
    BY <1>3, <2>1, <2>3 DEF Cellules
  <2> QED BY <1>0, <1>3, <2>1, <2>4, <2>5 DEF UnePlace
<1> QED BY <1>5, <1>6, <1>7, <1>8, <1>9, <1>10, <1>11 DEF IInv

(* The end of a pop moves it out.                                          *)
LEMMA PopPostOK ==
  ASSUME IInv, NEW c \in Consommateurs, PopPost(c)
  PROVE  IInv'
<1>0. c \in Processus /\ c \notin Producteurs /\ TypeOK
  BY CotesOK DEF IInv
<1>1. /\ pc[c] = "post" /\ pc'[c] = "mutex" /\ pc' \in [Processus -> Lieux]
      /\ \A u \in Processus : u # c => pc'[u] = pc[u]
  BY <1>0, VaOK DEF PopPost, Lieux, Section, SansDeux
<1>2. /\ chevauche' \in BOOLEAN
      /\ ~chevauche' => ~chevauche
      /\ ~chevauche' => SansDeux'
  BY <1>0, VaOK DEF PopPost, Lieux, Section, SansDeux
<1>3. UNCHANGED <<mutexpush, mutexCondPush, mutexCondPop, stack_size, ptr, reg, lu>>
  BY DEF PopPost, sems, Segment, entree
<1>4. /\ mutexpop = 0 /\ mutexpop' = 1 /\ main' \in [Processus -> Cars \cup {Rien}]
      /\ main'[c] = Rien /\ \A u \in Processus : u # c => main'[u] = main[u]
      /\ sortis' \in [Cars -> Nat] /\ main[c] <= lu
      /\ \A k \in Cars : sortis'[k] = IF k = main[c] THEN sortis[k] + 1 ELSE sortis[k]
  <2>1. mutexpop = 0 /\ mutexpop' = mutexpop + 1 /\ main[c] <= lu
    BY <1>0, <1>1 DEF PopPost, IInv, Exclus, Mains
  <2>2. /\ main' = [main EXCEPT ![c] = Rien]
        /\ sortis' = [k \in Cars |-> IF k = main[c] THEN sortis[k] + 1 ELSE sortis[k]]
    BY DEF PopPost
  <2> QED BY <1>0, <2>1, <2>2 DEF TypeOK
<1>5. TypeOK'
  BY <1>2, <1>0, <1>1, <1>3, <1>4 DEF TypeOK, Lieux, Cars
<1>6. Exclus'
  BY <1>0, <1>1, <1>3, <1>4, CotesOK DEF IInv, TypeOK, Exclus
<1>7. Limites'
  BY <1>0, <1>1, <1>3, <1>4, CotesOK DEF IInv, TypeOK, Exclus, Limites, Cases
<1>8. Mains'
  <2>1. /\ \A q \in Producteurs : pc'[q] # "mutex" => main'[q] # Rien
        /\ \A d \in Consommateurs : pc'[d] \notin {"charge", "range", "reveil", "post"} => main'[d] = Rien
    BY <1>0, <1>1, <1>4, CotesOK DEF IInv, Mains
  <2>2. lu \in Nat /\ \A t \in Processus : main'[t] <= lu
    BY <1>0, <1>4 DEF IInv, Mains, TypeOK
  <2>3. \A k \in Cars : k > lu => sortis'[k] = 0
    <3> SUFFICES ASSUME NEW k \in Cars, k > lu PROVE sortis'[k] = 0
      OBVIOUS
    <3>1. k # main[c]
      BY <1>0, <1>4, <2>2 DEF TypeOK, Cars
    <3> QED BY <1>4, <3>1 DEF IInv, Mains
  <2> QED BY <1>3, <2>1, <2>2, <2>3 DEF IInv, Mains
<1>9. Seuls'
  BY <1>2, <1>0, <1>1, <1>3, <1>4, CotesOK
    DEF IInv, TypeOK, Exclus, Limites, Seuls, Section, SansDeux
<1>10. Attentes'
  BY <1>2, <1>0, <1>1, <1>3, <1>4, CotesOK
    DEF IInv, TypeOK, Exclus, Limites, Seuls, Attentes, Section, SansDeux, Dans
<1>11. Places'
  <2> SUFFICES ASSUME ~chevauche', NEW k \in Cars, k <= lu', UnePlace(k)
               PROVE  UnePlace(k)'
    BY <1>2, <1>3 DEF IInv, Places
  <2>1. Pleines' = Pleines
    <3>1. EnTrain' = EnTrain
      BY <1>0, <1>1, <1>3, CotesOK DEF EnTrain, Dans
    <3> QED BY <1>3, <3>1, PleinesOK
  <2>2. Cellules(k)' = Cellules(k)
    BY <1>3, <2>1 DEF Cellules
  <2>3. Tenants(k)' = Tenants(k) \ {c} /\ (c \in Tenants(k) <=> main[c] = k)
    BY <1>0, <1>1, <1>3, <1>4, CotesOK DEF Tenants, Cars
  <2>4. CASE main[c] = k
    BY <1>4, <2>2, <2>3, <2>4 DEF UnePlace
  <2>5. CASE main[c] # k
    BY <1>4, <2>2, <2>3, <2>5 DEF UnePlace
  <2> QED BY <2>4, <2>5
<1> QED BY <1>5, <1>6, <1>7, <1>8, <1>9, <1>10, <1>11 DEF IInv

(* Every step of the processes keeps the invariant.                        *)
LEMMA StepOK == IInv /\ [Next]_vars => IInv'
<1> SUFFICES ASSUME IInv, [Next]_vars PROVE IInv'
  OBVIOUS
<1>1. CASE UNCHANGED vars
  <2>1. UNCHANGED <<mutexpush, mutexpop, mutexCondPush, mutexCondPop, stack_size, ptr, pc, reg,
                    lu, main, sortis, chevauche>>
    BY <1>1 DEF vars, sems, entree
  <2>2. TypeOK' /\ Exclus' /\ Limites' /\ Mains'
    BY <2>1 DEF IInv, TypeOK, Exclus, Limites, Mains
  <2>3. Seuls' /\ Attentes'
    BY <2>1 DEF IInv, Seuls, SansDeux, Attentes, Dans
  <2>4. Places'
    BY <2>1 DEF IInv, Places, UnePlace, Tenants, Cellules, Pleines, EnTrain, Dans
  <2> QED BY <2>2, <2>3, <2>4 DEF IInv
<1>2. ASSUME NEW p \in Producteurs, producteur(p) PROVE IInv'
  BY <1>2, GetcharOK, PushMutexOK, PushTestOK, PushAttendOK, PushChargeOK, PushRangeOK, PushIndiceOK,
     PushEcritOK, PushReveilOK, PushPostOK DEF producteur, push
<1>3. ASSUME NEW c \in Consommateurs, consommateur(c) PROVE IInv'
  BY <1>3, PopMutexOK, PopTestOK, PopAttendOK, PopIndiceOK, PopLitOK, PopChargeOK, PopRangeOK,
     PopReveilOK, PopPostOK DEF consommateur, pop
<1> QED BY <1>1, <1>2, <1>3 DEF Next

LEMMA PileSemInvariant == Spec => []IInv
  BY InitOK, StepOK, PTL DEF Spec

(* push and pop never take stack_size out of -1 .. STACK_SIZE, although    *)
(* each loads it and stores it without the mutex of the other, and pop     *)
(* never reads before the array.                                           *)
THEOREM PileSemBornes == Spec => []Bornes
<1>1. IInv => Bornes
  BY DEF IInv, Limites, Bornes
<1> QED BY <1>1, PileSemInvariant, PTL

(* Until a push and a pop have been in the segment together, each          *)
(* character read is in one place.                                         *)
THEOREM PileSemEachCarOnce == Spec => []EachCarOnce
<1>1. ASSUME IInv, ~chevauche, NEW k \in 1 .. lu
      PROVE  sortis[k] + Cardinality(Tenants(k)) + Cardinality(Cellules(k)) = 1
  <2>1. UnePlace(k) /\ sortis[k] \in Nat
    BY <1>1 DEF IInv, Places, TypeOK, Cars
  <2>2. Cardinality({}) = 0 /\ \A x : Cardinality({x}) = 1
    BY FS_EmptySet, FS_Singleton
  <2>3. CASE sortis[k] = 1 /\ Tenants(k) = {} /\ Cellules(k) = {}
    BY <2>2, <2>3
  <2>4. CASE sortis[k] = 0 /\ (\E t \in Processus : Tenants(k) = {t}) /\ Cellules(k) = {}
    BY <2>2, <2>4
  <2>5. CASE sortis[k] = 0 /\ Tenants(k) = {} /\ \E j \in Cases : Cellules(k) = {j}
    BY <2>2, <2>5
  <2> QED BY <2>1, <2>3, <2>4, <2>5 DEF UnePlace
<1>2. IInv => EachCarOnce
  BY <1>1 DEF EachCarOnce, Tenants, Cellules
<1> QED BY <1>2, PileSemInvariant, PTL

(* Until then no post is lost: who waits without a post to take has to     *)
(* wait, or is about to be sent one.                                       *)
THEOREM PileSemPasPerdu == Spec => []PasPerdu
<1>1. IInv => PasPerdu
  BY DEF IInv, Attentes, PasPerdu, Dans, Section, SansDeux
<1> QED BY <1>1, PileSemInvariant, PTL
=============================================================================

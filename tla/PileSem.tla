------------------------------ MODULE PileSem ------------------------------
(***************************************************************************)
(* The stack in shared memory of TME7 (ex3.c): producers and consumers are *)
(* processes, and the mutex and conditions of TME5 have become named       *)
(* semaphores: one mutex for the pushes, another one for the pops.         *)
(*                                                                         *)
(* A push and a pop may therefore run at the same time.  A step is one     *)
(* access to the segment: stack_size++ and stack_size-- are a load and a   *)
(* store, and each later use of stack_size loads it again.                 *)
(***************************************************************************)
EXTENDS Integers, FiniteSets

CONSTANTS Producteurs, Consommateurs, STACK_SIZE, Longueur

ASSUME PileSemAssumption ==
    /\ Producteurs \cap Consommateurs = {}
    /\ STACK_SIZE \in Nat \ {0}
    /\ Longueur \in Nat

VARIABLES
    mutexpush, mutexpop, mutexCondPush, mutexCondPop,   \* the semaphores
    stack_size, ptr,                                    \* the segment
    pc, reg,    \* where each process is, and the stack_size it has loaded
    lu,         \* the characters read from the input
    main,       \* what each process holds: a character or Rien
    sortis,     \* how many times each character was popped
    chevauche   \* a push and a pop have been in the segment together

sems == <<mutexpush, mutexpop, mutexCondPush, mutexCondPop>>
entree == <<lu, main, sortis>>
vars == <<sems, stack_size, ptr, pc, reg, entree, chevauche>>

Processus == Producteurs \cup Consommateurs
Rien  == 0
Cars  == 1 .. Longueur

(* ptr[STACK_SIZE] is a byte of padding before stack_size.                 *)
Cases == 0 .. STACK_SIZE

(* From the test that lets them through to the last use of stack_size.     *)
Section == {"charge", "range", "indice", "acces", "reveil"}

Init ==
    /\ mutexpush = 1 /\ mutexpop = 1 /\ mutexCondPush = 0 /\ mutexCondPop = 0
    /\ stack_size = -1
    /\ ptr = [k \in Cases |-> Rien]
    /\ pc = [t \in Processus |-> "mutex"]
    /\ reg = [t \in Processus |-> 0]
    /\ lu = 0
    /\ main = [t \in Processus |-> Rien]
    /\ sortis = [k \in Cars |-> 0]
    /\ chevauche = FALSE

Va(t, from, to) ==
    /\ pc[t] = from
    /\ pc' = [pc EXCEPT ![t] = to]
    /\ chevauche' = (chevauche \/ \E p \in Producteurs, c \in Consommateurs :
                                    pc'[p] \in Section /\ pc'[c] \in Section)

Load(t) == reg' = [reg EXCEPT ![t] = stack_size]
Segment == <<stack_size, ptr>>

-----------------------------------------------------------------------------
(* while ((c = getchar()) != EOF) push(c): getchar, then the mutex.        *)
Getchar(p) ==
    /\ pc[p] = "mutex" /\ main[p] = Rien
    /\ lu < Longueur
    /\ lu' = lu + 1
    /\ main' = [main EXCEPT ![p] = lu + 1]
    /\ UNCHANGED <<sems, Segment, pc, reg, sortis, chevauche>>

(* Mutant of PushMutex: the mutex is not waited for.                       *)
PushSansMutex(p) ==
    /\ Va(p, "mutex", "test")
    /\ main[p] # Rien
    /\ UNCHANGED <<sems, Segment, reg, entree>>

PushMutex(p) ==
    /\ Va(p, "mutex", "test")
    /\ main[p] # Rien
    /\ mutexpush > 0
    /\ mutexpush' = mutexpush - 1
    /\ UNCHANGED <<mutexpop, mutexCondPush, mutexCondPop, Segment, reg, entree>>

(* Mutant of PushTest: a full stack is not waited for.                     *)
PushSansTest(p) ==
    /\ Va(p, "test", "charge")
    /\ UNCHANGED <<sems, Segment, reg, entree>>

PushTest(p) ==
    /\ Va(p, "test", IF stack_size = STACK_SIZE THEN "attend" ELSE "charge")
    /\ UNCHANGED <<sems, Segment, reg, entree>>

PushAttend(p) ==
    /\ Va(p, "attend", "test")
    /\ mutexCondPush > 0
    /\ mutexCondPush' = mutexCondPush - 1
    /\ UNCHANGED <<mutexpush, mutexpop, mutexCondPop, Segment, reg, entree>>

PushCharge(p) ==
    /\ Va(p, "charge", "range")
    /\ Load(p)
    /\ UNCHANGED <<sems, Segment, entree>>

PushRange(p) ==
    /\ Va(p, "range", "indice")
    /\ stack_size' = reg[p] + 1
    /\ UNCHANGED <<sems, ptr, reg, entree>>

PushIndice(p) ==
    /\ Va(p, "indice", "acces")
    /\ Load(p)
    /\ UNCHANGED <<sems, Segment, entree>>

(* Index -1 is before the segment: the process dies, or writes elsewhere.  *)
PushEcrit(p) ==
    /\ \/ Va(p, "acces", "reveil")
       \/ reg[p] = -1 /\ Va(p, "acces", "mort")
    /\ ptr' = [k \in Cases |-> IF k = reg[p] THEN main[p] ELSE ptr[k]]
    /\ UNCHANGED <<sems, stack_size, reg, entree>>

(* Mutant of PushReveil: the consumer is never woken.                      *)
PushSansReveil(p) ==
    /\ Va(p, "reveil", "post")
    /\ UNCHANGED <<sems, Segment, reg, entree>>

PushReveil(p) ==
    /\ Va(p, "reveil", "post")
    /\ mutexCondPop' = mutexCondPop + (IF stack_size = 0 THEN 1 ELSE 0)
    /\ UNCHANGED <<mutexpush, mutexpop, mutexCondPush, Segment, reg, entree>>

PushPost(p) ==
    /\ Va(p, "post", "mutex")
    /\ mutexpush' = mutexpush + 1
    /\ main' = [main EXCEPT ![p] = Rien]
    /\ UNCHANGED <<mutexpop, mutexCondPush, mutexCondPop, Segment, reg, lu, sortis>>

push(p) ==
    \/ PushMutex(p) \/ PushTest(p) \/ PushAttend(p) \/ PushCharge(p) \/ PushRange(p)
    \/ PushIndice(p) \/ PushEcrit(p) \/ PushReveil(p) \/ PushPost(p)

-----------------------------------------------------------------------------
PopMutex(c) ==
    /\ Va(c, "mutex", "test")
    /\ mutexpop > 0
    /\ mutexpop' = mutexpop - 1
    /\ UNCHANGED <<mutexpush, mutexCondPush, mutexCondPop, Segment, reg, entree>>

PopTest(c) ==
    /\ Va(c, "test", IF stack_size = -1 THEN "attend" ELSE "indice")
    /\ UNCHANGED <<sems, Segment, reg, entree>>

PopAttend(c) ==
    /\ Va(c, "attend", "test")
    /\ mutexCondPop > 0
    /\ mutexCondPop' = mutexCondPop - 1
    /\ UNCHANGED <<mutexpush, mutexpop, mutexCondPush, Segment, reg, entree>>

PopIndice(c) ==
    /\ Va(c, "indice", "acces")
    /\ Load(c)
    /\ UNCHANGED <<sems, Segment, entree>>

PopLit(c) ==
    /\ Va(c, "acces", "charge")
    /\ main' = [main EXCEPT ![c] = ptr[reg[c]]]
    /\ UNCHANGED <<sems, Segment, reg, lu, sortis>>

PopCharge(c) ==
    /\ Va(c, "charge", "range")
    /\ Load(c)
    /\ UNCHANGED <<sems, Segment, entree>>

PopRange(c) ==
    /\ Va(c, "range", "reveil")
    /\ stack_size' = reg[c] - 1
    /\ UNCHANGED <<sems, ptr, reg, entree>>

PopReveil(c) ==
    /\ Va(c, "reveil", "post")
    /\ mutexCondPush' = mutexCondPush + (IF stack_size = STACK_SIZE - 1 THEN 1 ELSE 0)
    /\ UNCHANGED <<mutexpush, mutexpop, mutexCondPop, Segment, reg, entree>>

(* sem_post, and the putchar of what pop returns.                          *)
PopPost(c) ==
    /\ Va(c, "post", "mutex")
    /\ mutexpop' = mutexpop + 1
    /\ sortis' = [k \in Cars |-> IF k = main[c] THEN sortis[k] + 1 ELSE sortis[k]]
    /\ main' = [main EXCEPT ![c] = Rien]
    /\ UNCHANGED <<mutexpush, mutexCondPush, mutexCondPop, Segment, reg, lu>>

pop(c) ==
    \/ PopMutex(c) \/ PopTest(c) \/ PopAttend(c) \/ PopIndice(c) \/ PopLit(c)
    \/ PopCharge(c) \/ PopRange(c) \/ PopReveil(c) \/ PopPost(c)

-----------------------------------------------------------------------------
producteur(p)   == Getchar(p) \/ push(p)
consommateur(c) == pop(c)

Next ==
    \/ \E p \in Producteurs : producteur(p)
    \/ \E c \in Consommateurs : consommateur(c)

Spec == Init /\ [][Next]_vars

-----------------------------------------------------------------------------
TypeOK ==
    /\ mutexpush \in {0, 1} /\ mutexpop \in {0, 1}
    /\ mutexCondPush \in Nat /\ mutexCondPop \in Nat
    /\ stack_size \in Int
    /\ ptr \in [Cases -> Cars \cup {Rien}]
    /\ pc \in [Processus -> Section \cup {"mutex", "test", "attend", "post", "mort"}]
    /\ reg \in [Processus -> Int]
    /\ lu \in 0 .. Longueur
    /\ main \in [Processus -> Cars \cup {Rien}]
    /\ sortis \in [Cars -> Nat]
    /\ chevauche \in BOOLEAN

(* Types; and the lost updates of stack_size never take it out of its bounds, and pop *)
(* never reads before the array: a store made stale by the other side is   *)
(* still one that a test allowed.                                          *)
Bornes ==
    /\ TypeOK
    /\ stack_size \in -1 .. STACK_SIZE
    /\ \A c \in Consommateurs : pc[c] = "acces" => reg[c] \in Cases

(* Nothing else than the overlap of a push and a pop loses or doubles a    *)
(* character: as long as there was none, a character that was read is in   *)
(* one place, in the hands of a process, in the stack or already out.      *)
Dans(S, l) == \E t \in S : pc[t] \in l
EnTrain    == Dans(Producteurs, {"indice", "acces"}) \/ Dans(Consommateurs, {"charge", "range"})
Pleines    == {j \in Cases : j < stack_size \/ (j = stack_size /\ ~EnTrain)}
EachCarOnce ==
    ~chevauche => \A k \in 1 .. lu :
        LET tenants == {t \in Processus : main[t] = k /\ ~(t \in Producteurs /\ pc[t] \in {"reveil", "post"})}
        IN  sortis[k] + Cardinality(tenants) + Cardinality({j \in Pleines : ptr[j] = k}) = 1

(* Without an overlap no post is lost either: a process that waits has to, *)
(* or has a post to take, or the other side is about to post.              *)
PasPerdu ==
    ~chevauche =>
        /\ \A c \in Consommateurs : pc[c] = "attend" /\ mutexCondPop = 0 =>
                stack_size = -1 \/ Dans(Producteurs, Section)
        /\ \A p \in Producteurs : pc[p] = "attend" /\ mutexCondPush = 0 =>
                stack_size = STACK_SIZE \/ Dans(Consommateurs, Section)
=============================================================================

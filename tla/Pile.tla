-------------------------------- MODULE Pile --------------------------------
(***************************************************************************)
(* The stack that producers and consumers share, one mutex and two         *)
(* conditions (TME5).  The four programs differ by how stack_size counts,  *)
(* by the tests on it, by whom they wake and by how many threads they run: *)
(* the record prog says how, and PileProgrammes gives it for each program. *)
(*                                                                         *)
(* The characters of the input are told apart by their rank, from 1.       *)
(***************************************************************************)
EXTENDS Integers, Moniteur

CONSTANTS Producteurs, Consommateurs, STACK_SIZE, Longueur, Programmes

(* A producer waits for "place" (room), a consumer for "car" (a character).*)
ASSUME PileAssumption ==
    /\ Threads = Producteurs \cup Consommateurs
    /\ Producteurs \cap Consommateurs = {}
    /\ Conds = {"place", "car"}
    /\ STACK_SIZE \in Nat \ {0}
    /\ Longueur \in Nat
    /\ Programmes \subseteq
            [prod : SUBSET Producteurs, cons : SUBSET Consommateurs,
             vide : {-1, 0}, init : {-1, 0}, plein : Nat, lit : {-1, 0},
             premier : Int, libere : Int, tous : BOOLEAN]
    /\ \A q \in Programmes : q.vide <= q.init /\ q.init <= q.plein /\ q.plein <= STACK_SIZE

VARIABLES
    prog,       \* the program that runs
    stack_size,
    pile,
    lu,         \* the characters read from the input
    main,       \* what each producer holds: a character, Rien or Eof
    sortis      \* how many times each character was popped

vars == <<mvars, prog, stack_size, pile, lu, main, sortis>>

Rien == 0
Eof  == -1
Cars == 1 .. Longueur

(* The array is 0 .. STACK_SIZE - 1. The program that waits while          *)
(* stackSize < 0 also reads the cell before it, and those that are full at *)
(* STACK_SIZE write the cell after it (what the comments, "Si le tableau   *)
(* est plein", "du sommet de la pile", do not say). In their build no      *)
(* other variable occupies these two.                                      *)
Cases == -1 .. STACK_SIZE

Init ==
    /\ MoniteurInit
    /\ prog \in Programmes
    /\ stack_size = prog.init
    /\ pile = [k \in Cases |-> Rien]
    /\ lu = 0
    /\ main = [p \in Producteurs |-> Rien]
    /\ sortis = [k \in Cars |-> 0]

(* Mutant of Reveil: one thread is woken whatever the program.             *)
ReveilUnSeul(c) == Signal(c)

Reveil(c) == IF prog.tous THEN Broadcast(c) ELSE Signal(c)

(* PRODUCTEUR: while ((c = getchar()) != EOF) push(c)                      *)
Getchar(p) ==
    /\ main[p] = Rien
    /\ IF lu < Longueur
       THEN lu' = lu + 1 /\ main' = [main EXCEPT ![p] = lu + 1]
       ELSE UNCHANGED lu /\ main' = [main EXCEPT ![p] = Eof]
    /\ UNCHANGED <<prog, mvars, stack_size, pile, sortis>>

(* push: lock; wait while the stack is full; add; wake; unlock             *)
PushLock(p) ==
    /\ main[p] > 0
    /\ Lock(p)
    /\ UNCHANGED <<prog, stack_size, pile, lu, main, sortis>>

PushWait(p) ==
    /\ stack_size = prog.plein
    /\ CondWait(p, "place")
    /\ UNCHANGED <<prog, stack_size, pile, lu, main, sortis>>

(* Mutants of Push: nobody is woken; the cell of the top is overwritten.   *)
PushSansReveil(p) ==
    /\ stack_size # prog.plein
    /\ Unlock(p)
    /\ stack_size' = stack_size + 1
    /\ pile' = [pile EXCEPT ![stack_size + 1] = main[p]]
    /\ main' = [main EXCEPT ![p] = Rien]
    /\ UNCHANGED <<prog, attente, lu, sortis>>

PushMemeCase(p) ==
    /\ stack_size # prog.plein
    /\ Unlock(p)
    /\ stack_size' = stack_size + 1
    /\ pile' = [pile EXCEPT ![stack_size] = main[p]]
    /\ main' = [main EXCEPT ![p] = Rien]
    /\ attente' \in IF stack_size + 1 = prog.premier THEN Reveil("car") ELSE {attente}
    /\ UNCHANGED <<prog, lu, sortis>>

Push(p) ==
    /\ stack_size # prog.plein
    /\ Unlock(p)
    /\ stack_size' = stack_size + 1
    /\ pile' = [pile EXCEPT ![stack_size + 1] = main[p]]
    /\ main' = [main EXCEPT ![p] = Rien]
    /\ attente' \in IF stack_size + 1 = prog.premier THEN Reveil("car") ELSE {attente}
    /\ UNCHANGED <<prog, lu, sortis>>

(* pop: lock; wait while the stack is empty; take; wake; unlock            *)
PopLock(c) ==
    /\ Lock(c)
    /\ UNCHANGED <<prog, stack_size, pile, lu, main, sortis>>

PopWait(c) ==
    /\ stack_size <= prog.vide
    /\ CondWait(c, "car")
    /\ UNCHANGED <<prog, stack_size, pile, lu, main, sortis>>

(* The program either reads the top and then decrements, or the reverse.   *)
Lue == pile[stack_size + prog.lit]

(* Mutant of Pop: "if" for "while", the stack may be empty again after the *)
(* wait.                                                                   *)
PopSansTest(c) ==
    /\ Unlock(c)
    /\ stack_size' = stack_size - 1
    /\ sortis' = IF Lue \in Cars THEN [sortis EXCEPT ![Lue] = @ + 1] ELSE sortis
    /\ attente' \in IF stack_size - 1 = prog.libere THEN Reveil("place") ELSE {attente}
    /\ UNCHANGED <<prog, pile, lu, main>>

Pop(c) ==
    /\ stack_size > prog.vide
    /\ Unlock(c)
    /\ stack_size' = stack_size - 1
    /\ sortis' = IF Lue \in Cars THEN [sortis EXCEPT ![Lue] = @ + 1] ELSE sortis
    /\ attente' \in IF stack_size - 1 = prog.libere THEN Reveil("place") ELSE {attente}
    /\ UNCHANGED <<prog, pile, lu, main>>

Intempestif(t) ==
    /\ ReveilIntempestif(t)
    /\ UNCHANGED <<prog, stack_size, pile, lu, main, sortis>>

Producteur(p)   == Getchar(p) \/ PushLock(p) \/ PushWait(p) \/ Push(p)
Consommateur(c) == PopLock(c) \/ PopWait(c) \/ Pop(c)

Next ==
    \/ \E p \in prog.prod : Producteur(p)
    \/ \E c \in prog.cons : Consommateur(c)
    \/ \E t \in Threads : Intempestif(t)

Spec == Init /\ [][Next]_vars

(* A thread goes on when it can, and gets the mutex when it keeps asking   *)
(* for it; nothing wakes a waiting thread but the program.                 *)
Fairness ==
    /\ \A p \in Producteurs :
        /\ WF_vars(p \in prog.prod /\ (Getchar(p) \/ PushWait(p) \/ Push(p)))
        /\ SF_vars(p \in prog.prod /\ PushLock(p))
    /\ \A c \in Consommateurs :
        /\ WF_vars(c \in prog.cons /\ (PopWait(c) \/ Pop(c)))
        /\ SF_vars(c \in prog.cons /\ PopLock(c))

FairSpec == Spec /\ Fairness

-----------------------------------------------------------------------------
(* The two tests of a program, under one mutex, hold the top between the   *)
(* values they test, and only the cells between them are ever written.     *)
TypeOK ==
    /\ MoniteurTypeOK
    /\ prog \in Programmes
    /\ stack_size \in prog.vide .. prog.plein
    /\ pile \in [Cases -> Cars \cup {Rien}]
    /\ \A k \in Cases : k \notin prog.vide + 1 .. prog.plein => pile[k] = Rien
    /\ lu \in 0 .. Longueur
    /\ main \in [Producteurs -> Cars \cup {Rien, Eof}]
    /\ sortis \in [Cars -> Nat]

(* The tests of a program agree with one another: it wakes a consumer when *)
(* the stack stops being empty and a producer when it stops being full,    *)
(* and with one signal only if one thread can be waiting.                  *)
Coherent(q) ==
    /\ q.init = q.vide
    /\ q.premier = q.vide + 1
    /\ q.plein = STACK_SIZE
    /\ q.libere = q.plein - 1
    /\ q.lit = 0
    /\ q.vide = -1
    /\ ~q.tous => /\ \A p1, p2 \in q.prod : p1 = p2
                  /\ \A c1, c2 \in q.cons : c1 = c2

(* No wakeup is lost: a consumer waits only while the stack is empty and a *)
(* producer only while it is full, although a signal is sent at one value  *)
(* of stack_size only.  (In the programs of coherent tests.)               *)
NoLostWakeup ==
    Coherent(prog) => /\ attente["car"] # {} => stack_size = prog.vide
                      /\ attente["place"] # {} => stack_size = prog.plein

Vivantes == {k \in Cases : prog.vide < k /\ k <= stack_size}

(* Each character read is in one place: with the producer that read it, in *)
(* one live cell of the stack, or delivered, once.                         *)
EachCarOnce ==
    Coherent(prog) => \A k \in Cars :
        LET tenants == {p \in Producteurs : main[p] = k}
            cases   == {j \in Vivantes : pile[j] = k}
        IN  /\ sortis[k] > 0 => sortis[k] = 1 /\ tenants = {} /\ cases = {}
            /\ cases # {} => tenants = {}
            /\ \A p, q \in tenants : p = q
            /\ \A j, l \in cases : j = l
            /\ k <= lu <=> sortis[k] > 0 \/ cases # {} \/ tenants # {}

(* Every character read from the input is eventually popped.               *)
EveryCarServed == \A k \in Cars : (Coherent(prog) /\ lu >= k) ~> (sortis[k] > 0)

(* producteurs_consommateurs.c, "faisant echanger plusieurs producteurs et *)
(* plusieurs consommateurs": a push ends.                                  *)
PushEnds == \A p \in Producteurs : (main[p] > 0) ~> (main[p] = Rien)
=============================================================================

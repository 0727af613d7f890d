--------------------------- MODULE PileProgrammes ---------------------------
(* The four programs of TME5 as values of prog, and the instances of Pile  *)
(* for TLC.  STACK_SIZE is 100 in the first two, 2 in the others.          *)
EXTENDS Pile

UnProd == {CHOOSE p \in Producteurs : TRUE}
UnCons == {CHOOSE c \in Consommateurs : TRUE}

(* One producer, one consumer; signals; 99 is STACK_SIZE - 1.              *)
producteur_consommateur ==
    [prod |-> UnProd, cons |-> UnCons,
     init |-> 0, vide |-> -1, plein |-> STACK_SIZE - 1, lit |-> -1,
     premier |-> 1, libere |-> STACK_SIZE - 1, tous |-> FALSE]

(* Several of each; broadcasts; 99 and 100 are STACK_SIZE - 1, STACK_SIZE. *)
producteurs_consommateurs ==
    [prod |-> Producteurs, cons |-> Consommateurs,
     init |-> 0, vide |-> 0, plein |-> STACK_SIZE - 1, lit |-> -1,
     premier |-> 1, libere |-> STACK_SIZE, tous |-> TRUE]

(* One producer, one consumer; signals; empty at -1, full at STACK_SIZE.   *)
producteur_consommateur_2 ==
    [prod |-> UnProd, cons |-> UnCons,
     init |-> -1, vide |-> -1, plein |-> STACK_SIZE, lit |-> 0,
     premier |-> 0, libere |-> STACK_SIZE - 1, tous |-> FALSE]

(* The same stack for several of each, with broadcasts.                    *)
producteurs_consommateurs_2 ==
    [producteur_consommateur_2 EXCEPT !.prod = Producteurs, !.cons = Consommateurs,
                                      !.tous = TRUE]

ConstThreads == Producteurs \cup Consommateurs
ConstConds   == {"place", "car"}
Tous == {producteur_consommateur, producteurs_consommateurs,
         producteur_consommateur_2, producteurs_consommateurs_2}
SansNumero   == {producteurs_consommateurs}
=============================================================================

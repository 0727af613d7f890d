------------------------------ MODULE Barriere ------------------------------
(***************************************************************************)
(* What a barrier of N promises to its participants: nobody passes before  *)
(* N have arrived.  "En d'autres termes, on veut que tous les messages     *)
(* avant barriere soient affiches avant les messages apres barriere" (TME4 *)
(* pthread_barriere_implement.c) is the case of N participants.            *)
(***************************************************************************)
EXTENDS Naturals, FiniteSets

CONSTANTS Participants, N

VARIABLES
    arrives,    \* those that have announced themselves
    passes      \* those that wait_barrier has let go

bvars == <<arrives, passes>>

Init == arrives = {} /\ passes = {}

Arrive(t) ==
    /\ t \in Participants \ arrives
    /\ arrives' = arrives \cup {t}
    /\ UNCHANGED passes

Passe(t) ==
    /\ t \in arrives \ passes
    /\ Cardinality(arrives) >= N
    /\ passes' = passes \cup {t}
    /\ UNCHANGED arrives

(* The one who completes the barrier need not stop.                        *)
ArriveEtPasse(t) ==
    /\ t \in Participants \ arrives
    /\ Cardinality(arrives) + 1 >= N
    /\ arrives' = arrives \cup {t}
    /\ passes' = passes \cup {t}

Next == \E t \in Participants : Arrive(t) \/ Passe(t) \/ ArriveEtPasse(t)

Spec == Init /\ [][Next]_bvars
=============================================================================

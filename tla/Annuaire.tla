------------------------------ MODULE Annuaire ------------------------------
(***************************************************************************)
(* What the server of the chat promises about its users: the directory     *)
(* gains one user at a time, who came, and loses one at a time, who leaves.*)
(* How connexions and deconnexions travel, in which order they are treated *)
(* and where the names are kept is left open.                              *)
(***************************************************************************)
CONSTANT Users

VARIABLES
    membres,    \* the users of the directory
    venus,      \* those whose connexion was at least begun
    partis      \* those that were asked to leave

vars == <<membres, venus, partis>>

Init == membres = {} /\ venus = {} /\ partis = {}

Vient(u) ==
    /\ venus' = venus \cup {u}
    /\ UNCHANGED <<membres, partis>>

Part(u) ==
    /\ partis' = partis \cup {u}
    /\ UNCHANGED <<membres, venus>>

Inscrit(u) ==
    /\ u \in venus
    /\ membres' = membres \cup {u}
    /\ UNCHANGED <<venus, partis>>

Raye(u) ==
    /\ u \in partis
    /\ membres' = membres \ {u}
    /\ UNCHANGED <<venus, partis>>

Next == \E u \in Users : Vient(u) \/ Part(u) \/ Inscrit(u) \/ Raye(u)
=============================================================================

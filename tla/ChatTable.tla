------------------------------ MODULE ChatTable ------------------------------
(***************************************************************************)
(* The table of connected users of the chat server (TME7, serveur.c): the  *)
(* globals tabClient, nbUserCourant and emplacementVide, and what a        *)
(* connexion and a deconnexion message do to them.  Names is the set of    *)
(* non-empty strings a message may carry, NoName the empty string, which   *)
(* marks a hole.                                                           *)
(***************************************************************************)
EXTENDS Naturals

CONSTANTS MAX_USERS, Names, NoName

ASSUME TableAssumption == MAX_USERS \in Nat \ {0} /\ NoName \notin Names

VARIABLES
    tabClient,          \* the names, by index
    nbUserCourant,      \* the indices below it are scanned
    emplacementVide     \* a hole was found, once; the code never resets it

tvars == <<tabClient, nbUserCourant, emplacementVide>>

Slots == 0 .. MAX_USERS - 1
Used  == {i \in Slots : i < nbUserCourant}
Holes == {i \in Used : tabClient[i] = NoName}

TableInit ==
    /\ tabClient = [i \in Slots |-> NoName]
    /\ nbUserCourant = 0
    /\ emplacementVide = FALSE

(* case 1: the name goes into every hole; it is appended only when no hole *)
(* was ever found.  Bound: the code appends past the table as well; the    *)
(* model stops at MAX_USERS entries.                                       *)
Connexion(u) ==
    LET filled == [i \in Slots |-> IF i \in Holes THEN u ELSE tabClient[i]]
    IN  /\ emplacementVide' = (emplacementVide \/ Holes # {})
        /\ \/ /\ emplacementVide'
              /\ tabClient' = filled
              /\ UNCHANGED nbUserCourant
           \/ /\ ~emplacementVide'
              /\ nbUserCourant < MAX_USERS
              /\ tabClient' = [filled EXCEPT ![nbUserCourant] = u]
              /\ nbUserCourant' = nbUserCourant + 1

(* Mutants of Remove: the entry is emptied and nothing is moved down; every*)
(* entry from it on is emptied.                                            *)
RemoveSansDecaler(k) ==
    /\ tabClient' = [tabClient EXCEPT ![k] = NoName]
    /\ UNCHANGED <<nbUserCourant, emplacementVide>>

RemoveTronque(k) ==
    /\ tabClient' = [i \in Slots |-> IF i >= k THEN NoName ELSE tabClient[i]]
    /\ UNCHANGED <<nbUserCourant, emplacementVide>>

(* case 3: the first entry that bears the name is removed by moving the    *)
(* following ones down; the last scanned index becomes a hole.  The inner  *)
(* loop consumes the index of the outer one: a second entry stays.         *)
Remove(k) ==
    /\ tabClient' = [i \in Slots |->
                        IF i = nbUserCourant - 1 THEN NoName
                        ELSE IF i >= k /\ i + 1 \in Used THEN tabClient[i + 1]
                        ELSE tabClient[i]]
    /\ UNCHANGED <<nbUserCourant, emplacementVide>>

Deconnexion(u) ==
    \/ /\ \A i \in Used : tabClient[i] # u
       /\ UNCHANGED tvars
    \/ \E k \in Used : /\ tabClient[k] = u
                       /\ \A j \in Used : j < k => tabClient[j] # u
                       /\ Remove(k)

TableNext == \E u \in Names \cup {NoName} : Connexion(u) \/ Deconnexion(u)

TableSpec == TableInit /\ [][TableNext]_tvars

-----------------------------------------------------------------------------
TableTypeOK ==
    /\ tabClient \in [Slots -> Names \cup {NoName}]
    /\ nbUserCourant \in 0 .. MAX_USERS
    /\ emplacementVide \in BOOLEAN

(* Whatever the order of connexions and deconnexions, a hole is never      *)
(* followed by a name: the loop of a broadcast, which stops at             *)
(* nbUserCourant and skips holes, sees every name of the table.            *)
HolesAtEnd ==
    \A i, j \in Slots : i < j /\ tabClient[i] = NoName => tabClient[j] = NoName

Present == {tabClient[i] : i \in Used} \ {NoName}

(* One message makes at most one user disappear from the table: moving the *)
(* entries down and filling holes never overwrite another user.            *)
OneNameLeaves == [][\A u, v \in Present \ Present' : u = v]_tvars
=============================================================================

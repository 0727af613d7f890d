---------------------------- MODULE MCProcessus ----------------------------
(* The instance of Processus for TLC: all its programs, with N sons where  *)
(* the number is a parameter.                                              *)
EXTENDS Naturals

CONSTANTS N, MaxProcessus, Longueur, Valeurs
VARIABLES prog, etat, pere, ip, masque, pendants, val, trace, boite, pos, taille, tampon, sem, perdu

P == INSTANCE Processus WITH pc <- ip

ASSUME MCProcessusAssumption == P!ProcessusAssumption

SpecJuste == P!FairSpec

-----------------------------------------------------------------------------
(* Types, and the order of ends, creations and displays that the programs  *)
(* keep.                                                                   *)
Ordres == P!Ordres

(* What the programs compute.                                              *)
Resultats == P!Resultats

(* Every program ends, but for the cases named in Processus.               *)
Fin == P!Fin
=============================================================================

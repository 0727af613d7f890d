------------------------------- MODULE MCChat -------------------------------
(* Instances of Chat for TLC. *)
EXTENDS Chat, TLC

\* the contents a message may carry: a user name or a text
ConstNames == Clients \cup Texts

\* no client is told from another
Symmetry == Permutations(Clients)
=============================================================================

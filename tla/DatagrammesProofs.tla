------------------------- MODULE DatagrammesProofs -------------------------
(***************************************************************************)
(* Proofs about programs that exchange data: the server on several ports,  *)
(* for any ports and addresses; the pipe, for any input and capacity; the  *)
(* environment server over UDP, for any number of clients and of requests. *)
(* Their inductive invariants are SIInv, PIInv and IInv.                   *)
(***************************************************************************)
EXTENDS MCEchanges, SequenceTheorems, TLAPS

-----------------------------------------------------------------------------
(* The server on several ports.                                            *)

(* str keeps, up to the end of the longest address, what was written there,*)
(* and the '\0' of its initial value after it.                             *)
SIInv ==
    /\ file \in [1 .. Ports -> Seq(Adresses)] /\ readfds \subseteq 1 .. Ports
    /\ rang \in 0 .. Ports + 2
    /\ \A p \in readfds : rang # 0 /\ rang <= p => file[p] # <<>>
    /\ str \in [1 .. INET_ADDRSTRLEN + 1 -> Int] /\ plusLongue \in 0 .. INET_ADDRSTRLEN - 1
    /\ \A k \in 1 .. INET_ADDRSTRLEN + 1 : str[k] = 0 <=> plusLongue = 0 \/ plusLongue + 1 < k
    /\ S!LigneJuste

(* The parameters, in numbers.                                             *)
LEMMA ParametresSelect ==
  /\ Ports \in Nat /\ INET_ADDRSTRLEN \in Nat \ {0} /\ Adresses \subseteq 1 .. INET_ADDRSTRLEN - 1
  /\ S!TailleStr = INET_ADDRSTRLEN + 1 /\ S!Nul = 0 /\ S!Fin = -1
  BY MCEchangesAssumption DEF S!SelectAssumption, S!TailleStr, S!Nul, S!Fin

(* The first of the cells that satisfy a test, when those before do not.   *)
LEMMA PremierNul ==
  ASSUME NEW L \in Nat, NEW s \in [1 .. L -> Int], NEW z \in 1 .. L,
         s[z] = S!Nul, \A k \in 1 .. z - 1 : s[k] # S!Nul
  PROVE  S!SelectInSeq(s, LAMBDA x : x = S!Nul) = z
<1> DEFINE I == {i \in 1 .. Len(s) : s[i] = S!Nul}
<1>1. Len(s) = L
  BY LenProperties, SeqDef
<1>2. z \in I /\ \A y \in I : z <= y
  BY <1>1
<1>3. \A x \in I : (\A y \in I : x <= y) => x = z
  BY <1>2
<1>4. (CHOOSE x \in I : \A y \in I : x <= y) = z
  BY <1>2, <1>3
<1> QED BY <1>2, <1>4 DEF S!SelectInSeq, S!Min

(* str is all zeros before the first connexion.                            *)
LEMMA SInitOK == S!Init => SIInv
<1> SUFFICES ASSUME S!Init PROVE SIInv
  OBVIOUS
<1> USE ParametresSelect
<1>1. file \in [1 .. Ports -> Seq(Adresses)]
  BY EmptySeq DEF S!Init
<1> QED BY <1>1 DEF S!Init, SIInv, S!LigneJuste

(* The line written ends where the longest address did.                    *)
LEMMA SJournalOK ==
  ASSUME SIInv, NEW a \in Adresses, S!Journal(a), adresse' = a,
         plusLongue' = (IF a > plusLongue THEN a ELSE plusLongue)
  PROVE  /\ str' \in [1 .. INET_ADDRSTRLEN + 1 -> Int] /\ plusLongue' \in 0 .. INET_ADDRSTRLEN - 1
         /\ \A k \in 1 .. INET_ADDRSTRLEN + 1 : str'[k] = 0 <=> plusLongue' = 0 \/ plusLongue' + 1 < k
         /\ S!LigneJuste'
<1> USE ParametresSelect
<1> DEFINE s == [k \in 1 .. S!TailleStr |-> IF k <= a THEN a ELSE IF k = a + 1 THEN S!Fin ELSE str[k]]
           M == plusLongue'
<1>1. /\ str' = s /\ ligne' = SubSeq(s, 1, S!SelectInSeq(s, LAMBDA x : x = S!Nul) - 1)
  BY DEF S!Journal
<1>2. a \in 1 .. INET_ADDRSTRLEN - 1 /\ plusLongue \in 0 .. INET_ADDRSTRLEN - 1
  BY DEF SIInv
<1>3. M \in 1 .. INET_ADDRSTRLEN - 1 /\ a <= M
  BY <1>2
<1>4. s \in [1 .. S!TailleStr -> Int]
  <2>1. \A k \in 1 .. S!TailleStr : str[k] \in Int
    BY DEF SIInv
  <2> QED BY <1>2, <2>1
<1>5. \A k \in 1 .. S!TailleStr : s[k] = S!Nul <=> M + 1 < k
  <2> SUFFICES ASSUME NEW k \in 1 .. S!TailleStr PROVE s[k] = S!Nul <=> M + 1 < k
    OBVIOUS
  <2>1. CASE k <= a + 1
    BY <1>2, <1>3, <2>1
  <2>2. CASE ~(k <= a + 1)
    <3>1. s[k] = str[k]
      BY <1>2, <2>2
    <3>2. str[k] = S!Nul <=> plusLongue = 0 \/ plusLongue + 1 < k
      BY DEF SIInv
    <3>3. (plusLongue = 0 \/ plusLongue + 1 < k) <=> M + 1 < k
      BY <1>2, <2>2
    <3> QED BY <3>1, <3>2, <3>3
  <2> QED BY <2>1, <2>2
<1>0. adresse' = a /\ plusLongue' = M
  OBVIOUS
<1> HIDE DEF s, M
<1>6. S!SelectInSeq(s, LAMBDA x : x = S!Nul) = M + 2
  <2>1. M + 2 \in 1 .. S!TailleStr /\ S!TailleStr \in Nat
    BY <1>3
  <2>2. s[M + 2] = S!Nul
    BY <1>3, <1>5, <2>1
  <2>3. \A k \in 1 .. (M + 2) - 1 : s[k] # S!Nul
    BY <1>3, <1>5, <2>1
  <2> QED BY <1>4, <2>1, <2>2, <2>3, PremierNul
<1>7. ligne' = SubSeq(s, 1, M + 1)
  BY <1>1, <1>3, <1>6
<1>8. Len(s) = S!TailleStr /\ s \in Seq(Int)
  BY <1>4, LenProperties, SeqDef
<1>9. Len(ligne') = M + 1 /\ \A k \in 1 .. M + 1 : ligne'[k] = s[k]
  BY <1>3, <1>7, <1>8, SubSeqProperties
<1>10. S!LigneJuste'
  <2>1. \A k \in 1 .. a : s[k] = a
    BY <1>2 DEF s
  <2>2. s[a + 1] = S!Fin
    BY <1>2 DEF s
  <2>3. \A k \in 1 .. a : ligne'[k] = a
    BY <1>2, <1>3, <1>9, <2>1
  <2>4. ligne'[a + 1] = S!Fin
    BY <1>2, <1>3, <1>9, <2>2
  <2>5. Len(ligne') > a /\ Len(ligne') <= M + 1
    BY <1>2, <1>3, <1>9
  <2>6. \A k \in 1 .. adresse' : ligne'[k] = adresse'
    BY <1>0, <2>3
  <2>7. ligne'[adresse' + 1] = -1
    BY <1>0, <2>4
  <2>8. Len(ligne') > adresse' /\ Len(ligne') <= plusLongue' + 1
    BY <1>0, <2>5
  <2> QED BY <2>6, <2>7, <2>8 DEF S!LigneJuste, S!Fin
<1>11. str' \in [1 .. INET_ADDRSTRLEN + 1 -> Int]
  BY <1>1, <1>4
<1>12. plusLongue' \in 0 .. INET_ADDRSTRLEN - 1 /\ plusLongue' # 0
  BY <1>0, <1>2, <1>3
<1>13. \A k \in 1 .. INET_ADDRSTRLEN + 1 : str'[k] = 0 <=> plusLongue' + 1 < k
  BY <1>0, <1>1, <1>5
<1> QED BY <1>10, <1>11, <1>12, <1>13

(* Only the port that is accepted loses a connexion, and the loop is past it. *)
LEMMA SAccepteOK == ASSUME SIInv, S!Accepte PROVE SIInv'
<1> USE ParametresSelect
<1>1. rang \in readfds /\ rang \in 1 .. Ports /\ rang' = rang + 1 /\ readfds' = readfds
  BY DEF SIInv, S!Accepte
<1>2. file[rang] \in Seq(Adresses) /\ file[rang] # <<>> /\ file' = [file EXCEPT ![rang] = Tail(@)]
  BY <1>1 DEF SIInv, S!Accepte
<1>3. Head(file[rang]) \in Adresses /\ Tail(file[rang]) \in Seq(Adresses)
  BY <1>2, HeadTailProperties
<1>4. /\ str' \in [1 .. INET_ADDRSTRLEN + 1 -> Int] /\ plusLongue' \in 0 .. INET_ADDRSTRLEN - 1
      /\ \A k \in 1 .. INET_ADDRSTRLEN + 1 : str'[k] = 0 <=> plusLongue' = 0 \/ plusLongue' + 1 < k
      /\ S!LigneJuste'
  BY <1>3, SJournalOK DEF S!Accepte
<1>5. file' \in [1 .. Ports -> Seq(Adresses)]
  BY <1>2, <1>3 DEF SIInv
<1>6. \A p \in readfds' : rang' # 0 /\ rang' <= p => file'[p] # <<>>
  BY <1>1, <1>2 DEF SIInv
<1>7. readfds' \subseteq 1 .. Ports /\ rang' \in 0 .. Ports + 2
  BY <1>1 DEF SIInv
<1> QED BY <1>4, <1>5, <1>6, <1>7 DEF SIInv

(* What a step that writes nothing has to keep.                            *)
LEMMA SReste ==
  ASSUME SIInv, UNCHANGED <<str, ligne, adresse, plusLongue>>,
         file' \in [1 .. Ports -> Seq(Adresses)], readfds' \subseteq 1 .. Ports, rang' \in 0 .. Ports + 2,
         \A p \in readfds' : rang' # 0 /\ rang' <= p => file'[p] # <<>>
  PROVE  SIInv'
<1>1. S!LigneJuste'
  BY DEF SIInv, S!LigneJuste, S!Fin
<1>2. /\ str' \in [1 .. INET_ADDRSTRLEN + 1 -> Int] /\ plusLongue' \in 0 .. INET_ADDRSTRLEN - 1
      /\ \A k \in 1 .. INET_ADDRSTRLEN + 1 : str'[k] = 0 <=> plusLongue' = 0 \/ plusLongue' + 1 < k
  BY DEF SIInv
<1> QED BY <1>1, <1>2 DEF SIInv

(* No step of the server nor of a client breaks the invariant.             *)
LEMMA SStepOK == SIInv /\ [S!Next]_slvars => SIInv'
<1> SUFFICES ASSUME SIInv, [S!Next]_slvars PROVE SIInv'
  OBVIOUS
<1> USE ParametresSelect
<1>1. ASSUME NEW p \in 1 .. Ports, NEW a \in Adresses, S!Connexion(p, a) PROVE SIInv'
  <2>1. /\ file' = [file EXCEPT ![p] = Append(@, a)] /\ file[p] \in Seq(Adresses)
        /\ UNCHANGED <<readfds, rang, str, ligne, adresse, plusLongue>>
    BY <1>1 DEF SIInv, S!Connexion
  <2>2. Append(file[p], a) \in Seq(Adresses) /\ Append(file[p], a) # <<>>
    BY <2>1, AppendProperties
  <2>3. file' \in [1 .. Ports -> Seq(Adresses)]
    BY <2>1, <2>2 DEF SIInv
  <2>4. \A q \in readfds' : rang' # 0 /\ rang' <= q => file'[q] # <<>>
    BY <2>1, <2>2 DEF SIInv
  <2> QED BY <2>1, <2>3, <2>4, SReste DEF SIInv
<1>2. CASE S!Selectionne
  <2>1. readfds' = {p \in readfds : file[p] # <<>>} /\ UNCHANGED <<file, str, ligne, adresse, plusLongue>>
    BY <1>2 DEF S!Selectionne
  <2>2. rang' \in 0 .. Ports + 2
    BY <1>2 DEF S!Selectionne
  <2>3. file' \in [1 .. Ports -> Seq(Adresses)] /\ readfds' \subseteq 1 .. Ports
    BY <2>1 DEF SIInv
  <2>4. \A p \in readfds' : file'[p] # <<>>
    BY <2>1
  <2> QED BY <2>1, <2>2, <2>3, <2>4, SReste
<1>3. CASE S!Passe
  <2>1. rang \in 1 .. Ports /\ rang' = rang + 1 /\ UNCHANGED <<file, readfds, str, ligne, adresse, plusLongue>>
    BY <1>3 DEF S!Passe
  <2>2. \A p \in readfds : rang # 0 /\ rang <= p => file[p] # <<>>
    BY DEF SIInv
  <2>3. \A p \in readfds : rang' <= p => rang # 0 /\ rang <= p
    <3>1. readfds \subseteq 1 .. Ports
      BY DEF SIInv
    <3> QED BY <2>1, <3>1
  <2>4. rang' \in 0 .. Ports + 2
    BY <2>1
  <2>5. file \in [1 .. Ports -> Seq(Adresses)] /\ readfds \subseteq 1 .. Ports
    BY DEF SIInv
  <2> QED BY <2>1, <2>2, <2>3, <2>4, <2>5, SReste
<1>4. CASE S!Remet
  <2>1. rang' = 0 /\ readfds' = 1 .. Ports /\ UNCHANGED <<file, str, ligne, adresse, plusLongue>>
    BY <1>4 DEF S!Remet
  <2>2. file \in [1 .. Ports -> Seq(Adresses)]
    BY DEF SIInv
  <2> QED BY <2>1, <2>2, SReste
<1>5. CASE S!Interrompu \/ S!Echoue
  <2>1. /\ UNCHANGED <<file, readfds, str, ligne, adresse, plusLongue>>
        /\ (rang \in readfds /\ rang' = rang + 1) \/ rang' = Ports + 2
    BY <1>5 DEF S!Interrompu, S!Echoue, S!Sorti
  <2>2. /\ \A p \in readfds : rang # 0 /\ rang <= p => file[p] # <<>>
        /\ file \in [1 .. Ports -> Seq(Adresses)] /\ readfds \subseteq 1 .. Ports /\ rang \in 0 .. Ports + 2
    BY DEF SIInv
  <2>3. \A p \in readfds : rang' <= p => rang # 0 /\ rang <= p
    BY <2>1, <2>2
  <2>4. rang' \in 0 .. Ports + 2
    BY <2>1, <2>2
  <2> QED BY <2>1, <2>2, <2>3, <2>4, SReste
<1>6. CASE UNCHANGED slvars
  BY <1>6, SReste DEF slvars, SIInv
<1> QED BY <1>1, <1>2, <1>3, <1>4, <1>5, <1>6, SAccepteOK DEF S!Next, S!Serveur

(* For any ports, addresses and connexions: accept never blocks after      *)
(* select, and a line of cx.log begins with the whole address and goes no  *)
(* further than the longest address so far.                                *)
THEOREM TheoremeLigneJuste == MCSpec => []LigneJuste
<1>1. MCInit => SIInv
  BY SInitOK DEF MCInit
<1>2. SIInv /\ [MCNext]_<<exo, pvars, dgvars, slvars>> => SIInv'
  BY SStepOK DEF MCNext
<1>3. SIInv => LigneJuste
  <2> SUFFICES ASSUME SIInv PROVE LigneJuste
    OBVIOUS
  <2>1. INET_ADDRSTRLEN + 1 \in 1 .. INET_ADDRSTRLEN + 1 /\ plusLongue + 1 < INET_ADDRSTRLEN + 1
    BY ParametresSelect DEF SIInv
  <2>2. str[S!TailleStr] = S!Nul
    BY <2>1, ParametresSelect DEF SIInv
  <2>3. S!JamaisBloque
    BY <2>2 DEF SIInv, S!JamaisBloque
  <2> QED BY <2>3 DEF SIInv, LigneJuste
<1> QED BY <1>1, <1>2, <1>3, PTL DEF MCSpec

-----------------------------------------------------------------------------
(* The pipe.                                                               *)

(* The character that is typed after x; the last one comes again and again.*)
Suivant(x) == IF x < Saisis THEN x + 1 ELSE Saisis

Dernier == IF tube = <<>> THEN cServeur ELSE tube[Len(tube)]

(* Nothing more will be read from the pipe.                                *)
Muet == ~fdread \/ (tube = <<>> /\ ~fdwrite)

PTypes ==
    /\ tube \in Seq(0 .. Saisis) /\ Len(tube) <= Capacite
    /\ sortie \in Seq(Nat) /\ Len(sortie) <= MaxSortie
    /\ cClient \in 0 .. Saisis /\ cServeur \in 0 .. Saisis /\ saisi \in 0 .. Saisis
    /\ pcClient \in {"open", "attend", "sansNom", "read", "write", "fini"}
    /\ pcServeur \in {"mkfifo", "open", "attend", "sansNom", "read", "printf", "fini"}
    /\ fdwrite \in BOOLEAN /\ fdread \in BOOLEAN /\ ecoute \in BOOLEAN /\ ecouteClient \in BOOLEAN

(* Until the server opens the pipe, nothing has been typed.                *)
PDebut ==
    pcServeur \in {"mkfifo", "open", "attend", "sansNom"} =>
        /\ tube = <<>> /\ sortie = <<>> /\ saisi = 0 /\ cClient = 0 /\ cServeur = 0
        /\ ~fdwrite /\ ~fdread /\ pcClient \in {"open", "attend", "sansNom", "fini"}

(* While both ends are open, what the server has read, what is in the pipe *)
(* and what the client holds follow one another.                           *)
PFlux ==
    /\ tube # <<>> => tube[1] = Suivant(cServeur)
    /\ \A k \in 1 .. Len(tube) - 1 : tube[k + 1] = Suivant(tube[k])
    /\ fdwrite /\ fdread /\ pcClient = "read" => saisi = Dernier
    /\ fdwrite /\ fdread /\ pcClient = "write" => saisi = Suivant(Dernier) /\ cClient = saisi

(* The characters displayed are those read: none is missing, and one that  *)
(* is displayed twice is the last.                                         *)
PSortie ==
    /\ \A k \in 1 .. Len(sortie) : sortie[k] = T!Toupper(IF k <= cServeur THEN k ELSE cServeur)
    /\ Len(sortie) = MaxSortie \/ cServeur <= Len(sortie) + (IF pcServeur = "printf" THEN 1 ELSE 0)
    /\ Muet \/ cServeur = Saisis \/ Len(sortie) + (IF pcServeur = "printf" THEN 1 ELSE 0) <= cServeur

PIInv == PTypes /\ PDebut /\ PFlux /\ PSortie


(* The parameters, in numbers.                                             *)
LEMMA ParametresTube ==
  /\ Saisis \in Nat \ {0} /\ Capacite \in Nat \ {0} /\ MaxSortie \in Nat
  /\ \A c : T!Toupper(c) = IF c = 0 THEN 0 ELSE Saisis + c
  BY MCEchangesAssumption DEF T!TubeAssumption, T!Toupper

(* Nothing is typed, in the pipe or displayed.                             *)
LEMMA PInitOK == T!Init => PIInv
<1> SUFFICES ASSUME T!Init PROVE PIInv
  OBVIOUS
<1> USE ParametresTube DEF T!Init
<1>1. fdwrite \in BOOLEAN /\ fdread \in BOOLEAN /\ ecoute \in BOOLEAN /\ ecouteClient \in BOOLEAN
  OBVIOUS
<1>2. tube \in Seq(0 .. Saisis) /\ sortie \in Seq(Nat) /\ Len(tube) = 0 /\ Len(sortie) = 0
  BY EmptySeq
<1>3. PTypes
  BY <1>1, <1>2 DEF PTypes
<1>4. PDebut
  BY DEF PDebut
<1>5. PFlux
  BY <1>2 DEF PFlux, Dernier
<1>6. PSortie
  BY <1>2 DEF PSortie
<1> QED BY <1>3, <1>4, <1>5, <1>6 DEF PIInv

(* What a step that leaves the output and the server's character, and does *)
(* not open the pipe again, leaves to the output.                          *)
LEMMA PSortieGardee ==
  ASSUME PIInv, UNCHANGED <<sortie, cServeur>>, Muet => Muet',
         pcServeur' = "printf" <=> pcServeur = "printf"
  PROVE  PSortie'
  BY ParametresTube DEF PIInv, PSortie, T!Toupper

(* The pipe opens empty.                                                   *)
LEMMA POuvreOK ==
  ASSUME PIInv,
         T!Mkfifo \/ T!ClientOpen \/ T!ServeurOpen \/ T!ClientOpenEchoue \/ T!ServeurOpenEchoue
  PROVE  PIInv'
<1> USE ParametresTube
<1> DEFINE Ouverts == T!Open /\ pcServeur \in {"open", "attend"}
<1>0. \/ Ouverts
      \/ /\ UNCHANGED <<tube, saisi, cClient, cServeur, sortie, ecoute, ecouteClient, fdwrite, fdread>>
         /\ \/ pcClient' = pcClient
            \/ pcClient = "open" /\ pcClient' \in {"attend", "fini"}
         /\ \/ pcServeur' = pcServeur
            \/ pcServeur \in {"mkfifo", "open"} /\ pcServeur' \in {"open", "attend", "fini"}
  <2>1. CASE T!Mkfifo
    BY <2>1 DEF T!Mkfifo
  <2>2. CASE T!ClientOpen
    BY <2>2 DEF T!ClientOpen
  <2>3. CASE T!ServeurOpen
    BY <2>3 DEF T!ServeurOpen
  <2>4. CASE T!ClientOpenEchoue \/ T!ServeurOpenEchoue
    BY <2>4 DEF T!ClientOpenEchoue, T!ServeurOpenEchoue
  <2> QED BY <2>1, <2>2, <2>3, <2>4
<1>1. UNCHANGED <<tube, saisi, cClient, cServeur, sortie, ecoute, ecouteClient>>
  BY <1>0 DEF T!Open
<1>2. PTypes'
  <2>1. fdwrite' \in BOOLEAN /\ fdread' \in BOOLEAN
    BY <1>0 DEF PIInv, PTypes, T!Open
  <2>2. /\ pcClient' \in {"open", "attend", "sansNom", "read", "write", "fini"}
        /\ pcServeur' \in {"mkfifo", "open", "attend", "sansNom", "read", "printf", "fini"}
    BY <1>0 DEF PIInv, PTypes, T!Open
  <2> QED BY <1>1, <2>1, <2>2 DEF PIInv, PTypes
<1>3. PDebut'
  BY <1>0 DEF PIInv, PDebut, T!Open
<1>4. CASE ~Ouverts
  <2>1. UNCHANGED <<fdwrite, fdread>> /\ (pcServeur' = "printf" <=> pcServeur = "printf")
    BY <1>0, <1>4
  <2>2. PSortie'
    BY <1>1, <2>1, PSortieGardee DEF Muet
  <2>3. pcClient' = pcClient \/ pcClient' \in {"attend", "fini"}
    BY <1>0, <1>4
  <2>4. PFlux'
    BY <1>1, <2>1, <2>3 DEF PIInv, PFlux, Dernier, Suivant
  <2> QED BY <1>2, <1>3, <2>2, <2>4 DEF PIInv
<1>5. CASE Ouverts
  <2>1. tube = <<>> /\ sortie = <<>> /\ saisi = 0 /\ cClient = 0 /\ cServeur = 0 /\ Len(sortie) = 0 /\ Len(tube) = 0
    BY <1>5 DEF PIInv, PDebut, T!Open
  <2>2. pcClient' \in {"read", "fini"} /\ pcServeur' \in {"read", "fini"}
    BY <1>5 DEF T!Open
  <2>3. PFlux'
    BY <1>1, <2>1, <2>2 DEF PFlux, Dernier
  <2>4. PSortie'
    BY <1>1, <2>1, <2>2 DEF PSortie
  <2> QED BY <1>2, <1>3, <2>3, <2>4 DEF PIInv
<1> QED BY <1>4, <1>5

(* The client takes the next character, or keeps the last one.             *)
LEMMA PClientLitOK == ASSUME PIInv, T!ClientLit PROVE PIInv'
<1> USE ParametresTube
<1>1. /\ pcClient = "read" /\ pcClient' = "write" /\ cClient' = saisi'
      /\ saisi' = IF saisi < Saisis THEN saisi + 1 ELSE saisi
      /\ UNCHANGED <<tube, fdwrite, fdread, cServeur, ecouteClient, ecoute, pcServeur, sortie>>
  BY DEF T!ClientLit
<1>2. saisi' = Suivant(saisi) /\ saisi' \in 0 .. Saisis
  BY <1>1 DEF PIInv, PTypes, Suivant
<1>3. PTypes'
  BY <1>1, <1>2 DEF PIInv, PTypes
<1>4. PDebut'
  BY <1>1 DEF PIInv, PDebut
<1>5. PFlux'
  <2>1. Dernier' = Dernier /\ \A x : Suivant(x)' = Suivant(x)
    BY <1>1 DEF Dernier, Suivant
  <2> QED BY <1>1, <1>2, <2>1 DEF PIInv, PFlux, Suivant
<1>6. PSortie'
  BY <1>1, PSortieGardee DEF Muet
<1> QED BY <1>3, <1>4, <1>5, <1>6 DEF PIInv

(* A character enters the pipe after the one before it; one that does not  *)
(* finds it closed for ever.                                               *)
LEMMA PClientEcritOK == ASSUME PIInv, T!ClientEcrit PROVE PIInv'
<1> USE ParametresTube
<1>1. /\ pcClient = "write" /\ pcClient' \in {"read", "fini"}
      /\ fdwrite' = (fdwrite /\ ecouteClient)
      /\ UNCHANGED <<saisi, fdread, cClient, cServeur, ecouteClient, ecoute, pcServeur, sortie>>
  BY DEF T!ClientEcrit
<1>2. \/ fdwrite /\ fdread /\ Len(tube) < Capacite /\ tube' = Append(tube, cClient)
      \/ ~(fdwrite /\ fdread) /\ tube' = tube
  BY DEF T!ClientEcrit
<1>3. tube \in Seq(0 .. Saisis) /\ cClient \in 0 .. Saisis /\ Len(tube) \in Nat
  BY LenProperties DEF PIInv, PTypes
<1>4. CASE fdwrite /\ fdread
  <2>1. /\ tube' \in Seq(0 .. Saisis) /\ Len(tube') = Len(tube) + 1 /\ Len(tube') <= Capacite
        /\ \A k \in 1 .. Len(tube) : tube'[k] = tube[k]
        /\ tube'[Len(tube) + 1] = cClient /\ tube' # <<>>
    <3>1. tube' = Append(tube, cClient) /\ Len(tube) < Capacite
      BY <1>2, <1>4
    <3>2. Len(tube') = Len(tube) + 1 /\ Len(tube') <= Capacite
      BY <1>3, <3>1, AppendProperties
    <3> QED BY <1>3, <3>1, <3>2, AppendProperties
  <2>2. cClient = Suivant(Dernier) /\ saisi = cClient
    BY <1>1, <1>4 DEF PIInv, PFlux
  <2>3. Dernier' = cClient
    BY <2>1 DEF Dernier
  <2>4. tube'[1] = Suivant(cServeur)
    <3>1. CASE tube = <<>>
      <4>1. Len(tube) = 0
        BY <3>1
      <4> QED BY <2>1, <2>2, <3>1, <4>1 DEF Dernier
    <3>2. CASE tube # <<>>
      <4>1. Len(tube) >= 1
        BY <1>3, <3>2, EmptySeq
      <4> QED BY <2>1, <3>2, <4>1 DEF PIInv, PFlux
    <3> QED BY <3>1, <3>2
  <2>5. ASSUME NEW k \in 1 .. Len(tube') - 1 PROVE tube'[k + 1] = Suivant(tube'[k])
    <3>1. CASE k < Len(tube)
      <4>1. k \in 1 .. Len(tube) - 1 /\ k \in 1 .. Len(tube) /\ k + 1 \in 1 .. Len(tube)
        BY <1>3, <3>1
      <4>2. tube[k + 1] = Suivant(tube[k])
        BY <4>1 DEF PIInv, PFlux
      <4> QED BY <2>1, <4>1, <4>2
    <3>2. CASE ~(k < Len(tube))
      <4>1. k = Len(tube) /\ k >= 1
        BY <1>3, <2>1, <3>2
      <4>2. tube # <<>>
        BY <4>1
      <4>3. Dernier = tube[k]
        BY <4>1, <4>2 DEF Dernier
      <4> QED BY <2>1, <2>2, <4>1, <4>3
    <3> QED BY <3>1, <3>2
  <2>6. PTypes'
    <3>1. fdwrite' \in BOOLEAN
      BY <1>1 DEF PIInv, PTypes
    <3> QED BY <1>1, <2>1, <3>1 DEF PIInv, PTypes
  <2>7. PDebut'
    BY <1>1, <1>4 DEF PIInv, PDebut
  <2>8. PFlux'
    BY <1>1, <2>2, <2>3, <2>4, <2>5 DEF PFlux, Suivant
  <2>9. ~Muet
    <3>1. tube = <<>> => FALSE \/ fdwrite
      BY <1>4
    <3> QED BY <1>4 DEF Muet
  <2>10. PSortie'
    BY <1>1, <2>9, PSortieGardee
  <2> QED BY <2>6, <2>7, <2>8, <2>10 DEF PIInv
<1>5. CASE ~(fdwrite /\ fdread)
  <2>1. tube' = tube /\ ~(fdwrite' /\ fdread') /\ (~fdwrite => ~fdwrite')
    BY <1>1, <1>2, <1>5
  <2>2. PTypes'
    <3>1. fdwrite' \in BOOLEAN
      BY <1>1 DEF PIInv, PTypes
    <3> QED BY <1>1, <2>1, <3>1 DEF PIInv, PTypes
  <2>3. PDebut'
    BY <1>1, <2>1 DEF PIInv, PDebut
  <2>4. PFlux'
    BY <1>1, <2>1 DEF PIInv, PFlux, Suivant
  <2>5. Muet => Muet'
    BY <1>1, <2>1 DEF Muet
  <2>6. PSortie'
    BY <1>1, <2>5, PSortieGardee
  <2> QED BY <2>2, <2>3, <2>4, <2>6 DEF PIInv
<1> QED BY <1>4, <1>5

(* A character is read in its turn, or nothing is left to read.            *)
LEMMA PServeurLitOK == ASSUME PIInv, T!ServeurLit PROVE PIInv'
<1> USE ParametresTube
<1>1. /\ pcServeur = "read" /\ pcServeur' \in {"printf", "read"}
      /\ UNCHANGED <<saisi, fdwrite, fdread, cClient, ecouteClient, ecoute, pcClient, sortie>>
  BY DEF T!ServeurLit
<1>2. /\ tube \in Seq(0 .. Saisis) /\ Len(tube) \in Nat /\ Len(sortie) \in Nat
      /\ cServeur \in 0 .. Saisis
  BY LenProperties DEF PIInv, PTypes
<1>3. CASE fdread /\ tube # <<>> /\ cServeur' = Head(tube) /\ tube' = Tail(tube) /\ pcServeur' = "printf"
  <2>1. /\ tube' \in Seq(0 .. Saisis) /\ Len(tube) >= 1 /\ Len(tube') = Len(tube) - 1
        /\ \A k \in 1 .. Len(tube') : tube'[k] = tube[k + 1]
        /\ Head(tube) = tube[1] /\ tube[1] \in 0 .. Saisis
    BY <1>2, <1>3, HeadTailProperties, EmptySeq, ElementOfSeq
  <2>2. cServeur' = Suivant(cServeur) /\ cServeur' = tube[1] /\ cServeur' \in 0 .. Saisis
    BY <1>3, <2>1 DEF PIInv, PFlux
  <2>3. PTypes'
    BY <1>1, <2>1, <2>2 DEF PIInv, PTypes
  <2>4. PDebut'
    BY <1>1 DEF PDebut
  <2>5. Dernier' = Dernier
    <3>1. CASE Len(tube) = 1
      <4>1. tube' = <<>>
        BY <2>1, <3>1, EmptySeq
      <4> QED BY <1>3, <2>2, <3>1, <4>1 DEF Dernier
    <3>2. CASE Len(tube) # 1
      <4>1. Len(tube') \in 1 .. Len(tube') /\ tube' # <<>>
        BY <1>2, <2>1, <3>2
      <4> QED BY <1>3, <2>1, <4>1 DEF Dernier
    <3> QED BY <3>1, <3>2
  <2>6. \A k \in 1 .. Len(tube) - 1 : tube[k + 1] = Suivant(tube[k])
    BY DEF PIInv, PFlux
  <2>7. tube' # <<>> => tube'[1] = Suivant(cServeur')
    <3> SUFFICES ASSUME tube' # <<>> PROVE tube'[1] = Suivant(tube[1])
      BY <2>2
    <3>1. Len(tube') >= 1
      BY <2>1, EmptySeq
    <3>2. 1 \in 1 .. Len(tube') /\ 1 \in 1 .. Len(tube) - 1
      BY <2>1, <3>1
    <3> QED BY <2>1, <2>6, <3>2
  <2>8. \A k \in 1 .. Len(tube') - 1 : tube'[k + 1] = Suivant(tube'[k])
    <3> SUFFICES ASSUME NEW k \in 1 .. Len(tube') - 1 PROVE tube'[k + 1] = Suivant(tube'[k])
      OBVIOUS
    <3>1. k \in 1 .. Len(tube') /\ k + 1 \in 1 .. Len(tube') /\ k + 1 \in 1 .. Len(tube) - 1
      BY <1>2, <2>1
    <3> QED BY <2>1, <2>6, <3>1
  <2>9. PFlux'
    BY <1>1, <2>5, <2>7, <2>8 DEF PIInv, PFlux, Suivant
  <2>10. ~Muet
    BY <1>3 DEF Muet
  <2>11. cServeur = Saisis \/ Len(sortie) <= cServeur
    BY <1>1, <2>10 DEF PIInv, PSortie
  <2>12. cServeur' = IF cServeur < Saisis THEN cServeur + 1 ELSE Saisis
    BY <2>2 DEF Suivant
  <2>13. \A k \in 1 .. Len(sortie) : (IF k <= cServeur THEN k ELSE cServeur) = IF k <= cServeur' THEN k ELSE cServeur'
    BY <1>2, <2>11, <2>12
  <2>14. \A k \in 1 .. Len(sortie) : sortie[k] = T!Toupper(IF k <= cServeur' THEN k ELSE cServeur')
    <3>1. \A k \in 1 .. Len(sortie) : sortie[k] = T!Toupper(IF k <= cServeur THEN k ELSE cServeur)
      BY DEF PIInv, PSortie
    <3> QED BY <2>13, <3>1
  <2>15. Len(sortie) = MaxSortie \/ cServeur' <= Len(sortie) + 1
    <3>1. Len(sortie) = MaxSortie \/ cServeur <= Len(sortie)
      BY <1>1, <1>2 DEF PIInv, PSortie
    <3> QED BY <1>2, <2>12, <3>1
  <2>16. cServeur' = Saisis \/ Len(sortie) + 1 <= cServeur'
    BY <1>2, <2>11, <2>12
  <2>17. PSortie'
    BY <1>1, <1>3, <2>14, <2>15, <2>16 DEF PSortie, T!Toupper
  <2> QED BY <2>3, <2>4, <2>9, <2>17 DEF PIInv
<1>4. CASE (~fdread \/ (tube = <<>> /\ ~fdwrite)) /\ UNCHANGED <<tube, cServeur>>
  <2>1. Muet /\ Muet'
    BY <1>1, <1>4 DEF Muet
  <2>2. PTypes'
    BY <1>1, <1>4 DEF PIInv, PTypes
  <2>3. PDebut'
    BY <1>1 DEF PDebut
  <2>4. PFlux'
    BY <1>1, <1>4 DEF PIInv, PFlux, Dernier, Suivant
  <2>5. Len(sortie) = MaxSortie \/ cServeur <= Len(sortie)
    BY <1>1, <1>2 DEF PIInv, PSortie
  <2>6. PSortie'
    <3>1. \A k \in 1 .. Len(sortie') : sortie'[k] = T!Toupper(IF k <= cServeur' THEN k ELSE cServeur')
      BY <1>1, <1>4 DEF PIInv, PSortie
    <3>2. Len(sortie') = MaxSortie \/ cServeur' <= Len(sortie') + (IF pcServeur' = "printf" THEN 1 ELSE 0)
      BY <1>1, <1>2, <1>4, <2>5
    <3> QED BY <2>1, <3>1, <3>2 DEF PSortie, T!Toupper
  <2> QED BY <2>2, <2>3, <2>4, <2>6 DEF PIInv
<1> QED BY <1>3, <1>4 DEF T!ServeurLit

(* What is displayed is the character read last.                           *)
LEMMA PServeurAfficheOK == ASSUME PIInv, T!ServeurAffiche PROVE PIInv'
<1> USE ParametresTube
<1>0. fdread' = (fdread /\ ecoute)
  BY DEF T!ServeurAffiche
<1>1. /\ pcServeur = "printf" /\ pcServeur' \in {"read", "fini"} /\ pcServeur' # "printf"
      /\ sortie' = IF Len(sortie) < MaxSortie THEN Append(sortie, T!Toupper(cServeur)) ELSE sortie
      /\ UNCHANGED <<tube, saisi, fdwrite, cClient, cServeur, ecouteClient, ecoute, pcClient>>
  BY DEF T!ServeurAffiche
<1>2. sortie \in Seq(Nat) /\ Len(sortie) \in Nat /\ cServeur \in 0 .. Saisis /\ Len(sortie) <= MaxSortie
  BY LenProperties DEF PIInv, PTypes
<1>3. T!Toupper(cServeur) \in Nat
  BY <1>2
<1>4. Muet => Muet'
  BY <1>0, <1>1 DEF Muet
<1>5. PDebut'
  BY <1>1 DEF PDebut
<1>6. PFlux'
  BY <1>0, <1>1 DEF PIInv, PFlux, Dernier, Suivant
<1>7. \A k \in 1 .. Len(sortie) : sortie[k] = T!Toupper(IF k <= cServeur THEN k ELSE cServeur)
  BY DEF PIInv, PSortie
<1>8. Len(sortie) = MaxSortie \/ cServeur <= Len(sortie) + 1
  BY <1>1 DEF PIInv, PSortie
<1>9. Muet \/ cServeur = Saisis \/ Len(sortie) + 1 <= cServeur
  BY <1>1 DEF PIInv, PSortie
<1>10. fdread' \in BOOLEAN
  BY <1>0 DEF PIInv, PTypes
<1>11. CASE Len(sortie) < MaxSortie
  <2>1. /\ sortie' \in Seq(Nat) /\ Len(sortie') = Len(sortie) + 1
        /\ \A k \in 1 .. Len(sortie) : sortie'[k] = sortie[k]
        /\ sortie'[Len(sortie) + 1] = T!Toupper(cServeur)
    BY <1>1, <1>2, <1>3, <1>11, AppendProperties
  <2>2. PTypes'
    BY <1>1, <1>10, <1>11, <1>2, <2>1 DEF PIInv, PTypes
  <2>3. cServeur <= Len(sortie) + 1
    BY <1>2, <1>8, <1>11
  <2>4. ASSUME NEW k \in 1 .. Len(sortie')
        PROVE  sortie'[k] = T!Toupper(IF k <= cServeur THEN k ELSE cServeur)
    <3>1. CASE k \in 1 .. Len(sortie)
      BY <1>7, <2>1, <3>1
    <3>2. CASE k \notin 1 .. Len(sortie)
      <4>1. k = Len(sortie) + 1
        BY <1>2, <2>1, <3>2
      <4>2. (IF k <= cServeur THEN k ELSE cServeur) = cServeur
        BY <1>2, <2>3, <4>1
      <4> QED BY <2>1, <4>1, <4>2
    <3> QED BY <3>1, <3>2
  <2>5. PSortie'
    <3>0. cServeur' = cServeur /\ (IF pcServeur' = "printf" THEN 1 ELSE 0) = 0
      BY <1>1
    <3>1. cServeur' <= Len(sortie') + (IF pcServeur' = "printf" THEN 1 ELSE 0)
      BY <1>2, <2>1, <2>3, <3>0
    <3>2. Muet' \/ cServeur' = Saisis \/ Len(sortie') + (IF pcServeur' = "printf" THEN 1 ELSE 0) <= cServeur'
      <4>1. CASE Muet
        BY <1>4, <4>1
      <4>2. CASE ~Muet
        <5>1. cServeur = Saisis \/ Len(sortie) + 1 <= cServeur
          BY <1>9, <4>2
        <5> QED BY <1>2, <2>1, <3>0, <5>1
      <4> QED BY <4>1, <4>2
    <3> QED BY <1>1, <2>4, <3>1, <3>2 DEF PSortie, T!Toupper
  <2> QED BY <1>5, <1>6, <2>2, <2>5 DEF PIInv
<1>12. CASE ~(Len(sortie) < MaxSortie)
  <2>1. sortie' = sortie /\ Len(sortie) = MaxSortie
    BY <1>1, <1>2, <1>12
  <2>2. PTypes'
    BY <1>1, <1>10, <2>1 DEF PIInv, PTypes
  <2>3. PSortie'
    <3>1. Muet' \/ cServeur' = Saisis \/ Len(sortie') + (IF pcServeur' = "printf" THEN 1 ELSE 0) <= cServeur'
      <4>1. CASE Muet
        BY <1>4, <4>1
      <4>2. CASE ~Muet
        <5>1. cServeur = Saisis \/ Len(sortie) + 1 <= cServeur
          BY <1>9, <4>2
        <5>2. cServeur' = cServeur /\ (IF pcServeur' = "printf" THEN 1 ELSE 0) = 0
          BY <1>1
        <5> QED BY <1>2, <2>1, <5>1, <5>2
      <4> QED BY <4>1, <4>2
    <3>2. Len(sortie') = MaxSortie
      BY <2>1
    <3>3. \A k \in 1 .. Len(sortie') : sortie'[k] = T!Toupper(IF k <= cServeur' THEN k ELSE cServeur')
      BY <1>1, <1>7, <2>1
    <3> QED BY <3>1, <3>2, <3>3 DEF PSortie, T!Toupper
  <2> QED BY <1>5, <1>6, <2>2, <2>3 DEF PIInv
<1> QED BY <1>11, <1>12

(* SIGINT closes an end of the pipe: nothing more passes through it.       *)
LEMMA PInterrompuOK == ASSUME PIInv, T!IntClient \/ T!IntServeur PROVE PIInv'
<1> USE ParametresTube
<1>1. UNCHANGED <<tube, saisi, cClient, cServeur, sortie>> /\ ~(fdwrite' /\ fdread')
  BY DEF T!IntClient, T!IntServeur
<1>2. /\ fdwrite' \in BOOLEAN /\ fdread' \in BOOLEAN /\ ecoute' \in BOOLEAN /\ ecouteClient' \in BOOLEAN
      /\ (~fdwrite => ~fdwrite') /\ (~fdread => ~fdread')
  <2>1. fdwrite \in BOOLEAN /\ fdread \in BOOLEAN /\ ecoute \in BOOLEAN /\ ecouteClient \in BOOLEAN
    BY DEF PIInv, PTypes
  <2>2. CASE T!IntClient
    <3>1. fdwrite' = FALSE /\ ecouteClient' = FALSE /\ fdread' = fdread /\ ecoute' = ecoute
      BY <2>2 DEF T!IntClient
    <3> QED BY <2>1, <3>1
  <2>3. CASE T!IntServeur
    <3>1. fdread' = FALSE /\ ecoute' = FALSE /\ fdwrite' = fdwrite /\ ecouteClient' = ecouteClient
      BY <2>3 DEF T!IntServeur
    <3> QED BY <2>1, <3>1
  <2> QED BY <2>2, <2>3
<1>3. /\ pcClient' \in {"open", "attend", "sansNom", "read", "write", "fini"}
      /\ pcServeur' \in {"mkfifo", "open", "attend", "sansNom", "read", "printf", "fini"}
      /\ pcServeur' = "printf" <=> pcServeur = "printf"
      /\ pcServeur' \in {"mkfifo", "open", "attend", "sansNom"} =>
            /\ pcServeur \in {"mkfifo", "open", "attend", "sansNom"}
            /\ pcClient \in {"open", "attend", "sansNom", "fini"} =>
                  pcClient' \in {"open", "attend", "sansNom", "fini"}
  <2>1. /\ pcClient \in {"open", "attend", "sansNom", "read", "write", "fini"}
        /\ pcServeur \in {"mkfifo", "open", "attend", "sansNom", "read", "printf", "fini"}
    BY DEF PIInv, PTypes
  <2>2. CASE T!IntClient
    BY <2>1, <2>2 DEF T!IntClient, T!Abandonne, T!Unlink
  <2>3. CASE T!IntServeur
    BY <2>1, <2>3 DEF T!IntServeur, T!Abandonne, T!Unlink
  <2> QED BY <2>2, <2>3
<1>4. PTypes'
  BY <1>1, <1>2, <1>3 DEF PIInv, PTypes
<1>5. PDebut'
  BY <1>1, <1>2, <1>3 DEF PIInv, PDebut
<1>6. PFlux'
  BY <1>1 DEF PIInv, PFlux, Suivant
<1>7. PSortie'
  BY <1>1, <1>2, <1>3, PSortieGardee DEF Muet
<1> QED BY <1>4, <1>5, <1>6, <1>7 DEF PIInv

(* No step of either program breaks the invariant.                         *)
LEMMA PStepOK == PIInv /\ [T!Next]_pvars => PIInv'
<1> SUFFICES ASSUME PIInv, [T!Next]_pvars PROVE PIInv'
  OBVIOUS
<1>1. CASE UNCHANGED pvars
  BY <1>1 DEF pvars, PIInv, PTypes, PDebut, PFlux, PSortie, Muet, Dernier, Suivant, T!Toupper
<1> QED BY <1>1, POuvreOK, PClientLitOK, PClientEcritOK, PServeurLitOK, PServeurAfficheOK, PInterrompuOK
      DEF T!Next, T!Serveur, T!Client

(* Whoever is interrupted and whenever, for any input, any capacity of the *)
(* pipe and any number of characters displayed: nothing is lost in the     *)
(* middle, and only the last character is displayed again.                 *)
THEOREM TheoremeTranscription == MCSpec => []Transcription
<1>1. MCInit => PIInv
  BY PInitOK DEF MCInit
<1>2. PIInv /\ [MCNext]_<<exo, pvars, dgvars, slvars>> => PIInv'
  BY PStepOK DEF MCNext
<1>3. PIInv => Transcription
  <2> SUFFICES ASSUME PIInv PROVE Transcription
    OBVIOUS
  <2>1. T!TypeOK
    BY DEF PIInv, PTypes, T!TypeOK
  <2>2. cServeur \in 0 .. Saisis
    BY DEF PIInv, PTypes
  <2>3. T!Transcription
    BY <2>2 DEF PIInv, PSortie, T!Transcription
  <2> QED BY <2>1, <2>3 DEF Transcription
<1> QED BY <1>1, <1>2, <1>3, PTL DEF MCSpec

-----------------------------------------------------------------------------
(* The environment server.                                                 *)

USE DatagrammesAssumption

Reglages == Clients \X Nat
Textes   == {Done, Indefinie} \cup Reglages

Types ==
    /\ requetes \subseteq [de : Clients, no : Nat, cmd : Commandes]
    /\ reponses \subseteq [a : Clients, no : Nat, texte : Textes]
    /\ env \in {Indefinie} \cup Reglages
    /\ mort \in BOOLEAN
    /\ n \in [Clients -> 0 .. MaxRequetes]
    /\ attend \in [Clients -> BOOLEAN]
    /\ commande \in [Clients -> Commandes]
    /\ recu \in [Clients -> [pour : Nat, texte : Textes]]
    /\ effets \in Seq(Reglages)
    /\ acquittes \subseteq Reglages
    /\ vus \in [Clients -> SUBSET Reglages]
    /\ copies \in 0 .. MaxCopies
    /\ \A m \in requetes : m.no \in 1 .. MaxRequetes
    /\ env = (IF effets = <<>> THEN Indefinie ELSE effets[Len(effets)])

(* At most one datagram that concerns a client is in the network: its      *)
(* request or the answer to it, and only while it waits.                   *)
UnSeul ==
    copies = 0 =>
        /\ \A m \in requetes : attend[m.de] /\ m.no = n[m.de] /\ m.cmd = commande[m.de]
        /\ \A r \in reponses : attend[r.a] /\ r.no = n[r.a]
        /\ \A m1, m2 \in requetes : m1.de = m2.de => m1 = m2
        /\ \A r1, r2 \in reponses : r1.a = r2.a => r1 = r2
        /\ \A m \in requetes, r \in reponses : m.de # r.a

(* What an answer in the network says: a setting was made, a reading is    *)
(* not older than what its client had seen.                                *)
Fait(s) == \E i \in 1 .. Len(effets) : effets[i] = s

Fraiche(c, texte) == Fait(texte) /\ \A s \in vus[c] : Precede(s, texte)

Reponses ==
    copies = 0 =>
        /\ \A s \in acquittes : Fait(s)
        /\ \A c \in Clients : vus[c] \subseteq acquittes
        /\ \A r \in reponses : commande[r.a] = "S" => Fait(<<r.a, r.no>>)
        /\ \A r \in reponses : commande[r.a] = "G" => Fraiche(r.a, r.texte)
        /\ \A c \in Clients : ~attend[c] /\ commande[c] = "G" => Fraiche(c, recu[c].texte)

IInv == Types /\ UnSeul /\ ReponseSienne /\ Reponses

-----------------------------------------------------------------------------
LEMMA TypesInit == Init => Types
<1>. SUFFICES ASSUME Init PROVE Types
  OBVIOUS
<1>1. effets \in Seq(Reglages)
  BY DEF Init
<1>2. n \in [Clients -> 0 .. MaxRequetes] /\ copies \in 0 .. MaxCopies
  BY DEF Init
<1>3. recu \in [Clients -> [pour : Nat, texte : Textes]]
  BY DEF Init, Textes
<1>4. commande \in [Clients -> Commandes] /\ vus \in [Clients -> SUBSET Reglages]
  BY DEF Init, Commandes
<1>. QED BY <1>1, <1>2, <1>3, <1>4 DEF Init, Types

LEMMA UnCopie == ASSUME Types, Next PROVE copies <= copies'
  BY DEF Types, Next, Serveur, Envoie, Recoit, RecoitReponse, Perd, Prend

LEMMA TypesEnvoie == ASSUME Types, NEW c \in Clients, Envoie(c) PROVE Types'
<1>1. n[c] + 1 \in 1 .. MaxRequetes
  BY DEF Types, Envoie
<1>. QED BY <1>1 DEF Types, Envoie

LEMMA TypesRecoit == ASSUME Types, NEW m \in requetes, Recoit(m) PROVE Types'
<1>. DEFINE s == <<m.de, m.no>>
<1>1. s \in Reglages /\ m.de \in Clients /\ m.no \in Nat
  BY DEF Types, Reglages
<1>2. requetes' \subseteq requetes /\ copies' \in 0 .. MaxCopies
  BY DEF Types, Recoit, Prend
<1>3. reponses' \subseteq [a : Clients, no : Nat, texte : Textes]
  BY <1>1 DEF Types, Recoit, Repond, Textes
<1>4. CASE m.cmd = "S"
  <2>1. env' = s /\ effets' = Append(effets, s) /\ effets \in Seq(Reglages)
    BY <1>4 DEF Recoit, Types
  <2>2. effets' \in Seq(Reglages) /\ Len(effets') = Len(effets) + 1 /\ effets'[Len(effets) + 1] = s
    BY <1>1, <2>1, AppendProperties
  <2>3. effets' # <<>>
    BY <2>1, <2>2
  <2>. QED BY <1>1, <1>2, <1>3, <2>1, <2>2, <2>3 DEF Types, Recoit
<1>5. CASE m.cmd # "S"
  BY <1>2, <1>3, <1>5 DEF Types, Recoit
<1>. QED BY <1>4, <1>5

LEMMA TypesRecoitReponse == ASSUME Types, NEW c \in Clients, RecoitReponse(c) PROVE Types'
<1>1. <<c, n[c]>> \in Reglages
  BY DEF Types, Reglages
<1>2. PICK r \in reponses : /\ r.a = c /\ Prend(r, reponses, reponses')
                           /\ recu' = [recu EXCEPT ![c] = [pour |-> r.no, texte |-> r.texte]]
                           /\ acquittes' = IF commande[c] = "S" THEN acquittes \cup {<<c, n[c]>>} ELSE acquittes
  BY DEF RecoitReponse
<1>3. r.no \in Nat /\ r.texte \in Textes
  BY DEF Types
<1>4. reponses' \subseteq reponses /\ copies' \in 0 .. MaxCopies
  BY <1>2 DEF Types, Prend
<1>5. recu' \in [Clients -> [pour : Nat, texte : Textes]]
  BY <1>2, <1>3 DEF Types
<1>6. acquittes' \subseteq Reglages
  BY <1>1, <1>2 DEF Types
<1>. QED BY <1>4, <1>5, <1>6 DEF Types, RecoitReponse

LEMMA TypesNext == ASSUME Types, [Next]_dgvars PROVE Types'
<1>1. ASSUME NEW c \in Clients, Envoie(c) PROVE Types'
  BY <1>1, TypesEnvoie
<1>2. ASSUME NEW m \in requetes, Recoit(m) PROVE Types'
  BY <1>2, TypesRecoit
<1>3. ASSUME NEW c \in Clients, RecoitReponse(c) PROVE Types'
  BY <1>3, TypesRecoitReponse
<1>4. CASE Perd
  BY <1>4 DEF Types, Perd
<1>5. CASE UNCHANGED dgvars
  BY <1>5 DEF Types, dgvars
<1>. QED BY <1>1, <1>2, <1>3, <1>4, <1>5 DEF Next, Serveur

-----------------------------------------------------------------------------
(* What is after the settings of the list stays there when one is added.   *)
LEMMA Ajoute ==
    ASSUME Types, NEW s \in Reglages, effets' = Append(effets, s)
    PROVE  /\ Len(effets') = Len(effets) + 1 /\ Len(effets) \in Nat
           /\ effets'[Len(effets) + 1] = s
           /\ \A i \in 1 .. Len(effets) : effets'[i] = effets[i]
  BY AppendProperties DEF Types

LEMMA FaitReste ==
    ASSUME Types, effets' = effets \/ \E s \in Reglages : effets' = Append(effets, s),
           NEW t
    PROVE  /\ Fait(t) => Fait(t)'
           /\ \A s : Precede(s, t) => Precede(s, t)'
<1>1. CASE effets' = effets
  BY <1>1 DEF Fait, Precede
<1>2. CASE \E s \in Reglages : effets' = Append(effets, s)
  <2>1. PICK s \in Reglages : effets' = Append(effets, s)
    BY <1>2
  <2>2. \A i \in 1 .. Len(effets) : i \in 1 .. Len(effets') /\ effets'[i] = effets[i]
    BY <2>1, Ajoute
  <2>. QED BY <2>2 DEF Fait, Precede
<1>. QED BY <1>1, <1>2

(* The last setting comes after every setting that was made.               *)
LEMMA DernierFrais ==
    ASSUME Types, env # Indefinie
    PROVE  Fait(env) /\ \A s : Fait(s) => Precede(s, env)
<1>1. effets # <<>> /\ env = effets[Len(effets)]
  BY DEF Types
<1>2. Len(effets) \in Nat \ {0}
  BY <1>1, EmptySeq, LenProperties DEF Types
<1>. QED BY <1>1, <1>2 DEF Fait, Precede

-----------------------------------------------------------------------------
Suite == UnSeul /\ ReponseSienne /\ Reponses

LEMMA SuiteEnvoie == ASSUME IInv, NEW c \in Clients, Envoie(c) PROVE Suite'
<1>. SUFFICES ASSUME copies = 0 PROVE Suite'
  BY DEF Suite, UnSeul, ReponseSienne, Reponses, Envoie
<1>1. PICK cmd \in Commandes :
          /\ requetes' = requetes \cup {[de |-> c, no |-> n[c] + 1, cmd |-> cmd]}
          /\ commande' = [commande EXCEPT ![c] = cmd]
  BY DEF Envoie
<1>2. \A m \in requetes : m.de # c
  BY DEF IInv, UnSeul, Envoie
<1>3. \A r \in reponses : r.a # c
  BY DEF IInv, UnSeul, Envoie
<1>4. UnSeul'
  BY <1>1, <1>2, <1>3 DEF IInv, UnSeul, Types, Envoie
<1>5. ReponseSienne'
  BY DEF IInv, ReponseSienne, Types, Envoie
<1>6. Reponses'
  <2>1. \A t : (Fait(t))' = Fait(t)
    BY DEF Fait, Envoie
  <2>2. \A t, u : (Precede(t, u))' = Precede(t, u)
    BY DEF Precede, Envoie
  <2>3. \A d \in Clients : vus'[d] \subseteq acquittes'
    BY DEF IInv, Reponses, Types, Envoie
  <2>4. \A d \in Clients : d # c => vus'[d] = vus[d] /\ commande'[d] = commande[d]
                                    /\ attend'[d] = attend[d] /\ recu'[d] = recu[d]
    BY <1>1 DEF IInv, Types, Envoie
  <2>5. attend'[c]
    BY DEF IInv, Types, Envoie
  <2>. QED BY <1>3, <2>1, <2>2, <2>3, <2>4, <2>5 DEF IInv, Reponses, Fraiche, Types, Envoie
<1>. QED BY <1>4, <1>5, <1>6 DEF Suite

LEMMA SuitePerd == ASSUME IInv, Perd PROVE Suite'
<1>1. requetes' \subseteq requetes /\ reponses' \subseteq reponses
  BY DEF Perd
<1>2. UnSeul'
  BY <1>1 DEF IInv, UnSeul, Perd
<1>3. ReponseSienne'
  BY DEF IInv, ReponseSienne, Perd
<1>4. \A t, u : Fait(t)' = Fait(t) /\ Precede(t, u)' = Precede(t, u)
  BY DEF Fait, Precede, Perd
<1>5. \A c, t : Fraiche(c, t)' = Fraiche(c, t)
  BY <1>4 DEF Fraiche, Perd
<1>6. UNCHANGED <<acquittes, vus, commande, attend, recu, copies>>
  BY DEF Perd
<1>7. Reponses'
  BY <1>1, <1>4, <1>5, <1>6 DEF IInv, Reponses
<1>. QED BY <1>2, <1>3, <1>7 DEF Suite

LEMMA SuiteRecoit == ASSUME IInv, NEW m \in requetes, Recoit(m) PROVE Suite'
<1>. DEFINE s == <<m.de, m.no>>
           texte == IF m.cmd = "G" THEN env ELSE Done
<1>. SUFFICES ASSUME copies' = 0 PROVE Suite'
  BY DEF Suite, UnSeul, ReponseSienne, Reponses
<1>0. copies = 0 /\ requetes' = requetes \ {m}
  BY DEF IInv, Types, Recoit, Prend
<1>1. /\ m.de \in Clients /\ m.no \in Nat /\ s \in Reglages
      /\ attend[m.de] /\ m.no = n[m.de] /\ m.cmd = commande[m.de]
  BY <1>0 DEF IInv, Types, UnSeul, Reglages
<1>2. UNCHANGED <<n, attend, commande, recu, acquittes, vus>>
  BY DEF Recoit
<1>3. \A r \in reponses' : r \in reponses \/ r = [a |-> m.de, no |-> m.no, texte |-> texte]
  BY DEF Recoit, Repond
<1>4. \A r \in reponses : r.a # m.de
  BY <1>0 DEF IInv, UnSeul
<1>5. UnSeul'
  BY <1>0, <1>1, <1>2, <1>3, <1>4 DEF IInv, UnSeul
<1>6. ReponseSienne'
  BY <1>0, <1>2 DEF IInv, ReponseSienne
<1>7. effets' = effets \/ \E t \in Reglages : effets' = Append(effets, t)
  BY <1>1 DEF Recoit
<1>8. \A t : (Fait(t) => Fait(t)') /\ \A u : Precede(u, t) => Precede(u, t)'
  BY <1>7, FaitReste DEF IInv
<1>9. \A c, t : Fraiche(c, t) => Fraiche(c, t)'
  BY <1>2, <1>8 DEF Fraiche
<1>10. \A r \in reponses' : commande[r.a] = "S" => Fait(<<r.a, r.no>>)'
  <2>. SUFFICES ASSUME NEW r \in reponses', commande[r.a] = "S" PROVE Fait(<<r.a, r.no>>)'
    OBVIOUS
  <2>1. CASE r \in reponses
    BY <1>0, <1>8, <2>1 DEF IInv, Reponses
  <2>2. CASE r = [a |-> m.de, no |-> m.no, texte |-> texte]
    <3>1. effets' = Append(effets, s)
      BY <1>1, <2>2 DEF Recoit
    <3>2. Len(effets') = Len(effets) + 1 /\ Len(effets) \in Nat /\ effets'[Len(effets) + 1] = s
      BY <1>1, <3>1, Ajoute DEF IInv
    <3>. QED BY <2>2, <3>2 DEF Fait
  <2>. QED BY <1>3, <2>1, <2>2
<1>11. \A r \in reponses' : commande[r.a] = "G" => Fraiche(r.a, r.texte)'
  <2>. SUFFICES ASSUME NEW r \in reponses', commande[r.a] = "G" PROVE Fraiche(r.a, r.texte)'
    OBVIOUS
  <2>1. CASE r \in reponses
    BY <1>0, <1>9, <2>1 DEF IInv, Reponses
  <2>2. CASE r \notin reponses
    <3>1. r = [a |-> m.de, no |-> m.no, texte |-> texte] /\ m.cmd = "G" /\ r.a = m.de /\ r.texte = env
      BY <1>1, <1>3, <2>2
    <3>2. env # Indefinie
      BY <2>2, <3>1 DEF Recoit
    <3>3. Fait(env) /\ \A t \in vus[m.de] : Precede(t, env)
      BY <1>0, <1>1, <3>2, DernierFrais DEF IInv, Reponses
    <3>. QED BY <1>9, <3>1, <3>3 DEF Fraiche
  <2>. QED BY <2>1, <2>2
<1>12. Reponses'
  BY <1>0, <1>2, <1>8, <1>9, <1>10, <1>11 DEF IInv, Reponses
<1>. QED BY <1>5, <1>6, <1>12 DEF Suite

LEMMA SuiteRecoitReponse == ASSUME IInv, NEW c \in Clients, RecoitReponse(c) PROVE Suite'
<1>. SUFFICES ASSUME copies' = 0 PROVE Suite'
  BY DEF Suite, UnSeul, ReponseSienne, Reponses
<1>1. PICK r \in reponses : /\ r.a = c /\ Prend(r, reponses, reponses')
                           /\ recu' = [recu EXCEPT ![c] = [pour |-> r.no, texte |-> r.texte]]
                           /\ acquittes' = IF commande[c] = "S" THEN acquittes \cup {<<c, n[c]>>} ELSE acquittes
  BY DEF RecoitReponse
<1>2. copies = 0 /\ reponses' = reponses \ {r}
  BY <1>1 DEF IInv, Types, Prend
<1>3. r.no = n[c] /\ \A q \in reponses' : q.a # c
  BY <1>1, <1>2 DEF IInv, UnSeul
<1>4. \A q \in requetes : q.de # c
  BY <1>1, <1>2 DEF IInv, UnSeul
<1>5. UNCHANGED <<requetes, n, commande, effets, vus>>
  BY DEF RecoitReponse
<1>6. attend' = [attend EXCEPT ![c] = FALSE] /\ attend \in [Clients -> BOOLEAN]
  BY DEF IInv, Types, RecoitReponse
<1>7. UnSeul'
  BY <1>2, <1>3, <1>4, <1>5, <1>6 DEF IInv, UnSeul, Types
<1>8. /\ recu'[c].pour = r.no /\ recu'[c].texte = r.texte
      /\ \A d \in Clients : d # c => recu'[d] = recu[d]
  BY <1>1 DEF IInv, Types
<1>9. ReponseSienne'
  BY <1>2, <1>3, <1>5, <1>6, <1>8 DEF IInv, ReponseSienne
<1>10. \A t, u : Fait(t)' = Fait(t) /\ Precede(t, u)' = Precede(t, u)
  BY <1>5 DEF Fait, Precede
<1>11. \A d, t : Fraiche(d, t)' = Fraiche(d, t)
  BY <1>5, <1>10 DEF Fraiche
<1>12. \A t \in acquittes' : Fait(t)
  BY <1>1, <1>2, <1>3 DEF IInv, Reponses
<1>13. acquittes \subseteq acquittes'
  BY <1>1
<1>14. \A d \in Clients : ~attend'[d] /\ commande[d] = "G" => Fraiche(d, recu'[d].texte)
  <2>1. commande[c] = "G" => Fraiche(c, r.texte)
    BY <1>1, <1>2 DEF IInv, Reponses
  <2>. QED BY <1>2, <1>6, <1>8, <2>1 DEF IInv, Reponses
<1>15. Reponses'
  BY <1>2, <1>5, <1>10, <1>11, <1>12, <1>13, <1>14 DEF IInv, Reponses
<1>. QED BY <1>7, <1>9, <1>15 DEF Suite

-----------------------------------------------------------------------------
LEMMA Initiale == Init => IInv
<1>. SUFFICES ASSUME Init PROVE IInv
  OBVIOUS
<1>1. UnSeul /\ ReponseSienne /\ Reponses
  BY DEF Init, UnSeul, ReponseSienne, Reponses, Fait
<1>. QED BY <1>1, TypesInit DEF IInv

LEMMA Inductive == IInv /\ [Next]_dgvars => IInv'
<1>. SUFFICES ASSUME IInv, [Next]_dgvars PROVE IInv'
  OBVIOUS
<1>1. Types'
  BY TypesNext DEF IInv
<1>2. Suite'
  <2>1. ASSUME NEW c \in Clients, Envoie(c) PROVE Suite'
    BY <2>1, SuiteEnvoie
  <2>2. ASSUME NEW m \in requetes, Recoit(m) PROVE Suite'
    BY <2>2, SuiteRecoit
  <2>3. ASSUME NEW c \in Clients, RecoitReponse(c) PROVE Suite'
    BY <2>3, SuiteRecoitReponse
  <2>4. CASE Perd
    BY <2>4, SuitePerd
  <2>5. CASE UNCHANGED dgvars
    <3>1. \A t, u : Fait(t)' = Fait(t) /\ Precede(t, u)' = Precede(t, u)
      BY <2>5 DEF dgvars, Fait, Precede
    <3>2. \A c, t : Fraiche(c, t)' = Fraiche(c, t)
      BY <2>5, <3>1 DEF dgvars, Fraiche
    <3>3. Reponses'
      BY <2>5, <3>1, <3>2 DEF dgvars, IInv, Reponses
    <3>4. UnSeul' /\ ReponseSienne'
      BY <2>5 DEF dgvars, IInv, UnSeul, ReponseSienne
    <3>. QED BY <3>3, <3>4 DEF Suite
  <2>. QED BY <2>1, <2>2, <2>3, <2>4, <2>5 DEF Next, Serveur
<1>. QED BY <1>1, <1>2 DEF IInv, Suite

(* Without a copy in the network, what a client of ex3-client.c takes for  *)
(* the answer of ex2-server.c is the answer to the request it has sent,    *)
(* however many clients there are and whatever is lost or reordered.       *)
THEOREM TheoremeReponseSienne == Spec => []ReponseSienne
<1>1. IInv => ReponseSienne
  BY DEF IInv
<1>. QED BY <1>1, Initiale, Inductive, PTL DEF Spec

(* Types; and without a copy in the network, "G USER" never displays a     *)
(* value older than a setting that was answered DONE, to this client or to *)
(* another, before the request was sent.                                   *)
THEOREM TheoremeLecturesFraiches == Spec => []LecturesFraiches
<1>1. IInv => TypeOK
  BY DEF IInv, Types, TypeOK, Last
<1>2. IInv => LectureFraiche
  BY DEF IInv, Reponses, LectureFraiche, Fraiche, Fait
<1>. QED BY <1>1, <1>2, Initiale, Inductive, PTL DEF Spec, LecturesFraiches
=============================================================================

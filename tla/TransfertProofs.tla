-------------------------- MODULE TransfertProofs --------------------------
(* Proofs about the file servers over TCP, for any number of connexions    *)
(* and of clients.                                                         *)
EXTENDS Transfert, FiniteSetTheorems, SequenceTheorems, WellFoundedInduction, TLAPS

(* A son of the server adds a zombie and a SIGCHLD in one step; the        *)
(* handler takes the SIGCHLD first, a zombie afterwards.                   *)
Bools == sigchld \in BOOLEAN /\ enHandler \in BOOLEAN

Garde ==
    /\ zombies \in Nat
    /\ sigchld = TRUE => zombies >= 1
    /\ enHandler = TRUE => zombies >= 1
    /\ sigchld = TRUE /\ enHandler = TRUE => zombies >= 2

IInv == Bools /\ Garde

LEMMA Initiale == Init => IInv
<1>1. Init => zombies = 0 /\ sigchld = FALSE /\ enHandler = FALSE
  BY DEF Init
<1>2. Init => Bools
  BY <1>1 DEF Bools
<1>3. Init => Garde
  BY <1>1 DEF Garde
<1>. QED BY <1>2, <1>3 DEF IInv

LEMMA FinServiceGarde == ASSUME IInv, NEW c, FinService(c) PROVE IInv'
<1>1. \/ UNCHANGED <<zombies, sigchld>>
      \/ zombies' = zombies + 1 /\ sigchld' = TRUE
  BY DEF FinService
<1>2. enHandler' = enHandler
  BY DEF FinService
<1>3. Bools'
  BY <1>1, <1>2 DEF IInv, Bools
<1>4. Garde'
  BY <1>1, <1>2 DEF IInv, Garde
<1>. QED BY <1>3, <1>4 DEF IInv

LEMMA MeurtGarde == ASSUME IInv, NEW c, Meurt(c) PROVE IInv'
  BY FinServiceGarde DEF IInv, Bools, Garde, Meurt, FinServeur

LEMMA ServiceGarde == ASSUME IInv, NEW c \in Conns, Service(c) PROVE IInv'
<1>1. ASSUME UNCHANGED <<zombies, sigchld, enHandler>> PROVE IInv'
  BY <1>1 DEF IInv, Bools, Garde
<1>2. CASE Commande(c)
  BY <1>1, <1>2, FinServiceGarde, MeurtGarde DEF Commande, mvars
<1>3. CASE List(c)
  BY <1>3, FinServiceGarde DEF List
<1>4. CASE Upload(c)
  BY <1>1, <1>4, MeurtGarde DEF Upload, mvars
<1>5. CASE UploadLit(c)
  BY <1>1, <1>5 DEF UploadLit, mvars
<1>6. CASE UploadTeste(c)
  BY <1>1, <1>6, FinServiceGarde DEF UploadTeste, UploadSelon, mvars
<1>7. CASE Download(c)
  BY <1>1, <1>7 DEF Download, mvars
<1>8. CASE DownloadLit(c)
  BY <1>1, <1>8, FinServiceGarde DEF DownloadLit, mvars
<1>9. CASE DownloadEcrit(c)
  BY <1>1, <1>9, MeurtGarde DEF DownloadEcrit, Ecrit, mvars
<1>. QED BY <1>2, <1>3, <1>4, <1>5, <1>6, <1>7, <1>8, <1>9 DEF Service

LEMMA PereGarde == ASSUME IInv, Pere \/ TraitSignal PROVE IInv'
<1>1. CASE Accepte
  BY <1>1 DEF IInv, Bools, Garde, Accepte
<1>2. CASE FermePere
  BY <1>2 DEF IInv, Bools, Garde, FermePere
<1>3. CASE FinFils
  BY <1>3 DEF IInv, Bools, Garde, FinFils
<1>4. CASE Wait
  <2>1. enHandler = TRUE /\ enHandler' = FALSE
    BY <1>4 DEF Wait, IInv, Bools
  <2>2. zombies' = zombies - 1 /\ sigchld' = sigchld
    BY <1>4 DEF Wait
  <2>3. Bools'
    BY <2>1, <2>2 DEF IInv, Bools
  <2>4. Garde'
    BY <2>1, <2>2 DEF IInv, Garde
  <2>. QED BY <2>3, <2>4 DEF IInv
<1>5. CASE TraitSignal
  BY <1>5 DEF IInv, Bools, Garde, TraitSignal, FinServeur
<1>. QED BY <1>1, <1>2, <1>3, <1>4, <1>5 DEF Pere

LEMMA ClientGarde == ASSUME IInv, NEW x \in Clients, Client(x) \/ Interrompu(x) PROVE IInv'
<1>1. UNCHANGED <<zombies, sigchld, enHandler>>
  BY DEF Client, Connecte, LitCommande, EnvoieFichier, Lit, Interrompu, mvars
<1>. QED BY <1>1 DEF IInv, Bools, Garde

LEMMA Inductive == IInv /\ [Next]_vars => IInv'
<1>. SUFFICES ASSUME IInv, [Next]_vars PROVE IInv'
  OBVIOUS
<1>1. CASE UNCHANGED vars
  BY <1>1 DEF IInv, Bools, Garde, vars, mvars
<1>. QED BY <1>1, ServiceGarde, PereGarde, ClientGarde DEF Next

(* wait(NULL) in finFils, the handler of SIGCHLD of ex6-serveur.c, always  *)
(* finds a son that has ended: it never blocks the accept it interrupts,   *)
(* however many connexions end at once and share one SIGCHLD.              *)
THEOREM TheoremeHandlerRevient == Spec => []HandlerRevient
<1>1. ASSUME IInv PROVE HandlerRevient
  <2>1. CASE sigchld = TRUE /\ enHandler = TRUE
    BY <1>1, <2>1 DEF IInv, Bools, Garde, HandlerRevient
  <2>2. CASE sigchld = TRUE /\ enHandler = FALSE
    BY <1>1, <2>2 DEF IInv, Bools, Garde, HandlerRevient
  <2>3. CASE sigchld = FALSE /\ enHandler = TRUE
    BY <1>1, <2>3 DEF IInv, Bools, Garde, HandlerRevient
  <2>4. CASE sigchld = FALSE /\ enHandler = FALSE
    BY <1>1, <2>4 DEF IInv, Bools, Garde, HandlerRevient
  <2>. QED BY <1>1, <2>1, <2>2, <2>3, <2>4 DEF IInv, Bools
<1>. QED BY <1>1, Initiale, Inductive, PTL DEF Spec

-----------------------------------------------------------------------------
(* The data that are in a stream: what Donnees does of a concatenation, of *)
(* a part, of a buffer.                                                    *)
Unites == Nat \X Nat

(* Induction over the naturals, for a set: the theorems of the library     *)
(* that take an operator are out of the provers' reach.                    *)
LEMMA Recurrence ==
  ASSUME NEW S, 0 \in S, \A k \in Nat : k \in S => k + 1 \in S
  PROVE  Nat \subseteq S
<1> DEFINE R == {ss \in Nat \X Nat : ss[1] < ss[2]}
           T == Nat \ S
<1> SUFFICES ASSUME T # {} PROVE FALSE
  OBVIOUS
<1>1. IsWellFoundedOn(R, Nat)
  BY NatLessThanWellFounded DEF OpToRel
<1>2. T \subseteq Nat
  OBVIOUS
<1>3. \E m \in T : \A y \in T : ~ (<<y, m>> \in R)
  <2> HIDE DEF T, R
  <2> QED BY <1>1, <1>2, WFMin
<1>4. PICK m \in T : \A y \in T : ~ (<<y, m>> \in R)
  BY <1>3
<1>5. m \in Nat /\ m \notin S /\ m # 0
  OBVIOUS
<1>6. m - 1 \in Nat /\ <<m - 1, m>> \in R
  BY <1>5
<1>7. m - 1 \in S
  BY <1>4, <1>6
<1>8. (m - 1) + 1 \in S
  BY <1>6, <1>7
<1> QED BY <1>5, <1>8

(* The table of the prefixes of s without their Nul.                       *)
Pas(s, d, k) == IF s[k] = Nul THEN d[k - 1] ELSE Append(d[k - 1], s[k])
Table(s, d, l) ==
    /\ d \in [0 .. l -> Seq(Unites)] /\ d[0] = <<>>
    /\ \A k \in 1 .. l : d[k] = Pas(s, d, k)

LEMMA TableExiste ==
  ASSUME NEW s \in Seq(Unites) PROVE \E d : Table(s, d, Len(s))
<1> DEFINE S == {l \in Nat : l <= Len(s) => \E d : Table(s, d, l)}
<1>1. 0 \in S
  <2>1. Table(s, [k \in 0 .. 0 |-> <<>>], 0)
    BY DEF Table
  <2> QED BY <2>1
<1>2. ASSUME NEW l \in Nat, l \in S PROVE l + 1 \in S
  <2> SUFFICES ASSUME l + 1 <= Len(s) PROVE \E d : Table(s, d, l + 1)
    OBVIOUS
  <2>1. PICK d : Table(s, d, l)
    BY <1>2
  <2> DEFINE e == [k \in 0 .. l + 1 |-> IF k = l + 1 THEN Pas(s, d, k) ELSE d[k]]
  <2>2. s[l + 1] \in Unites /\ d[l] \in Seq(Unites)
    BY <2>1 DEF Table
  <2>3. Pas(s, d, l + 1) \in Seq(Unites)
    BY <2>2, AppendProperties DEF Pas
  <2>4. e \in [0 .. l + 1 -> Seq(Unites)] /\ e[0] = <<>>
    BY <2>1, <2>3 DEF Table
  <2>5. ASSUME NEW k \in 1 .. l + 1 PROVE e[k] = Pas(s, e, k)
    <3>1. CASE k = l + 1
      <4>1. e[k] = Pas(s, d, k) /\ e[k - 1] = d[k - 1]
        BY <3>1
      <4> QED BY <4>1 DEF Pas
    <3>2. CASE k \in 1 .. l
      <4>1. e[k] = d[k] /\ e[k - 1] = d[k - 1]
        BY <3>2
      <4>2. d[k] = Pas(s, d, k)
        BY <2>1, <3>2 DEF Table
      <4> QED BY <4>1, <4>2 DEF Pas
    <3> QED BY <3>1, <3>2
  <2> QED BY <2>4, <2>5 DEF Table
<1>3. Nat \subseteq S
  <2> HIDE DEF S
  <2> QED BY <1>1, <1>2, Recurrence
<1> QED BY <1>3, LenProperties

LEMMA TableUnique ==
  ASSUME NEW s, NEW l \in Nat, NEW d, Table(s, d, l), NEW m \in Nat, NEW e, Table(s, e, m)
  PROVE  \A k \in Nat : k <= l /\ k <= m => d[k] = e[k]
<1> DEFINE S == {k \in Nat : k <= l /\ k <= m => d[k] = e[k]}
<1>1. 0 \in S
  BY DEF Table
<1>2. ASSUME NEW k \in Nat, k \in S PROVE k + 1 \in S
  <2> SUFFICES ASSUME k + 1 <= l, k + 1 <= m PROVE d[k + 1] = e[k + 1]
    OBVIOUS
  <2>1. k + 1 \in 1 .. l /\ k + 1 \in 1 .. m /\ d[k] = e[k]
    BY <1>2
  <2>2. d[k + 1] = Pas(s, d, k + 1) /\ e[k + 1] = Pas(s, e, k + 1)
    BY <2>1 DEF Table
  <2> QED BY <2>1, <2>2 DEF Pas
<1>3. Nat \subseteq S
  <2> HIDE DEF S
  <2> QED BY <1>1, <1>2, Recurrence
<1> QED BY <1>3

LEMMA DonneesDeTable ==
  ASSUME NEW s \in Seq(Unites), NEW d, Table(s, d, Len(s))
  PROVE  Donnees(s) = d[Len(s)]
<1> DEFINE F(e) == [k \in 0 .. Len(s) |->
            IF k = 0 THEN <<>> ELSE IF s[k] = Nul THEN e[k - 1] ELSE Append(e[k - 1], s[k])]
           c == CHOOSE e : e = F(e)
<1>1. d = F(d)
  <2>1. ASSUME NEW k \in 0 .. Len(s) PROVE d[k] = F(d)[k]
    <3>1. CASE k = 0
      BY <3>1 DEF Table
    <3>2. CASE k \in 1 .. Len(s)
      BY <3>2 DEF Table, Pas
    <3> QED BY <3>1, <3>2
  <2> QED BY <2>1 DEF Table
<1>2. c = F(c)
  <2> HIDE DEF F
  <2> QED BY <1>1
<1>3. Donnees(s) = c[Len(s)]
  BY DEF Donnees
<1>4. \A k \in Nat : k <= Len(s) => c[k] = d[k]
  <2> DEFINE S == {k \in Nat : k <= Len(s) => c[k] = d[k]}
  <2> HIDE DEF c
  <2>1. 0 \in S
    BY <1>2 DEF Table
  <2>2. ASSUME NEW k \in Nat, k \in S PROVE k + 1 \in S
    <3> SUFFICES ASSUME k + 1 <= Len(s) PROVE c[k + 1] = d[k + 1]
      OBVIOUS
    <3>1. c[k + 1] = IF s[k + 1] = Nul THEN c[k] ELSE Append(c[k], s[k + 1])
      <4>1. k + 1 \in 0 .. Len(s) /\ k + 1 # 0 /\ (k + 1) - 1 = k
        BY LenProperties
      <4>2. F(c)[k + 1] = IF s[k + 1] = Nul THEN c[k] ELSE Append(c[k], s[k + 1])
        BY <4>1
      <4>3. c[k + 1] = F(c)[k + 1]
        <5> HIDE DEF F
        <5> QED BY <1>2
      <4> QED BY <4>2, <4>3
    <3>2. d[k + 1] = IF s[k + 1] = Nul THEN d[k] ELSE Append(d[k], s[k + 1])
      <4>1. k + 1 \in 1 .. Len(s)
        BY LenProperties
      <4>2. d[k + 1] = Pas(s, d, k + 1)
        BY <4>1 DEF Table
      <4> QED BY <4>2 DEF Pas
    <3> QED BY <2>2, <3>1, <3>2
  <2>3. Nat \subseteq S
    <3> HIDE DEF S
    <3> QED BY <2>1, <2>2, Recurrence
  <2> QED BY <2>3
<1> QED BY <1>3, <1>4, LenProperties

LEMMA DonneesType ==
  ASSUME NEW s \in Seq(Unites) PROVE Donnees(s) \in Seq(Unites)
<1>1. Len(s) \in Nat
  BY LenProperties
<1>2. PICK d : Table(s, d, Len(s))
  BY <1>1, TableExiste
<1> QED BY <1>1, <1>2, DonneesDeTable DEF Table

LEMMA DonneesVide == Donnees(<<>>) = <<>>
<1>1. <<>> \in Seq(Unites) /\ Len(<<>>) = 0
  OBVIOUS
<1>2. PICK d : Table(<<>>, d, Len(<<>>))
  BY <1>1, TableExiste
<1> QED BY <1>1, <1>2, DonneesDeTable DEF Table

LEMMA DonneesAjout ==
  ASSUME NEW s \in Seq(Unites), NEW u \in Unites
  PROVE  Donnees(Append(s, u)) = IF u = Nul THEN Donnees(s) ELSE Append(Donnees(s), u)
<1> DEFINE t == Append(s, u)
           l == Len(s)
<1>1. l \in Nat /\ t \in Seq(Unites) /\ Len(t) = l + 1 /\ t[l + 1] = u /\ \A k \in 1 .. l : t[k] = s[k]
  BY AppendProperties, LenProperties
<1>2. PICK d : Table(t, d, Len(t))
  BY <1>1, TableExiste
<1>3. PICK e : Table(s, e, Len(s))
  BY <1>1, TableExiste
<1> DEFINE f == [k \in 0 .. l |-> d[k]]
<1> HIDE DEF t
<1>4. Table(s, f, Len(s))
  <2>1. f \in [0 .. l -> Seq(Unites)] /\ f[0] = <<>>
    BY <1>1, <1>2 DEF Table
  <2>2. ASSUME NEW k \in 1 .. l PROVE f[k] = Pas(s, f, k)
    <3>1. f[k] = d[k] /\ f[k - 1] = d[k - 1] /\ t[k] = s[k]
      BY <1>1
    <3>2. d[k] = Pas(t, d, k)
      BY <1>1, <1>2 DEF Table
    <3> QED BY <3>1, <3>2 DEF Pas
  <2> QED BY <2>1, <2>2 DEF Table
<1>5. Donnees(s) = d[l]
  BY <1>1, <1>4, DonneesDeTable
<1>6. d[l + 1] = Pas(t, d, l + 1)
  BY <1>1, <1>2 DEF Table
<1>7. Donnees(t) = d[l + 1]
  BY <1>1, <1>2, DonneesDeTable
<1> QED BY <1>1, <1>5, <1>6, <1>7 DEF Pas, t

LEMMA Dernier ==
  ASSUME NEW v \in Seq(Unites), NEW l \in Nat, Len(v) = l + 1
  PROVE  \E w \in Seq(Unites), u \in Unites :
            v = Append(w, u) /\ Len(w) = l /\ v[l + 1] = u /\ \A k \in 1 .. l : v[k] = w[k]
<1>1. v # <<>>
  OBVIOUS
<1>2. PICK w \in Seq(Unites), u \in Unites : v = Append(w, u)
  <2> HIDE DEF Unites
  <2> QED BY <1>1, SequenceEmptyOrAppend
<1> QED BY <1>2, AppendProperties, LenProperties

LEMMA ConcatAjout ==
  ASSUME NEW a \in Seq(Unites), NEW b \in Seq(Unites), NEW u \in Unites
  PROVE  Append(a \o b, u) = a \o Append(b, u)
<1> DEFINE c == a \o b
           d == Append(b, u)
<1>1. Len(a) \in Nat /\ Len(b) \in Nat
  BY LenProperties
<1>2. c \in Seq(Unites) /\ Len(c) = Len(a) + Len(b)
      /\ \A k \in 1 .. Len(a) + Len(b) : c[k] = IF k <= Len(a) THEN a[k] ELSE b[k - Len(a)]
  BY ConcatProperties
<1>3. d \in Seq(Unites) /\ Len(d) = Len(b) + 1 /\ d[Len(b) + 1] = u /\ \A k \in 1 .. Len(b) : d[k] = b[k]
  BY AppendProperties
<1> HIDE DEF c, d
<1>4. Append(c, u) \in Seq(Unites) /\ Len(Append(c, u)) = Len(c) + 1
      /\ Append(c, u)[Len(c) + 1] = u /\ \A k \in 1 .. Len(c) : Append(c, u)[k] = c[k]
  <2>1. c \in Seq(Unites)
    BY <1>2
  <2> QED BY <2>1, AppendProperties
<1>5. a \o d \in Seq(Unites) /\ Len(a \o d) = Len(a) + Len(d)
      /\ \A k \in 1 .. Len(a) + Len(d) : (a \o d)[k] = IF k <= Len(a) THEN a[k] ELSE d[k - Len(a)]
  BY <1>3, ConcatProperties
<1>6. ASSUME NEW k \in 1 .. Len(Append(c, u)) PROVE Append(c, u)[k] = (a \o d)[k]
  <2>1. k \in 1 .. Len(a) + Len(b) + 1 /\ k \in 1 .. Len(a) + Len(d)
    BY <1>1, <1>2, <1>3, <1>4
  <2>2. CASE k = Len(a) + Len(b) + 1
    <3>1. Append(c, u)[k] = u
      BY <1>2, <1>4, <2>2
    <3>2. k - Len(a) = Len(b) + 1 /\ ~ (k <= Len(a))
      BY <1>1, <2>2
    <3>3. (a \o d)[k] = d[k - Len(a)]
      BY <1>5, <2>1, <3>2
    <3> QED BY <1>3, <3>1, <3>2, <3>3
  <2>3. CASE k \in 1 .. Len(a) + Len(b)
    <3>1. Append(c, u)[k] = IF k <= Len(a) THEN a[k] ELSE b[k - Len(a)]
      BY <1>2, <1>4, <2>3
    <3>2. (a \o d)[k] = IF k <= Len(a) THEN a[k] ELSE d[k - Len(a)]
      BY <1>5, <2>1
    <3>3. ~ (k <= Len(a)) => k - Len(a) \in 1 .. Len(b)
      BY <1>1, <2>3
    <3> QED BY <1>3, <3>1, <3>2, <3>3
  <2> QED BY <1>1, <2>1, <2>2, <2>3
<1>7. Append(c, u) = a \o d
  <2>1. Len(Append(c, u)) = Len(a \o d)
    BY <1>1, <1>2, <1>3, <1>4, <1>5
  <2> HIDE DEF Unites
  <2> QED BY <1>4, <1>5, <1>6, <2>1, SeqEqual
<1> QED BY <1>7 DEF c, d

LEMMA DonneesConcat ==
  ASSUME NEW s \in Seq(Unites), NEW t \in Seq(Unites)
  PROVE  Donnees(s \o t) = Donnees(s) \o Donnees(t)
<1> DEFINE S == {l \in Nat : \A v \in Seq(Unites) : Len(v) = l => Donnees(s \o v) = Donnees(s) \o Donnees(v)}
<1>1. 0 \in S
  <2> SUFFICES ASSUME NEW v \in Seq(Unites), Len(v) = 0 PROVE Donnees(s \o v) = Donnees(s) \o Donnees(v)
    OBVIOUS
  <2>1. v = <<>>
    BY EmptySeq
  <2> QED BY <2>1, DonneesVide, DonneesType, ConcatEmptySeq
<1>2. ASSUME NEW l \in Nat, l \in S PROVE l + 1 \in S
  <2> SUFFICES ASSUME NEW v \in Seq(Unites), Len(v) = l + 1 PROVE Donnees(s \o v) = Donnees(s) \o Donnees(v)
    OBVIOUS
  <2>1. PICK w \in Seq(Unites), u \in Unites : v = Append(w, u) /\ Len(w) = l
    BY Dernier
  <2>2. Len(w) = l
    BY <2>1
  <2>3. Donnees(s \o w) = Donnees(s) \o Donnees(w)
    BY <1>2, <2>2
  <2>4. s \o v = Append(s \o w, u) /\ s \o w \in Seq(Unites)
    BY <2>1, AppendIsConcat, ConcatAssociative, ConcatProperties
  <2>5. Donnees(s \o v) = IF u = Nul THEN Donnees(s \o w) ELSE Append(Donnees(s \o w), u)
    BY <2>4, DonneesAjout
  <2>6. Donnees(v) = IF u = Nul THEN Donnees(w) ELSE Append(Donnees(w), u)
    BY <2>1, DonneesAjout
  <2>7. Append(Donnees(s) \o Donnees(w), u) = Donnees(s) \o Append(Donnees(w), u)
    BY DonneesType, ConcatAjout
  <2> QED BY <2>3, <2>5, <2>6, <2>7
<1>3. Nat \subseteq S
  <2> HIDE DEF S
  <2> QED BY <1>1, <1>2, Recurrence
<1> QED BY <1>3, LenProperties

LEMMA DonneesNuls ==
  ASSUME NEW s \in Seq(Unites), \A k \in 1 .. Len(s) : s[k] = Nul
  PROVE  Donnees(s) = <<>>
<1> DEFINE S == {l \in Nat : \A v \in Seq(Unites) :
                    Len(v) = l /\ (\A k \in 1 .. l : v[k] = Nul) => Donnees(v) = <<>>}
<1>1. 0 \in S
  BY EmptySeq, DonneesVide
<1>2. ASSUME NEW l \in Nat, l \in S PROVE l + 1 \in S
  <2> SUFFICES ASSUME NEW v \in Seq(Unites), Len(v) = l + 1, \A k \in 1 .. l + 1 : v[k] = Nul
               PROVE  Donnees(v) = <<>>
    OBVIOUS
  <2>1. PICK w \in Seq(Unites), u \in Unites :
          v = Append(w, u) /\ Len(w) = l /\ v[l + 1] = u /\ \A k \in 1 .. l : v[k] = w[k]
    BY Dernier
  <2>2. Len(w) = l /\ u = Nul /\ \A k \in 1 .. l : w[k] = Nul
    BY <2>1
  <2>3. Donnees(w) = <<>>
    BY <1>2, <2>2
  <2> QED BY <2>1, <2>2, <2>3, DonneesAjout
<1>3. Nat \subseteq S
  <2> HIDE DEF S
  <2> QED BY <1>1, <1>2, Recurrence
<1> QED BY <1>3, LenProperties

LEMMA DonneesPleines ==
  ASSUME NEW s \in Seq(Unites), \A k \in 1 .. Len(s) : s[k] # Nul
  PROVE  Donnees(s) = s
<1> DEFINE S == {l \in Nat : \A v \in Seq(Unites) :
                    Len(v) = l /\ (\A k \in 1 .. l : v[k] # Nul) => Donnees(v) = v}
<1>1. 0 \in S
  BY EmptySeq, DonneesVide
<1>2. ASSUME NEW l \in Nat, l \in S PROVE l + 1 \in S
  <2> SUFFICES ASSUME NEW v \in Seq(Unites), Len(v) = l + 1, \A k \in 1 .. l + 1 : v[k] # Nul
               PROVE  Donnees(v) = v
    OBVIOUS
  <2>1. PICK w \in Seq(Unites), u \in Unites :
          v = Append(w, u) /\ Len(w) = l /\ v[l + 1] = u /\ \A k \in 1 .. l : v[k] = w[k]
    BY Dernier
  <2>2. Len(w) = l /\ u # Nul /\ \A k \in 1 .. l : w[k] # Nul
    BY <2>1
  <2>3. Donnees(w) = w
    BY <1>2, <2>2
  <2> QED BY <2>1, <2>2, <2>3, DonneesAjout
<1>3. Nat \subseteq S
  <2> HIDE DEF S
  <2> QED BY <1>1, <1>2, Recurrence
<1> QED BY <1>3, LenProperties

LEMMA Constantes ==
    /\ NbConnexions \in Nat /\ Taille \in [Conns -> Nat] /\ Bloc \in Nat /\ Bloc > 0
    /\ Tampon \in Nat /\ Tampon >= Bloc
<1>1. Conns = 1 .. NbConnexions
  BY DEF Conns
<1>2. /\ NbConnexions \in Nat /\ Taille \in [1 .. NbConnexions -> Nat] /\ Bloc \in Nat \ {0}
      /\ Tampon \in Nat /\ Tampon >= Bloc
  BY TransfertAssumption, Zenon
<1> QED BY <1>1, <1>2

LEMMA SourceType ==
  ASSUME NEW c \in Conns, NEW k \in Nat
  PROVE  /\ Source(c, k) \in Seq(Unites) /\ Len(Source(c, k)) = k
         /\ \A j \in 1 .. k : Source(c, k)[j] = <<c, j>> /\ <<c, j>> # Nul
<1>1. \A j \in 1 .. k : <<c, j>> \in Unites /\ <<c, j>> # Nul
  BY Constantes DEF Unites, Nul, Conns
<1>2. Source(c, k) \in Seq(Unites)
  BY <1>1 DEF Source
<1> QED BY <1>1, <1>2 DEF Source

LEMMA SourceSuite ==
  ASSUME NEW c \in Conns, NEW t \in Nat, NEW i \in Nat, NEW k \in Nat, i + k <= t
  PROVE  LET m == SubSeq(Source(c, t), i + 1, i + k)
         IN  /\ m \in Seq(Unites) /\ Len(m) = k /\ Donnees(m) = m
             /\ Source(c, i) \o m = Source(c, i + k)
<1> DEFINE m == SubSeq(Source(c, t), i + 1, i + k)
<1>1. m \in Seq(Unites) /\ Len(m) = k /\ \A j \in 1 .. k : m[j] = <<c, i + j>> /\ m[j] # Nul
  <2>1. \A j \in i + 1 .. i + k : Source(c, t)[j] = <<c, j>> /\ <<c, j>> \in Unites /\ <<c, j>> # Nul
    <3> SUFFICES ASSUME NEW j \in i + 1 .. i + k
                 PROVE  Source(c, t)[j] = <<c, j>> /\ <<c, j>> \in Unites /\ <<c, j>> # Nul
      OBVIOUS
    <3>1. j \in 1 .. t /\ j \in Nat /\ c \in Nat
      BY DEF Conns
    <3> QED BY <3>1, SourceType DEF Unites
  <2>2. /\ m \in Seq(Unites)
        /\ Len(m) = IF i + 1 <= i + k THEN (i + k) - (i + 1) + 1 ELSE 0
        /\ \A j \in 1 .. (i + k) - (i + 1) + 1 : m[j] = Source(c, t)[(i + 1) + j - 1]
    <3>1. i + 1 \in Int /\ i + k \in Int
      OBVIOUS
    <3>2. \A j \in i + 1 .. i + k : Source(c, t)[j] \in Unites
      BY <2>1
    <3> HIDE DEF Unites
    <3> QED BY <3>1, <3>2, SubSeqProperties
  <2>3. \A j \in 1 .. k : i + j \in i + 1 .. i + k /\ j \in 1 .. (i + k) - (i + 1) + 1 /\ (i + 1) + j - 1 = i + j
    OBVIOUS
  <2> HIDE DEF m
  <2>4. Len(m) = k
    BY <2>2
  <2>5. ASSUME NEW j \in 1 .. k PROVE m[j] = <<c, i + j>> /\ m[j] # Nul
    <3>1. m[j] = Source(c, t)[i + j]
      BY <2>2, <2>3
    <3> QED BY <2>1, <2>3, <3>1
  <2> QED BY <2>2, <2>4, <2>5
<1> HIDE DEF m
<1>2. Donnees(m) = m
  BY <1>1, DonneesPleines
<1>3. Source(c, i) \o m = Source(c, i + k)
  <2>1. Source(c, i) \o m \in Seq(Unites) /\ Len(Source(c, i) \o m) = i + k
    BY <1>1, SourceType, ConcatProperties
  <2>2. Source(c, i + k) \in Seq(Unites) /\ Len(Source(c, i + k)) = i + k
    BY SourceType
  <2>3. ASSUME NEW j \in 1 .. i + k PROVE (Source(c, i) \o m)[j] = Source(c, i + k)[j]
    <3>1. (Source(c, i) \o m)[j] = IF j <= i THEN Source(c, i)[j] ELSE m[j - i]
      <4>1. Source(c, i) \in Seq(Unites) /\ Len(Source(c, i)) = i
        BY SourceType
      <4>2. j \in 1 .. Len(Source(c, i)) + Len(m)
        BY <1>1, <4>1
      <4>3. m \in Seq(Unites)
        BY <1>1
      <4> QED BY <4>1, <4>2, <4>3, ConcatProperties
    <3>2. Source(c, i + k)[j] = <<c, j>> /\ (j <= i => Source(c, i)[j] = <<c, j>>)
      BY SourceType
    <3>3. j > i => m[j - i] = <<c, j>>
      BY <1>1
    <3> QED BY <3>1, <3>2, <3>3
  <2> QED BY <2>1, <2>2, <2>3, SeqEqual
<1> QED BY <1>1, <1>2, <1>3 DEF m

LEMMA PleinType ==
  ASSUME NEW s \in Seq(Unites), Len(s) <= Bloc
  PROVE  /\ Plein(s) \in Seq(Unites) /\ Len(Plein(s)) = Bloc /\ Donnees(Plein(s)) = Donnees(s)
         /\ s = <<>> => Plein(s)[1] = Nul
<1> DEFINE z == [j \in 1 .. Bloc - Len(s) |-> Nul]
<1>1. Len(s) \in Nat /\ Bloc - Len(s) \in Nat /\ Nul \in Unites
  BY Constantes, LenProperties DEF Unites, Nul
<1>2. z \in Seq(Unites) /\ Len(z) = Bloc - Len(s) /\ \A j \in 1 .. Len(z) : z[j] = Nul
  BY <1>1
<1> HIDE DEF z
<1>3. Donnees(z) = <<>>
  BY <1>2, DonneesNuls
<1>4. Plein(s) = s \o z
  BY DEF Plein, z
<1>5. Donnees(s \o z) = Donnees(s) \o Donnees(z)
  BY <1>2, DonneesConcat
<1>6. Donnees(s) \o <<>> = Donnees(s)
  BY DonneesType, ConcatEmptySeq
<1>7. s \o z \in Seq(Unites) /\ Len(s \o z) = Bloc
  <2>1. z \in Seq(Unites)
    BY <1>2
  <2>2. s \o z \in Seq(Unites) /\ Len(s \o z) = Len(s) + Len(z)
    BY <2>1, ConcatProperties
  <2> QED BY <1>1, <1>2, <2>2, Constantes
<1>8. s = <<>> => (s \o z)[1] = Nul
  BY <1>1, <1>2, ConcatEmptySeq, Constantes
<1> QED BY <1>3, <1>4, <1>5, <1>6, <1>7, <1>8

LEMMA Coupe ==
  ASSUME NEW s \in Seq(Unites), NEW k \in 0 .. Len(s)
  PROVE  LET d == SubSeq(s, 1, k)
             r == SubSeq(s, k + 1, Len(s))
         IN  /\ d \in Seq(Unites) /\ Len(d) = k
             /\ r \in Seq(Unites) /\ Len(r) = Len(s) - k
             /\ Donnees(s) = Donnees(d) \o Donnees(r)
<1> DEFINE d == SubSeq(s, 1, k)
           r == SubSeq(s, k + 1, Len(s))
<1>1. Len(s) \in Nat /\ k \in Nat /\ k <= Len(s) /\ \A j \in 1 .. Len(s) : s[j] \in Unites
  BY LenProperties, ElementOfSeq
<1>2. d \in Seq(Unites) /\ Len(d) = k
  BY <1>1, SubSeqProperties
<1>3. r \in Seq(Unites) /\ Len(r) = Len(s) - k
  BY <1>1, SubSeqProperties
<1>4. d \o r = SubSeq(s, 1, Len(s))
  <2>1. 1 \in 1 .. Len(s) + 1 /\ k \in 1 - 1 .. Len(s) /\ Len(s) \in k .. Len(s)
    BY <1>1
  <2> QED BY <2>1, ConcatAdjacentSubSeq
<1>5. d \o r = s
  BY <1>4, SubSeqFull
<1> HIDE DEF d, r
<1>6. Donnees(d \o r) = Donnees(d) \o Donnees(r)
  BY <1>2, <1>3, DonneesConcat
<1> QED BY <1>2, <1>3, <1>5, <1>6 DEF d, r

LEMMA Queue ==
  ASSUME NEW s \in Seq(Unites), s # <<>>, s[1] = Nul
  PROVE  Tail(s) \in Seq(Unites) /\ Len(Tail(s)) = Len(s) - 1 /\ Donnees(Tail(s)) = Donnees(s)
<1>1. Len(s) \in Nat \ {0}
  BY EmptySeq
<1>2. Tail(s) = SubSeq(s, 1 + 1, Len(s)) /\ Tail(s) \in Seq(Unites) /\ Len(Tail(s)) = Len(s) - 1
  BY TailIsSubSeq, HeadTailProperties
<1>3. SubSeq(s, 1, 1) \in Seq(Unites) /\ Len(SubSeq(s, 1, 1)) = 1 /\ SubSeq(s, 1, 1)[1] = Nul
  <2>1. \A j \in 1 .. 1 : s[j] \in Unites
    BY <1>1, ElementOfSeq
  <2> QED BY <2>1, SubSeqProperties
<1>4. Donnees(SubSeq(s, 1, 1)) = <<>>
  <2> DEFINE d == SubSeq(s, 1, 1)
  <2>1. \A j \in 1 .. Len(d) : d[j] = Nul
    BY <1>3
  <2> HIDE DEF d
  <2>2. d \in Seq(Unites)
    BY <1>3 DEF d
  <2>3. Donnees(d) = <<>>
    BY <2>1, <2>2, DonneesNuls
  <2> QED BY <2>3 DEF d
<1>5. Donnees(s) = Donnees(SubSeq(s, 1, 1)) \o Donnees(Tail(s))
  <2>1. 1 \in 0 .. Len(s)
    BY <1>1
  <2>2. Donnees(s) = Donnees(SubSeq(s, 1, 1)) \o Donnees(SubSeq(s, 1 + 1, Len(s)))
    BY <2>1, Coupe
  <2> QED BY <1>2, <2>2
<1> QED BY <1>2, <1>4, <1>5, DonneesType, ConcatEmptySeq

-----------------------------------------------------------------------------
(* What holds of connexion c, whatever the others do.  Sain: the server    *)
(* runs, and its threads have served one connexion at a time.              *)
Sain   == vivant /\ (Threads => ~croise)
Avant  == {"absent", "attend", "commande"}
Entree == {"LIST", "LIST long", "UPLOAD", "DOWNLOAD", "DOWNLOAD absent"}
Envoi  == {"UPLOAD lit", "UPLOAD teste"}
Retour == {"DOWNLOAD lit", "DOWNLOAD ecrit"}
Etapes == Avant \cup Entree \cup Envoi \cup Retour \cup {"fin"}

(* The place of the service agrees with the command.                       *)
Etape(c) ==
    /\ pcS[c] \in Entree => scene.commande[c] = pcS[c]
    /\ pcS[c] \in Envoi => scene.commande[c] = "UPLOAD"
    /\ pcS[c] \in Retour => scene.commande[c] \in {"DOWNLOAD", "DOWNLOAD absent"}

(* Nothing is sent, stored or kept too early; the command comes first.     *)
Vide(c) ==
    /\ pcS[c] \in Avant \cup Entree => descendant[c] = <<>>
    /\ pcS[c] \notin {"UPLOAD teste", "DOWNLOAD ecrit", "fin"} => data[c] = <<>>
    /\ Sain /\ pcS[c] \in Avant \cup Entree => fichier[c] = <<>>
    /\ pcS[c] = "absent" => montant[c] = <<>>
    /\ pcS[c] \in Avant /\ montant[c] # <<>> => montant[c][1] = Nul

(* Who serves a connexion holds it.                                        *)
Tenu(c) ==
    /\ vivant /\ pcS[c] = "attend" => "noyau" \in tenue[c]
    /\ vivant /\ pcS[c] \notin {"absent", "attend", "fin"} => "fils" \in tenue[c]
    /\ ~vivant => pcS[c] \in {"absent", "fin"}

(* n and fichierfd are those of the service.                               *)
Propre(c) ==
    Sain =>
    /\ pcS[c] \in Envoi \cup Retour /\ scene.commande[c] # "DOWNLOAD absent" =>
            fd[Cellule(c)] = c /\ c \in ouverts
    /\ pcS[c] \in Retour /\ scene.commande[c] = "DOWNLOAD absent" => fd[Cellule(c)] = 0
    /\ pcS[c] = "UPLOAD teste" /\ n[Cellule(c)] = 0 =>
            Donnees(data[c]) = <<>> /\ montant[c] = <<>> /\ c \in fermeC

Copies(c) ==
    /\ scene.commande[c] = "UPLOAD" /\ Sain =>
            IF pcS[c] = "fin"
            THEN fichier[c] = <<>> \/ (c \in fermeC /\ fichier[c] = Source(c, posn[c]))
            ELSE (fichier[c] \o Donnees(data[c])) \o Donnees(montant[c]) = Source(c, posn[c])
    /\ scene.commande[c] = "DOWNLOAD" /\ Sain /\ c \notin fermeC =>
            /\ (copie[c] \o Donnees(descendant[c])) \o Donnees(data[c]) = Source(c, posn[c])
            /\ pcS[c] = "fin" => posn[c] = Taille[c]

Connexion(c) == Etape(c) /\ Vide(c) /\ Tenu(c) /\ Propre(c) /\ Copies(c)

(* The client is at work on a connexion of its own, which it has not       *)
(* closed, and sends the command before the file.                          *)
Poste(x) ==
    pcC[x] \in {"commande", "envoie", "lit"} =>
        /\ cour[x] \in Conns /\ scene.proprio[cour[x]] = x /\ pcS[cour[x]] # "absent"
        /\ pcC[x] = "commande" => montant[cour[x]] = <<>>
        /\ pcC[x] = "envoie" =>
                /\ scene.commande[cour[x]] = "UPLOAD"
                /\ pcS[cour[x]] \in Avant => montant[cour[x]] # <<>>
Fermes == \A c \in fermeC : pcC[scene.proprio[c]] = "mort"

UnSeul == Threads /\ ~croise => \A c, d \in Conns : Sert(c) /\ Sert(d) => c = d

Fins == {c \in Conns : pcS[c] = "fin"}

(* The types, with those of the streams.                                   *)
Types ==
    /\ scene \in Scenarios
    /\ pcC \in [Clients -> {"connecte", "commande", "envoie", "lit", "mort"}]
    /\ cour \in [Clients -> 0 .. NbConnexions]
    /\ pcS \in [Conns -> Etapes]
    /\ montant \in [Conns -> Seq(Unites)] /\ descendant \in [Conns -> Seq(Unites)]
    /\ data \in [Conns -> Seq(Unites)]
    /\ fichier \in [Conns -> Seq(Unites)] /\ copie \in [Conns -> Seq(Unites)]
    /\ \A c \in Conns :
        /\ Len(montant[c]) <= Tampon /\ Len(descendant[c]) <= Tampon
        /\ data[c] = <<>> \/ Len(data[c]) = Bloc
        /\ posn[c] <= Taille[c]
    /\ n \in [0 .. NbConnexions -> -1 .. Bloc] /\ fd \in [0 .. NbConnexions -> 0 .. NbConnexions]
    /\ posn \in [Conns -> Nat]
    /\ tenue \in [Conns -> SUBSET {"noyau", "pere", "fils"}]
    /\ ouverts \subseteq Conns /\ fermeC \subseteq Conns
    /\ pcM \in 0 .. NbConnexions /\ vivant \in BOOLEAN /\ croise \in BOOLEAN
    /\ zombies \in Nat /\ zombies <= Cardinality(Fins)

CInv ==
    /\ Types /\ Fermes /\ UnSeul
    /\ \A c \in Conns : Connexion(c)
    /\ \A x \in Clients : Poste(x)

-----------------------------------------------------------------------------
LEMMA Scene ==
  ASSUME Types
  PROVE  /\ scene.programme \in {"fork", "thread", "nom"}
         /\ scene.proprio \in [Conns -> Clients]
         /\ \A c \in Conns : scene.commande[c] \in Entree \cup {"fin"}
         /\ scene.programme = "nom" => \A c \in Conns : scene.commande[c] = "LIST"
<1>1. scene \in Scenarios
  BY DEF Types
<1>2. scene \in [programme : {"fork", "thread", "nom"}, proprio : [Conns -> Clients],
                 commande : [Conns -> Entree \cup {"fin"}]]
  BY <1>1, TransfertAssumption DEF Entree, Conns
<1>3. scene.programme = "nom" => \A c \in Conns : scene.commande[c] = "LIST"
  BY <1>1, TransfertAssumption DEF Conns
<1> QED BY <1>2, <1>3

LEMMA Cellules ==
  ASSUME Types, NEW c \in Conns
  PROVE  /\ Cellule(c) \in 0 .. NbConnexions /\ 0 \notin Conns /\ NbConnexions \in Nat
         /\ posn[c] \in Nat /\ Taille[c] \in Nat /\ Morceau(c) \in 0 .. Bloc
         /\ posn[c] + Morceau(c) <= Taille[c]
         /\ Morceau(c) = 0 <=> posn[c] = Taille[c]
<1>1. /\ NbConnexions \in Nat /\ Bloc \in Nat /\ Bloc > 0 /\ Taille[c] \in Nat
      /\ posn[c] \in Nat /\ posn[c] <= Taille[c]
  BY Constantes DEF Types
<1>2. c \in 1 .. NbConnexions /\ 0 \notin Conns
  BY DEF Conns
<1> QED BY <1>1, <1>2 DEF Cellule, Morceau

(* The number of sons that have ended covers the zombies.                  *)
LEMMA Sons ==
  ASSUME Types, NEW c \in Conns, NEW s, pcS[c] # "fin", pcS' = [pcS EXCEPT ![c] = s],
         zombies' = zombies \/ (s = "fin" /\ zombies' = zombies + 1)
  PROVE  zombies' \in Nat /\ zombies' <= Cardinality(Fins')
<1>1. IsFiniteSet(Conns) /\ Fins \subseteq Conns /\ Fins' \subseteq Conns
  <2>1. IsFiniteSet(Conns)
    BY Constantes, FS_Interval DEF Conns
  <2> QED BY <2>1 DEF Fins
<1>2. IsFiniteSet(Fins) /\ IsFiniteSet(Fins')
  BY <1>1, FS_Subset
<1>3. Cardinality(Fins) \in Nat /\ Cardinality(Fins') \in Nat
  BY <1>2, FS_CardinalityType
<1>4. zombies \in Nat /\ zombies <= Cardinality(Fins)
  BY DEF Types
<1>5. CASE s = "fin"
  <2>1. c \notin Fins /\ Fins' = Fins \cup {c}
    BY <1>5 DEF Fins, Types
  <2>2. Cardinality(Fins') = Cardinality(Fins) + 1
    BY <1>2, <2>1, FS_AddElement
  <2> QED BY <1>3, <1>4, <2>2
<1>6. CASE s # "fin"
  <2>1. Fins' = Fins
    BY <1>6 DEF Fins, Types
  <2> QED BY <1>4, <1>6, <2>1
<1> QED BY <1>5, <1>6

LEMMA ZombiesBornes == ASSUME Types PROVE zombies \in 0 .. NbConnexions
<1>1. IsFiniteSet(Conns) /\ Cardinality(Conns) = NbConnexions
  BY Constantes, FS_Interval DEF Conns
<1>2. Fins \subseteq Conns
  BY DEF Fins
<1>3. Cardinality(Fins) <= Cardinality(Conns) /\ IsFiniteSet(Fins)
  BY <1>1, <1>2, FS_Subset
<1>4. Cardinality(Fins) \in Nat
  BY <1>3, FS_CardinalityType
<1> QED BY <1>1, <1>3, <1>4, Constantes DEF Types

(* A connexion on which nothing happens.                                   *)
LEMMA Cadre ==
  ASSUME NEW d \in Conns, Connexion(d), scene' = scene, vivant' = vivant, croise = TRUE => croise' = TRUE,
         pcS'[d] = pcS[d], montant'[d] = montant[d], descendant'[d] = descendant[d],
         data'[d] = data[d], d \in fermeC => d \in fermeC',
         Sain' => fichier'[d] = fichier[d] /\ copie'[d] = copie[d] /\ posn'[d] = posn[d],
         "noyau" \in tenue[d] => "noyau" \in tenue'[d], "fils" \in tenue[d] => "fils" \in tenue'[d],
         Sain' /\ Sert(d) => /\ fd'[Cellule(d)] = fd[Cellule(d)] /\ n'[Cellule(d)] = n[Cellule(d)]
                             /\ d \in ouverts => d \in ouverts',
         croise \in BOOLEAN
  PROVE  Connexion(d)'
<1>1. (Sain' => Sain) /\ Threads' = Threads /\ Cellule(d)' = Cellule(d)
  BY DEF Sain, Threads, Cellule
<1>2. Etape(d)'
  BY DEF Connexion, Etape
<1>3. Vide(d)'
  BY <1>1 DEF Connexion, Vide
<1>4. Tenu(d)'
  BY DEF Connexion, Tenu
<1>5. Propre(d)'
  BY <1>1 DEF Connexion, Propre, Sert, Envoi, Retour
<1>6. Copies(d)'
  BY <1>1 DEF Connexion, Copies
<1> QED BY <1>2, <1>3, <1>4, <1>5, <1>6 DEF Connexion

(* A step of the service of c leaves the other connexions alone: as long   *)
(* as the threads serve one at a time, they find their own n and fichierfd.*)
LEMMA ServiceAutres ==
  ASSUME CInv, NEW c \in Conns, Sert(c), NEW s \in Etapes \ Avant, pcS' = [pcS EXCEPT ![c] = s],
         UNCHANGED <<scene, pcC, cour, fermeC, croise, vivant>>,
         \A d \in Conns \ {c} :
            /\ montant'[d] = montant[d] /\ descendant'[d] = descendant[d] /\ data'[d] = data[d]
            /\ tenue'[d] = tenue[d]
            /\ Sain => /\ fichier'[d] = fichier[d] /\ copie'[d] = copie[d] /\ posn'[d] = posn[d]
                       /\ d \in ouverts => d \in ouverts',
         montant[c] = <<>> => montant'[c] = <<>>,
         \A k \in 0 .. NbConnexions : k # Cellule(c) => fd'[k] = fd[k] /\ n'[k] = n[k]
  PROVE  /\ \A d \in Conns \ {c} : Connexion(d)'
         /\ Fermes' /\ UnSeul' /\ \A x \in Clients : Poste(x)'
<1> USE DEF CInv
<1>1. pcS \in [Conns -> Etapes] /\ croise \in BOOLEAN
  BY DEF Types
<1>2. Sain' = Sain
  BY DEF Sain, Threads
<1>3. ASSUME NEW d \in Conns \ {c} PROVE Connexion(d)'
  <2>1. Sain /\ Sert(d) => Cellule(d) # Cellule(c)
    BY DEF Sain, UnSeul, Cellule
  <2>2. Cellule(d) \in 0 .. NbConnexions
    BY Cellules
  <2>3. pcS'[d] = pcS[d]
    BY <1>1
  <2> QED BY <1>1, <1>2, <2>1, <2>2, <2>3, Cadre
<1>4. Fermes'
  BY DEF Fermes
<1>5. UnSeul'
  BY <1>1 DEF UnSeul, Sert, Threads
<1>6. ASSUME NEW x \in Clients PROVE Poste(x)'
  <2> SUFFICES ASSUME pcC[x] \in {"commande", "envoie", "lit"} PROVE Poste(x)'
    BY DEF Poste
  <2>1. Poste(x) /\ cour[x] \in Conns
    BY DEF Poste
  <2>2. CASE cour[x] = c
    BY <1>1, <2>1, <2>2 DEF Poste, Avant
  <2>3. CASE cour[x] # c
    BY <1>1, <2>1, <2>3 DEF Poste
  <2> QED BY <2>2, <2>3
<1> QED BY <1>3, <1>4, <1>5, <1>6

(* The server has gone: nothing is promised of its connexions.             *)
LEMMA FinServeurOK ==
  ASSUME CInv, FinServeur,
         UNCHANGED <<scene, pcC, cour, copie, fichier, montant, descendant, fermeC, posn, ouverts, croise>>,
         n' \in [0 .. NbConnexions -> -1 .. Bloc], fd' \in [0 .. NbConnexions -> 0 .. NbConnexions],
         data' \in [Conns -> Seq(Unites)], \A d \in Conns : data'[d] = data[d] \/ data'[d] = <<>>
  PROVE  CInv'
<1> USE DEF CInv
<1>1. /\ pcS' = [d \in Conns |-> IF EnService(d) THEN "fin" ELSE pcS[d]]
      /\ tenue' = [d \in Conns |-> {}] /\ vivant' = FALSE
      /\ pcS \in [Conns -> Etapes] /\ UNCHANGED <<pcM, sigchld, enHandler, zombies>>
  BY DEF FinServeur, Types
<1>2. ~Sain'
  BY <1>1 DEF Sain
<1>3. \A d \in Conns : pcS'[d] \in {"absent", "fin"} /\ (pcS'[d] = "absent" <=> pcS[d] = "absent")
                       /\ (pcS[d] = "fin" => pcS'[d] = "fin")
  BY <1>1 DEF EnService
<1>4. ASSUME NEW d \in Conns PROVE Connexion(d)'
  <2>1. pcS[d] = "absent" => montant[d] = <<>> /\ descendant[d] = <<>> /\ data[d] = <<>>
    BY DEF Connexion, Vide, Avant
  <2>2. Vide(d)'
    BY <1>2, <1>3, <2>1 DEF Vide, Avant, Entree
  <2> QED BY <1>1, <1>2, <1>3, <2>2 DEF Connexion, Etape, Tenu, Propre, Copies, Entree, Envoi, Retour
<1>5. Fermes' /\ UnSeul'
  BY <1>1, <1>3 DEF Fermes, UnSeul, Sert
<1>6. ASSUME NEW x \in Clients PROVE Poste(x)'
  BY <1>3 DEF Poste, Avant
<1>7. Types'
  <2>1. Fins \subseteq Fins'
    BY <1>3 DEF Fins
  <2>2. IsFiniteSet(Fins')
    <3>1. IsFiniteSet(Conns)
      BY Constantes, FS_Interval DEF Conns
    <3>2. Fins' \subseteq Conns
      BY DEF Fins
    <3> QED BY <3>1, <3>2, FS_Subset
  <2>3. Cardinality(Fins) <= Cardinality(Fins') /\ IsFiniteSet(Fins)
    BY <2>1, <2>2, FS_Subset
  <2>4. Cardinality(Fins) \in Nat /\ Cardinality(Fins') \in Nat
    BY <2>2, <2>3, FS_CardinalityType
  <2>5. zombies' \in Nat /\ zombies' <= Cardinality(Fins')
    BY <1>1, <2>3, <2>4 DEF Types
  <2>6. pcS' \in [Conns -> Etapes]
    BY <1>1 DEF Etapes
  <2>7. \A d \in Conns : data'[d] = <<>> \/ Len(data'[d]) = Bloc
    BY DEF Types
  <2> HIDE DEF CInv
  <2>8. Types
    BY DEF CInv
  <2> QED BY <1>1, <2>5, <2>6, <2>7, <2>8 DEF Types
<1> QED BY <1>4, <1>5, <1>6, <1>7


-----------------------------------------------------------------------------
(* The steps of the service of c.                                          *)
LEMMA FinServiceEffet ==
  ASSUME Types, NEW c \in Conns, FinService(c)
  PROVE  /\ pcS' = [pcS EXCEPT ![c] = "fin"]
         /\ tenue' \in [Conns -> SUBSET {"noyau", "pere", "fils"}]
         /\ \A d \in Conns \ {c} : tenue'[d] = tenue[d]
         /\ zombies' = zombies \/ zombies' = zombies + 1
         /\ pcM' = pcM /\ vivant' = vivant
  BY DEF FinService, Lache, Types

LEMMA CommandeOK == ASSUME CInv, NEW c \in Conns, Commande(c) PROVE CInv'
<1>0. Types /\ Connexion(c) /\ pcS[c] = "commande" /\ Sert(c)
  BY DEF CInv, Commande, Sert
<1>1. UNCHANGED <<scene, pcC, cour, copie, data, fd, ouverts, fichier, descendant, fermeC, posn, croise>>
  BY DEF Commande, cvars
<1>2. CASE montant[c] = <<>>
  <2>1. c \in fermeC /\ Meurt(c) /\ UNCHANGED <<montant, n>>
    BY <1>2 DEF Commande
  <2>2. CASE Threads
    <3>1. FinServeur
      BY <2>1, <2>2 DEF Meurt
    <3>2. /\ n' \in [0 .. NbConnexions -> -1 .. Bloc] /\ fd' \in [0 .. NbConnexions -> 0 .. NbConnexions]
          /\ data' \in [Conns -> Seq(Unites)] /\ \A d \in Conns : data'[d] = data[d]
      BY <1>0, <1>1, <2>1 DEF Types
    <3> QED BY <1>1, <2>1, <3>1, <3>2, FinServeurOK
  <2>3. CASE ~Threads
    <3>1. FinService(c)
      BY <2>1, <2>3 DEF Meurt
    <3>2. /\ pcS' = [pcS EXCEPT ![c] = "fin"] /\ tenue' \in [Conns -> SUBSET {"noyau", "pere", "fils"}]
          /\ \A d \in Conns \ {c} : tenue'[d] = tenue[d]
          /\ zombies' = zombies \/ zombies' = zombies + 1
          /\ pcM' = pcM /\ vivant' = vivant
      BY <1>0, <3>1, FinServiceEffet
    <3>3. Types'
      <4>1. zombies' \in Nat /\ zombies' <= Cardinality(Fins')
        BY <1>0, <3>2, Sons
      <4> QED BY <1>0, <1>1, <2>1, <3>2, <4>1 DEF Types, Etapes
    <3>4. /\ \A d \in Conns \ {c} : Connexion(d)'
          /\ Fermes' /\ UnSeul' /\ \A x \in Clients : Poste(x)'
      <4>1. "fin" \in Etapes \ Avant
        BY DEF Etapes, Avant
      <4> QED BY <1>0, <1>1, <2>1, <3>2, <4>1, ServiceAutres
    <3>5. pcS'[c] = "fin"
      BY <1>0, <3>2 DEF Types
    <3>6. Sain => fichier[c] = <<>>
      BY <1>0 DEF Connexion, Vide, Avant
    <3>7. Sain' = Sain
      BY <1>1, <3>2 DEF Sain, Threads
    <3>8. Connexion(c)'
      BY <1>0, <1>1, <2>1, <3>2, <3>5, <3>6, <3>7
         DEF Connexion, Etape, Vide, Tenu, Propre, Copies, Avant, Entree, Envoi, Retour
    <3> QED BY <3>3, <3>4, <3>8 DEF CInv
  <2> QED BY <2>2, <2>3
<1>3. CASE montant[c] # <<>>
  <2> DEFINE k == IF scene.programme = "nom" THEN "fin" ELSE scene.commande[c]
  <2>1. /\ montant' = [montant EXCEPT ![c] = Tail(montant[c])]
        /\ n' = [n EXCEPT ![Cellule(c)] = 1]
        /\ IF scene.programme = "nom" THEN FinService(c)
           ELSE pcS' = [pcS EXCEPT ![c] = scene.commande[c]] /\ UNCHANGED <<tenue, coupe, mvars>>
    BY <1>3 DEF Commande
  <2>2. k \in Entree \cup {"fin"} /\ k \in Etapes \ Avant
    BY <1>0, Scene DEF Etapes, Avant, Entree
  <2>3. /\ pcS' = [pcS EXCEPT ![c] = k] /\ tenue' \in [Conns -> SUBSET {"noyau", "pere", "fils"}]
        /\ \A d \in Conns \ {c} : tenue'[d] = tenue[d]
        /\ zombies' = zombies \/ (k = "fin" /\ zombies' = zombies + 1)
        /\ pcM' = pcM /\ vivant' = vivant
    <3>1. CASE scene.programme = "nom"
      BY <1>0, <2>1, <3>1, FinServiceEffet
    <3>2. CASE scene.programme # "nom"
      BY <1>0, <2>1, <3>2 DEF mvars, Types
    <3> QED BY <3>1, <3>2
  <2>4. scene.programme = "nom" => scene.commande[c] = "LIST"
    BY <1>0, Scene
  <2>5. scene.programme # "nom" => tenue' = tenue
    BY <2>1
  <2>6. montant[c] \in Seq(Unites) /\ montant[c][1] = Nul /\ Len(montant[c]) <= Tampon
    BY <1>0, <1>3 DEF Types, Connexion, Vide, Avant
  <2>7. Tail(montant[c]) \in Seq(Unites) /\ Len(Tail(montant[c])) = Len(montant[c]) - 1
        /\ Donnees(Tail(montant[c])) = Donnees(montant[c])
    BY <1>3, <2>6, Queue
  <2>8. montant'[c] = Tail(montant[c]) /\ pcS'[c] = k
    BY <1>0, <2>1, <2>3 DEF Types
  <2> HIDE DEF k
  <2>9. Types'
    <3>1. zombies' \in Nat /\ zombies' <= Cardinality(Fins')
      BY <1>0, <2>3, Sons
    <3>2. 1 \in -1 .. Bloc
      BY Constantes
    <3>3. Len(Tail(montant[c])) <= Tampon
      BY <2>6, <2>7, Constantes, LenProperties
    <3>4. /\ montant' \in [Conns -> Seq(Unites)] /\ \A d \in Conns : Len(montant'[d]) <= Tampon
          /\ n' \in [0 .. NbConnexions -> -1 .. Bloc] /\ pcS' \in [Conns -> Etapes]
      BY <1>0, <2>1, <2>2, <2>3, <2>7, <3>2, <3>3 DEF Types
    <3> QED BY <1>0, <1>1, <2>3, <3>1, <3>4 DEF Types
  <2>10. /\ \A d \in Conns \ {c} : Connexion(d)'
         /\ Fermes' /\ UnSeul' /\ \A x \in Clients : Poste(x)'
    <3>1. /\ \A d \in Conns \ {c} : montant'[d] = montant[d]
          /\ \A j \in 0 .. NbConnexions : j # Cellule(c) => n'[j] = n[j]
      BY <1>0, <2>1 DEF Types
    <3> QED BY <1>0, <1>1, <1>3, <2>2, <2>3, <3>1, ServiceAutres
  <2>11. Sain' = Sain
    BY <1>1, <2>3 DEF Sain, Threads
  <2>12. Connexion(c)'
    <3>1. Etape(c)'
      BY <1>1, <2>2, <2>4, <2>8 DEF Etape, Entree, Envoi, Retour, k
    <3>2. Vide(c)'
      BY <1>0, <1>1, <2>2, <2>8, <2>11 DEF Connexion, Vide, Avant, Entree
    <3>3. Tenu(c)'
      BY <1>0, <1>1, <2>2, <2>3, <2>4, <2>5, <2>8 DEF Connexion, Tenu, Entree, k
    <3>4. Propre(c)'
      BY <2>2, <2>8 DEF Propre, Entree, Envoi, Retour
    <3>5. Copies(c)'
      BY <1>0, <1>1, <2>2, <2>4, <2>7, <2>8, <2>11 DEF Connexion, Copies, Vide, Avant, Entree, k
    <3> QED BY <3>1, <3>2, <3>3, <3>4, <3>5 DEF Connexion
  <2> QED BY <2>9, <2>10, <2>12 DEF CInv
<1> QED BY <1>2, <1>3

LEMMA ListOK == ASSUME CInv, NEW c \in Conns, List(c) PROVE CInv'
<1>0. Types /\ Connexion(c) /\ pcS[c] = "LIST" /\ Sert(c)
  BY DEF CInv, List, Sert
<1>1. /\ UNCHANGED <<scene, pcC, cour, copie, data, fd, ouverts, fichier, montant, fermeC, posn, croise>>
      /\ n' = [n EXCEPT ![Cellule(c)] = Bloc]
      /\ descendant' = IF c \in fermeC THEN descendant
                       ELSE [descendant EXCEPT ![c] = descendant[c] \o Plein(<<>>)]
      /\ FinService(c)
  BY DEF List, cvars
<1>2. /\ pcS' = [pcS EXCEPT ![c] = "fin"] /\ tenue' \in [Conns -> SUBSET {"noyau", "pere", "fils"}]
      /\ \A d \in Conns \ {c} : tenue'[d] = tenue[d]
      /\ zombies' = zombies \/ zombies' = zombies + 1
      /\ pcM' = pcM /\ vivant' = vivant
  BY <1>0, <1>1, FinServiceEffet
<1>3. /\ scene.commande[c] = "LIST" /\ descendant[c] = <<>>
      /\ pcS'[c] = "fin"
  BY <1>0, <1>2 DEF Connexion, Etape, Vide, Entree, Types
<1>4. Plein(<<>>) \in Seq(Unites) /\ Len(Plein(<<>>)) = Bloc /\ Bloc <= Tampon /\ Bloc \in -1 .. Bloc
      /\ <<>> \o Plein(<<>>) = Plein(<<>>)
  <2>1. <<>> \in Seq(Unites) /\ Len(<<>>) <= Bloc
    BY Constantes
  <2>2. Plein(<<>>) \in Seq(Unites) /\ Len(Plein(<<>>)) = Bloc
    BY <2>1, PleinType
  <2> QED BY <2>2, Constantes, ConcatEmptySeq
<1>5. Types'
  <2>1. zombies' \in Nat /\ zombies' <= Cardinality(Fins')
    BY <1>0, <1>2, Sons
  <2>2. descendant' \in [Conns -> Seq(Unites)] /\ \A d \in Conns : Len(descendant'[d]) <= Tampon
    <3>1. descendant' = descendant \/ descendant' = [descendant EXCEPT ![c] = Plein(<<>>)]
      BY <1>1, <1>3, <1>4
    <3> QED BY <1>0, <1>4, <3>1 DEF Types
  <2>3. n' \in [0 .. NbConnexions -> -1 .. Bloc] /\ pcS' \in [Conns -> Etapes]
    BY <1>0, <1>1, <1>2, <1>4 DEF Types, Etapes
  <2> QED BY <1>0, <1>1, <1>2, <2>1, <2>2, <2>3 DEF Types
<1>6. /\ \A d \in Conns \ {c} : Connexion(d)'
      /\ Fermes' /\ UnSeul' /\ \A x \in Clients : Poste(x)'
  <2>1. /\ \A d \in Conns \ {c} : descendant'[d] = descendant[d]
        /\ \A j \in 0 .. NbConnexions : j # Cellule(c) => n'[j] = n[j]
    BY <1>0, <1>1 DEF Types
  <2>2. "fin" \in Etapes \ Avant
    BY DEF Etapes, Avant
  <2> QED BY <1>0, <1>1, <1>2, <2>1, <2>2, ServiceAutres
<1>7. Connexion(c)'
  BY <1>0, <1>1, <1>2, <1>3 DEF Connexion, Etape, Vide, Tenu, Propre, Copies, Avant, Entree, Envoi, Retour
<1> QED BY <1>5, <1>6, <1>7 DEF CInv


LEMMA UploadOK == ASSUME CInv, NEW c \in Conns, Upload(c) PROVE CInv'
<1>0. Types /\ Connexion(c) /\ pcS[c] = "UPLOAD" /\ Sert(c) /\ Cellule(c) \in 0 .. NbConnexions
      /\ c \in 0 .. NbConnexions /\ 0 \in 0 .. NbConnexions
  <2>1. Types /\ Connexion(c) /\ pcS[c] = "UPLOAD" /\ Sert(c)
    BY DEF CInv, Upload, Sert
  <2>2. NbConnexions \in Nat /\ c \in 1 .. NbConnexions
    BY Constantes DEF Conns
  <2> QED BY <2>1, <2>2, Cellules
<1>1. UNCHANGED <<scene, pcC, cour, copie, data, n, fichier, montant, descendant, fermeC, posn, croise>>
  BY DEF Upload, cvars
<1>2. scene.commande[c] = "UPLOAD" /\ data[c] = <<>> /\ (Sain => fichier[c] = <<>>)
  BY <1>0 DEF Connexion, Etape, Vide, Entree
<1>3. CASE fd' = [fd EXCEPT ![Cellule(c)] = c] /\ ouverts' = ouverts \cup {c}
           /\ pcS' = [pcS EXCEPT ![c] = "UPLOAD lit"] /\ UNCHANGED <<tenue, coupe, mvars>>
  <2>1. fd' \in [0 .. NbConnexions -> 0 .. NbConnexions] /\ fd'[Cellule(c)] = c /\ pcS'[c] = "UPLOAD lit"
        /\ pcS' \in [Conns -> Etapes] /\ "UPLOAD lit" \in Etapes \ Avant
        /\ \A j \in 0 .. NbConnexions : j # Cellule(c) => fd'[j] = fd[j]
    BY <1>0, <1>3 DEF Types, Etapes, Avant, Envoi
  <2>2. UNCHANGED <<tenue, pcM, zombies, vivant>>
    BY <1>3 DEF mvars
  <2>3. Types'
    <3>1. zombies' \in Nat /\ zombies' <= Cardinality(Fins')
      BY <1>0, <1>3, <2>2, Sons
    <3> QED BY <1>0, <1>1, <1>3, <2>1, <2>2, <3>1 DEF Types
  <2>4. /\ \A d \in Conns \ {c} : Connexion(d)'
        /\ Fermes' /\ UnSeul' /\ \A x \in Clients : Poste(x)'
    BY <1>0, <1>1, <1>3, <2>1, <2>2, ServiceAutres
  <2>5. Sain' = Sain /\ Cellule(c)' = Cellule(c)
    BY <1>1, <2>2 DEF Sain, Threads, Cellule
  <2>6. Connexion(c)'
    BY <1>0, <1>1, <1>2, <1>3, <2>1, <2>2, <2>5
       DEF Connexion, Etape, Vide, Tenu, Propre, Copies, Avant, Entree, Envoi, Retour
  <2> QED BY <2>3, <2>4, <2>6 DEF CInv
<1>4. CASE fd' = [fd EXCEPT ![Cellule(c)] = 0] /\ Meurt(c) /\ UNCHANGED ouverts
  <2>1. fd' \in [0 .. NbConnexions -> 0 .. NbConnexions]
        /\ \A j \in 0 .. NbConnexions : j # Cellule(c) => fd'[j] = fd[j]
    BY <1>0, <1>4 DEF Types
  <2>2. CASE Threads
    <3>1. FinServeur
      BY <1>4, <2>2 DEF Meurt
    <3>2. /\ n' \in [0 .. NbConnexions -> -1 .. Bloc]
          /\ data' \in [Conns -> Seq(Unites)] /\ \A d \in Conns : data'[d] = data[d]
      BY <1>0, <1>1 DEF Types
    <3> QED BY <1>1, <1>4, <2>1, <3>1, <3>2, FinServeurOK
  <2>3. CASE ~Threads
    <3>1. FinService(c)
      BY <1>4, <2>3 DEF Meurt
    <3>2. /\ pcS' = [pcS EXCEPT ![c] = "fin"] /\ tenue' \in [Conns -> SUBSET {"noyau", "pere", "fils"}]
          /\ \A d \in Conns \ {c} : tenue'[d] = tenue[d]
          /\ zombies' = zombies \/ zombies' = zombies + 1
          /\ pcM' = pcM /\ vivant' = vivant
      BY <1>0, <3>1, FinServiceEffet
    <3>3. Types'
      <4>1. zombies' \in Nat /\ zombies' <= Cardinality(Fins')
        BY <1>0, <3>2, Sons
      <4> QED BY <1>0, <1>1, <1>4, <2>1, <3>2, <4>1 DEF Types, Etapes
    <3>4. /\ \A d \in Conns \ {c} : Connexion(d)'
          /\ Fermes' /\ UnSeul' /\ \A x \in Clients : Poste(x)'
      <4>1. "fin" \in Etapes \ Avant
        BY DEF Etapes, Avant
      <4> QED BY <1>0, <1>1, <1>4, <2>1, <3>2, <4>1, ServiceAutres
    <3>5. pcS'[c] = "fin" /\ Sain' = Sain
      BY <1>0, <1>1, <3>2 DEF Types, Sain, Threads
    <3>6. Connexion(c)'
      BY <1>0, <1>1, <1>2, <3>2, <3>5
         DEF Connexion, Etape, Vide, Tenu, Propre, Copies, Avant, Entree, Envoi, Retour
    <3> QED BY <3>3, <3>4, <3>6 DEF CInv
  <2> QED BY <2>2, <2>3
<1> QED BY <1>3, <1>4 DEF Upload

(* A part of what has come goes to DATA, the rest stays.                   *)
LEMMA Deplacees ==
  ASSUME NEW a \in Seq(Unites), NEW e, NEW b, NEW x \in Seq(Unites), NEW y \in Seq(Unites),
         e = <<>>, b = x \o y
  PROVE  (a \o e) \o b = (a \o x) \o y
<1>1. a \o e = a
  BY ConcatEmptySeq
<1>2. (a \o x) \o y = a \o (x \o y)
  <2> HIDE DEF Unites
  <2> QED BY ConcatAssociative
<1> QED BY <1>1, <1>2

LEMMA UploadLitOK == ASSUME CInv, NEW c \in Conns, UploadLit(c) PROVE CInv'
<1>0. Types /\ Connexion(c) /\ pcS[c] = "UPLOAD lit" /\ Sert(c) /\ Cellule(c) \in 0 .. NbConnexions
  BY Cellules DEF CInv, UploadLit, Sert
<1>1. /\ UNCHANGED <<scene, pcC, cour, copie, fd, ouverts, fichier, descendant, fermeC, tenue, posn,
                     pcM, zombies, vivant, croise>>
      /\ pcS' = [pcS EXCEPT ![c] = "UPLOAD teste"]
      /\ montant[c] # <<>> \/ c \in fermeC
  BY DEF UploadLit, cvars, mvars
<1>2. scene.commande[c] = "UPLOAD" /\ data[c] = <<>>
  BY <1>0 DEF Connexion, Etape, Vide, Envoi
<1>3. montant[c] \in Seq(Unites) /\ Len(montant[c]) \in Nat /\ Len(montant[c]) <= Tampon
      /\ fichier[c] \in Seq(Unites)
  BY <1>0, LenProperties DEF Types
<1>4. PICK k \in -1 .. Bloc, p \in Seq(Unites), r \in Seq(Unites) :
        /\ data' = [data EXCEPT ![c] = Plein(p)] /\ montant' = [montant EXCEPT ![c] = r]
        /\ n' = [n EXCEPT ![Cellule(c)] = k]
        /\ Len(p) <= Bloc /\ Len(r) <= Len(montant[c])
        /\ Donnees(montant[c]) = Donnees(p) \o Donnees(r)
        /\ k = 0 => montant[c] = <<>> /\ p = <<>>
  <2>1. CASE \E k \in 0 .. Bloc :
                /\ k <= Len(montant[c]) /\ (k = 0 => montant[c] = <<>>)
                /\ data' = [data EXCEPT ![c] = Plein(SubSeq(montant[c], 1, k))]
                /\ montant' = [montant EXCEPT ![c] = SubSeq(montant[c], k + 1, Len(montant[c]))]
                /\ n' = [n EXCEPT ![Cellule(c)] = k]
    <3>1. PICK k \in 0 .. Bloc :
            /\ k <= Len(montant[c]) /\ (k = 0 => montant[c] = <<>>)
            /\ data' = [data EXCEPT ![c] = Plein(SubSeq(montant[c], 1, k))]
            /\ montant' = [montant EXCEPT ![c] = SubSeq(montant[c], k + 1, Len(montant[c]))]
            /\ n' = [n EXCEPT ![Cellule(c)] = k]
      BY <2>1
    <3> DEFINE p == SubSeq(montant[c], 1, k)
               r == SubSeq(montant[c], k + 1, Len(montant[c]))
    <3>2. k \in Nat /\ k \in -1 .. Bloc /\ k <= Bloc /\ k \in 0 .. Len(montant[c])
      BY <1>3, <3>1, Constantes
    <3>3. /\ p \in Seq(Unites) /\ Len(p) = k /\ r \in Seq(Unites) /\ Len(r) = Len(montant[c]) - k
          /\ Donnees(montant[c]) = Donnees(p) \o Donnees(r)
      BY <1>3, <3>2, Coupe
    <3>4. data' = [data EXCEPT ![c] = Plein(p)] /\ montant' = [montant EXCEPT ![c] = r]
      BY <3>1
    <3> HIDE DEF p, r
    <3>5. Len(p) <= Bloc /\ Len(r) <= Len(montant[c])
      BY <1>3, <3>2, <3>3
    <3>6. k = 0 => p = <<>>
      BY <3>3, EmptySeq
    <3> QED BY <3>1, <3>2, <3>3, <3>4, <3>5, <3>6
  <2>2. CASE /\ montant[c] = <<>>
             /\ data' = [data EXCEPT ![c] = Plein(<<>>)]
             /\ n' = [n EXCEPT ![Cellule(c)] = -1]
             /\ UNCHANGED montant
    <3>1. montant' = [montant EXCEPT ![c] = <<>>]
      BY <1>0, <2>2 DEF Types
    <3>2. -1 \in -1 .. Bloc /\ -1 # 0 /\ <<>> \in Seq(Unites) /\ Len(<<>>) <= Bloc
      BY Constantes
    <3>3. <<>> \o <<>> = <<>>
      BY <3>2, ConcatEmptySeq
    <3>4. Donnees(montant[c]) = Donnees(<<>>) \o Donnees(<<>>)
      BY <2>2, <3>3, DonneesVide
    <3>5. Len(<<>>) <= Len(montant[c])
      BY <2>2
    <3> QED BY <2>2, <3>1, <3>2, <3>4, <3>5
  <2> QED BY <2>1, <2>2 DEF UploadLit
<1>5. Len(p) \in Nat /\ Len(r) \in Nat
  BY LenProperties
<1>7. Plein(p) \in Seq(Unites) /\ Len(Plein(p)) = Bloc /\ Donnees(Plein(p)) = Donnees(p)
  BY <1>4, PleinType
<1>8. Bloc \in Nat /\ Tampon \in Nat
  BY Constantes
<1>9. /\ data'[c] = Plein(p) /\ montant'[c] = r /\ pcS'[c] = "UPLOAD teste" /\ n'[Cellule(c)] = k
      /\ \A d \in Conns \ {c} : data'[d] = data[d] /\ montant'[d] = montant[d]
      /\ \A j \in 0 .. NbConnexions : j # Cellule(c) => n'[j] = n[j]
  BY <1>0, <1>1, <1>4 DEF Types
<1>10. Types'
  <2>1. zombies' \in Nat /\ zombies' <= Cardinality(Fins')
    BY <1>0, <1>1, Sons
  <2>2. /\ data' \in [Conns -> Seq(Unites)] /\ montant' \in [Conns -> Seq(Unites)]
        /\ n' \in [0 .. NbConnexions -> -1 .. Bloc]
    BY <1>0, <1>4, <1>7, <1>8 DEF Types
  <2>3. ASSUME NEW d \in Conns
        PROVE  Len(montant'[d]) <= Tampon /\ (data'[d] = <<>> \/ Len(data'[d]) = Bloc)
    <3>1. Len(r) <= Tampon
      BY <1>3, <1>4, <1>5, <1>8
    <3>2. CASE d = c
      BY <1>7, <1>9, <3>1, <3>2
    <3>3. CASE d # c
      BY <1>0, <1>9, <3>3 DEF Types
    <3> QED BY <3>2, <3>3
  <2>4. pcS' \in [Conns -> Etapes]
    BY <1>0, <1>1 DEF Types, Etapes, Envoi
  <2> QED BY <1>0, <1>1, <2>1, <2>2, <2>3, <2>4 DEF Types
<1>11. montant[c] = <<>> => r = <<>>
  <2> SUFFICES ASSUME montant[c] = <<>> PROVE r = <<>>
    OBVIOUS
  <2>1. Len(r) = 0
    BY <1>3, <1>4, <1>5
  <2> QED BY <2>1, EmptySeq
<1>12. k = 0 => montant[c] = <<>> /\ r = <<>> /\ c \in fermeC /\ Donnees(p) = <<>>
  BY <1>1, <1>4, <1>11, DonneesVide
<1>13. /\ \A d \in Conns \ {c} : Connexion(d)'
       /\ Fermes' /\ UnSeul' /\ \A x \in Clients : Poste(x)'
  <2>1. "UPLOAD teste" \in Etapes \ Avant
    BY DEF Etapes, Avant, Envoi
  <2> QED BY <1>0, <1>1, <1>9, <1>11, <2>1, ServiceAutres
<1>14. Sain' = Sain /\ Cellule(c)' = Cellule(c)
  BY <1>1 DEF Sain, Threads, Cellule
<1>15. Copies(c)'
  <2>1. (fichier[c] \o Donnees(data[c])) \o Donnees(montant[c])
            = (fichier[c] \o Donnees(p)) \o Donnees(r)
    <3>1. Donnees(data[c]) = <<>>
      BY <1>2, DonneesVide
    <3>2. Donnees(montant[c]) \in Seq(Unites) /\ Donnees(p) \in Seq(Unites) /\ Donnees(r) \in Seq(Unites)
      BY <1>3, DonneesType
    <3>3. Donnees(montant[c]) = Donnees(p) \o Donnees(r) /\ fichier[c] \in Seq(Unites)
      BY <1>3, <1>4
    <3> DEFINE f  == fichier[c]
               e  == Donnees(data[c])
               b  == Donnees(montant[c])
               dp == Donnees(p)
               dr == Donnees(r)
    <3>4. f \in Seq(Unites) /\ dp \in Seq(Unites) /\ dr \in Seq(Unites) /\ e = <<>> /\ b = dp \o dr
      BY <3>1, <3>2, <3>3
    <3> HIDE DEF f, e, b, dp, dr
    <3>5. (f \o e) \o b = (f \o dp) \o dr
      BY <3>4, Deplacees
    <3> QED BY <3>5 DEF f, e, b, dp, dr
  <2> QED BY <1>0, <1>1, <1>2, <1>7, <1>9, <1>14, <2>1 DEF Connexion, Copies
<1>16. Connexion(c)'
  <2>1. Etape(c)' /\ Vide(c)' /\ Tenu(c)'
    BY <1>0, <1>1, <1>2, <1>9, <1>14 DEF Connexion, Etape, Vide, Tenu, Avant, Entree, Envoi, Retour
  <2>2. Propre(c)'
    BY <1>0, <1>1, <1>2, <1>7, <1>9, <1>12, <1>14 DEF Connexion, Propre, Envoi, Retour
  <2> QED BY <1>15, <2>1, <2>2 DEF Connexion
<1> QED BY <1>10, <1>13, <1>16 DEF CInv


LEMMA DataChange ==
  ASSUME Types, NEW c \in Conns, NEW v \in Seq(Unites), v = <<>> \/ Len(v) = Bloc,
         data' = [data EXCEPT ![c] = v]
  PROVE  /\ data'[c] = v /\ \A d \in Conns \ {c} : data'[d] = data[d]
         /\ data' \in [Conns -> Seq(Unites)]
         /\ \A d \in Conns : data'[d] = <<>> \/ Len(data'[d]) = Bloc
<1>1. data \in [Conns -> Seq(Unites)] /\ \A d \in Conns : data[d] = <<>> \/ Len(data[d]) = Bloc
  BY DEF Types
<1>2. data'[c] = v /\ (\A d \in Conns \ {c} : data'[d] = data[d]) /\ data' \in [Conns -> Seq(Unites)]
  BY <1>1
<1>3. ASSUME NEW d \in Conns PROVE data'[d] = <<>> \/ Len(data'[d]) = Bloc
  <2>1. CASE d = c
    BY <1>2, <2>1
  <2>2. CASE d # c
    <3>1. data'[d] = data[d]
      BY <1>2, <2>2
    <3> QED BY <1>1, <3>1
  <2> QED BY <2>1, <2>2
<1> QED BY <1>2, <1>3

LEMMA UploadTesteOK == ASSUME CInv, NEW c \in Conns, UploadTeste(c) PROVE CInv'
<1>0. Types /\ Connexion(c) /\ pcS[c] = "UPLOAD teste" /\ Sert(c) /\ Cellule(c) \in 0 .. NbConnexions
  BY Cellules DEF CInv, UploadTeste, UploadSelon, Sert
<1>1. UNCHANGED <<scene, pcC, cour, copie, n, fd, ouverts, montant, descendant, fermeC, posn, croise>>
  BY DEF UploadTeste, UploadSelon, cvars
<1>2. /\ scene.commande[c] = "UPLOAD"
      /\ Sain => /\ fd[Cellule(c)] = c /\ c \in ouverts
                 /\ n[Cellule(c)] = 0 => Donnees(data[c]) = <<>> /\ montant[c] = <<>> /\ c \in fermeC
  BY <1>0 DEF Connexion, Etape, Propre, Envoi
<1>3. fichier[c] \in Seq(Unites) /\ data[c] \in Seq(Unites) /\ montant[c] \in Seq(Unites)
  BY <1>0 DEF Types
<1>4. Donnees(data[c]) \in Seq(Unites) /\ Donnees(montant[c]) \in Seq(Unites)
  BY <1>3, DonneesType
<1>5. Sain => (fichier[c] \o Donnees(data[c])) \o Donnees(montant[c]) = Source(c, posn[c])
  BY <1>0, <1>2 DEF Connexion, Copies
<1>6. CASE n[Cellule(c)] = 0
  <2>1. FinService(c) /\ UNCHANGED <<fichier, data>>
    BY <1>6 DEF UploadTeste, UploadSelon
  <2>2. /\ pcS' = [pcS EXCEPT ![c] = "fin"] /\ tenue' \in [Conns -> SUBSET {"noyau", "pere", "fils"}]
        /\ \A d \in Conns \ {c} : tenue'[d] = tenue[d]
        /\ zombies' = zombies \/ zombies' = zombies + 1
        /\ pcM' = pcM /\ vivant' = vivant
    BY <1>0, <2>1, FinServiceEffet
  <2>3. Types'
    <3>1. zombies' \in Nat /\ zombies' <= Cardinality(Fins')
      BY <1>0, <2>2, Sons
    <3> QED BY <1>0, <1>1, <2>1, <2>2, <3>1 DEF Types, Etapes
  <2>4. /\ \A d \in Conns \ {c} : Connexion(d)'
        /\ Fermes' /\ UnSeul' /\ \A x \in Clients : Poste(x)'
    <3>1. "fin" \in Etapes \ Avant
      BY DEF Etapes, Avant
    <3> QED BY <1>0, <1>1, <2>1, <2>2, <3>1, ServiceAutres
  <2>5. pcS'[c] = "fin" /\ Sain' = Sain
    BY <1>0, <1>1, <2>2 DEF Types, Sain, Threads
  <2>6. Sain => c \in fermeC /\ fichier[c] = Source(c, posn[c])
    <3> SUFFICES ASSUME Sain PROVE c \in fermeC /\ fichier[c] = Source(c, posn[c])
      OBVIOUS
    <3> DEFINE f == fichier[c]
               e == Donnees(data[c])
               b == Donnees(montant[c])
    <3>1. f \in Seq(Unites) /\ e = <<>> /\ b = <<>> /\ (f \o e) \o b = Source(c, posn[c])
      BY <1>2, <1>3, <1>5, <1>6, DonneesVide
    <3> HIDE DEF f, e, b
    <3>2. f \o e = f /\ f \o b = f
      BY <3>1, ConcatEmptySeq
    <3> QED BY <1>2, <1>6, <3>1, <3>2 DEF f
  <2>7. Connexion(c)'
    BY <1>0, <1>1, <1>2, <2>1, <2>2, <2>5, <2>6
       DEF Connexion, Etape, Vide, Tenu, Propre, Copies, Avant, Entree, Envoi, Retour
  <2> QED BY <2>3, <2>4, <2>7 DEF CInv
<1>7. CASE n[Cellule(c)] # 0
  <2> DEFINE f == fd[Cellule(c)]
  <2>1. /\ fichier' = IF f \notin ouverts \/ scene.commande[f] # "UPLOAD" THEN fichier
                      ELSE [fichier EXCEPT ![f] = fichier[f] \o Donnees(data[c])]
        /\ data' = [data EXCEPT ![c] = <<>>] /\ pcS' = [pcS EXCEPT ![c] = "UPLOAD lit"]
        /\ UNCHANGED <<tenue, coupe, pcM, zombies, vivant>>
    BY <1>7 DEF UploadTeste, UploadSelon, mvars
  <2> HIDE DEF f
  <2>2. fichier' \in [Conns -> Seq(Unites)]
    <3>1. CASE f \in Conns
      <4>1. fichier[f] \o Donnees(data[c]) \in Seq(Unites)
        <5>1. fichier[f] \in Seq(Unites)
          BY <1>0, <3>1 DEF Types
        <5> QED BY <1>4, <5>1, ConcatProperties
      <4> QED BY <1>0, <2>1, <3>1, <4>1 DEF Types
    <3>2. CASE f \notin Conns
      BY <1>0, <2>1, <3>2 DEF Types
    <3> QED BY <3>1, <3>2
  <2>3. Sain => /\ \A d \in Conns \ {c} : fichier'[d] = fichier[d]
                /\ fichier'[c] = fichier[c] \o Donnees(data[c])
    BY <1>0, <1>2, <2>1 DEF Types, f
  <2>4. /\ data'[c] = <<>> /\ pcS'[c] = "UPLOAD lit" /\ \A d \in Conns \ {c} : data'[d] = data[d]
        /\ data' \in [Conns -> Seq(Unites)] /\ pcS' \in [Conns -> Etapes]
        /\ \A d \in Conns : data'[d] = <<>> \/ Len(data'[d]) = Bloc
    <3>1. <<>> \in Seq(Unites)
      OBVIOUS
    <3>2. pcS'[c] = "UPLOAD lit" /\ pcS' \in [Conns -> Etapes]
      BY <1>0, <2>1 DEF Types, Etapes, Envoi
    <3> QED BY <1>0, <2>1, <3>1, <3>2, DataChange
  <2>5. Types'
    <3>1. zombies' \in Nat /\ zombies' <= Cardinality(Fins')
      BY <1>0, <2>1, Sons
    <3> QED BY <1>0, <1>1, <2>1, <2>2, <2>4, <3>1 DEF Types
  <2>6. /\ \A d \in Conns \ {c} : Connexion(d)'
        /\ Fermes' /\ UnSeul' /\ \A x \in Clients : Poste(x)'
    <3>1. "UPLOAD lit" \in Etapes \ Avant
      BY DEF Etapes, Avant, Envoi
    <3> QED BY <1>0, <1>1, <2>1, <2>3, <2>4, <3>1, ServiceAutres
  <2>7. Sain' = Sain /\ Cellule(c)' = Cellule(c)
    BY <1>1, <2>1 DEF Sain, Threads, Cellule
  <2>8. Copies(c)'
    <3>1. Sain => (fichier'[c] \o Donnees(data'[c])) \o Donnees(montant'[c]) = Source(c, posn[c])
      <4> SUFFICES ASSUME Sain
                   PROVE  (fichier'[c] \o Donnees(data'[c])) \o Donnees(montant'[c]) = Source(c, posn[c])
        OBVIOUS
      <4> DEFINE g == fichier[c] \o Donnees(data[c])
                 e == Donnees(data'[c])
      <4>1. g \in Seq(Unites) /\ e = <<>> /\ fichier'[c] = g /\ g \o Donnees(montant[c]) = Source(c, posn[c])
        BY <1>3, <1>4, <1>5, <2>3, <2>4, DonneesVide, ConcatProperties
      <4> HIDE DEF g, e
      <4>2. g \o e = g
        BY <4>1, ConcatEmptySeq
      <4>3. (fichier'[c] \o e) \o Donnees(montant[c]) = Source(c, posn[c])
        BY <4>1, <4>2
      <4> QED BY <1>1, <4>3 DEF e
    <3> QED BY <1>1, <1>2, <2>4, <2>7, <3>1 DEF Copies
  <2>9. Connexion(c)'
    <3>1. Etape(c)' /\ Vide(c)' /\ Tenu(c)' /\ Propre(c)'
      BY <1>0, <1>1, <1>2, <2>1, <2>4, <2>7
         DEF Connexion, Etape, Vide, Tenu, Propre, Avant, Entree, Envoi, Retour
    <3> QED BY <2>8, <3>1 DEF Connexion
  <2> QED BY <2>5, <2>6, <2>9 DEF CInv
<1> QED BY <1>6, <1>7

LEMMA DownloadOK == ASSUME CInv, NEW c \in Conns, Download(c) PROVE CInv'
<1>0. /\ Types /\ Connexion(c) /\ pcS[c] \in {"DOWNLOAD", "DOWNLOAD absent"} /\ Sert(c)
      /\ Cellule(c) \in 0 .. NbConnexions
  BY Cellules DEF CInv, Download, Sert
<1> DEFINE f == IF pcS[c] = "DOWNLOAD" THEN c ELSE 0
<1>1. /\ UNCHANGED <<scene, pcC, cour, copie, data, n, fichier, montant, descendant, fermeC, tenue, posn,
                     pcM, zombies, vivant, croise>>
      /\ fd' = [fd EXCEPT ![Cellule(c)] = f]
      /\ ouverts' = IF pcS[c] = "DOWNLOAD" THEN ouverts \cup {c} ELSE ouverts
      /\ pcS' = [pcS EXCEPT ![c] = "DOWNLOAD lit"]
  BY DEF Download, cvars, rvars, mvars
<1>2. scene.commande[c] = pcS[c] /\ data[c] = <<>> /\ descendant[c] = <<>>
  BY <1>0 DEF Connexion, Etape, Vide, Entree
<1>3. f \in 0 .. NbConnexions
  <2>1. NbConnexions \in Nat /\ c \in 1 .. NbConnexions
    BY Constantes DEF Conns
  <2> QED BY <2>1
<1>4. /\ fd' \in [0 .. NbConnexions -> 0 .. NbConnexions] /\ fd'[Cellule(c)] = f /\ pcS'[c] = "DOWNLOAD lit"
      /\ pcS' \in [Conns -> Etapes] /\ "DOWNLOAD lit" \in Etapes \ Avant
      /\ \A j \in 0 .. NbConnexions : j # Cellule(c) => fd'[j] = fd[j]
  <2> HIDE DEF f
  <2> QED BY <1>0, <1>1, <1>3 DEF Types, Etapes, Avant, Retour
<1>5. Types'
  <2>1. zombies' \in Nat /\ zombies' <= Cardinality(Fins')
    BY <1>0, <1>1, Sons
  <2> QED BY <1>0, <1>1, <1>4, <2>1 DEF Types
<1>6. /\ \A d \in Conns \ {c} : Connexion(d)'
      /\ Fermes' /\ UnSeul' /\ \A x \in Clients : Poste(x)'
  BY <1>0, <1>1, <1>4, ServiceAutres
<1>7. Sain' = Sain /\ Cellule(c)' = Cellule(c)
  BY <1>1 DEF Sain, Threads, Cellule
<1>8. Connexion(c)'
  BY <1>0, <1>1, <1>2, <1>4, <1>7
     DEF Connexion, Etape, Vide, Tenu, Propre, Copies, Avant, Entree, Envoi, Retour
<1> QED BY <1>5, <1>6, <1>8 DEF CInv

LEMMA DownloadLitOK == ASSUME CInv, NEW c \in Conns, DownloadLit(c) PROVE CInv'
<1> DEFINE f == fd[Cellule(c)]
<1>0. Types /\ Connexion(c) /\ pcS[c] = "DOWNLOAD lit" /\ Sert(c) /\ Cellule(c) \in 0 .. NbConnexions
  BY Cellules DEF CInv, DownloadLit, Sert
<1>1. /\ UNCHANGED <<scene, pcC, cour, copie, fd, fichier, montant, descendant, fermeC, croise>>
      /\ n' = [n EXCEPT ![Cellule(c)] = Lu(f)]
  BY DEF DownloadLit, cvars
<1>2. /\ scene.commande[c] \in {"DOWNLOAD", "DOWNLOAD absent"} /\ data[c] = <<>>
      /\ Sain => /\ scene.commande[c] = "DOWNLOAD" => f = c /\ c \in ouverts
                 /\ scene.commande[c] = "DOWNLOAD absent" => f = 0
  BY <1>0 DEF Connexion, Etape, Vide, Propre, Retour
<1>3. /\ Lu(f) \in -1 .. Bloc /\ 0 \notin ouverts
      /\ Lu(f) # -1 => f \in Conns /\ Lu(f) = Morceau(f)
      /\ Lu(f) \in Int /\ Bloc \in Nat /\ Lu(f) <= Bloc /\ (Lu(f) < 0 => Lu(f) = -1)
  <2>1. ouverts \subseteq Conns /\ 0 \notin Conns /\ Bloc \in Nat
    BY <1>0, Cellules, Constantes DEF Types
  <2>2. f \in Conns => Morceau(f) \in 0 .. Bloc
    BY <1>0, Cellules
  <2> QED BY <2>1, <2>2 DEF Lu
<1>4. /\ n' \in [0 .. NbConnexions -> -1 .. Bloc]
      /\ \A j \in 0 .. NbConnexions : j # Cellule(c) => n'[j] = n[j]
  BY <1>0, <1>1, <1>3 DEF Types
<1>5. Sain /\ scene.commande[c] = "DOWNLOAD absent" => Lu(f) = -1
  BY <1>2, <1>3 DEF Lu
<1>6. CASE Lu(f) = 0
  <2>1. ouverts' = ouverts \ {f} /\ FinService(c) /\ UNCHANGED <<data, posn>>
    BY <1>6 DEF DownloadLit
  <2>2. /\ pcS' = [pcS EXCEPT ![c] = "fin"] /\ tenue' \in [Conns -> SUBSET {"noyau", "pere", "fils"}]
        /\ \A d \in Conns \ {c} : tenue'[d] = tenue[d]
        /\ zombies' = zombies \/ zombies' = zombies + 1
        /\ pcM' = pcM /\ vivant' = vivant
    BY <1>0, <2>1, FinServiceEffet
  <2>3. Types'
    <3>1. zombies' \in Nat /\ zombies' <= Cardinality(Fins')
      BY <1>0, <2>2, Sons
    <3> HIDE DEF f
    <3> QED BY <1>0, <1>1, <1>4, <2>1, <2>2, <3>1 DEF Types, Etapes
  <2>4. /\ \A d \in Conns \ {c} : Connexion(d)'
        /\ Fermes' /\ UnSeul' /\ \A x \in Clients : Poste(x)'
    <3>1. "fin" \in Etapes \ Avant
      BY DEF Etapes, Avant
    <3>2. Sain => \A d \in Conns \ {c} : d \in ouverts => d \in ouverts'
      BY <1>2, <1>3, <2>1
    <3> HIDE DEF f
    <3> QED BY <1>0, <1>1, <1>4, <2>1, <2>2, <3>1, <3>2, ServiceAutres
  <2>5. pcS'[c] = "fin" /\ Sain' = Sain
    BY <1>0, <1>1, <2>2 DEF Types, Sain, Threads
  <2>6. Sain /\ scene.commande[c] = "DOWNLOAD" => posn[c] = Taille[c]
    <3>1. Sain /\ scene.commande[c] = "DOWNLOAD" => f = c
      BY <1>2
    <3>2. Morceau(f) = 0
      BY <1>3, <1>6
    <3> HIDE DEF f
    <3>3. Morceau(c) = 0 => posn[c] = Taille[c]
      BY <1>0, Cellules
    <3> QED BY <3>1, <3>2, <3>3
  <2>7. Connexion(c)'
    <3> HIDE DEF f
    <3> QED BY <1>0, <1>1, <1>2, <2>1, <2>2, <2>5, <2>6
            DEF Connexion, Etape, Vide, Tenu, Propre, Copies, Avant, Entree, Envoi, Retour
  <2> QED BY <2>3, <2>4, <2>7 DEF CInv
<1>7. CASE Lu(f) # 0
  <2> DEFINE m == IF Lu(f) < 0 THEN <<>> ELSE SubSeq(Source(f, Taille[f]), posn[f] + 1, posn[f] + Lu(f))
  <2>1. /\ data' = [data EXCEPT ![c] = Plein(m)]
        /\ posn' = IF Lu(f) < 0 THEN posn ELSE [posn EXCEPT ![f] = posn[f] + Lu(f)]
        /\ pcS' = [pcS EXCEPT ![c] = "DOWNLOAD ecrit"]
        /\ UNCHANGED <<ouverts, tenue, coupe, pcM, zombies, vivant>>
    BY <1>7 DEF DownloadLit, mvars
  <2>2. /\ m \in Seq(Unites) /\ Len(m) <= Bloc
        /\ Lu(f) > 0 => /\ f \in Conns /\ posn[f] + Lu(f) \in Nat /\ posn[f] + Lu(f) <= Taille[f]
                        /\ Donnees(m) = m /\ Source(f, posn[f]) \o m = Source(f, posn[f] + Lu(f))
    <3>1. CASE Lu(f) < 0
      <4>1. m = <<>>
        BY <3>1
      <4> HIDE DEF m
      <4> QED BY <1>3, <3>1, <4>1, Constantes
    <3>2. CASE Lu(f) > 0
      <4>1. /\ f \in Conns /\ Lu(f) \in Nat /\ Lu(f) <= Bloc /\ posn[f] \in Nat /\ Taille[f] \in Nat
            /\ posn[f] + Lu(f) <= Taille[f]
        <5>1. f \in Conns /\ Lu(f) = Morceau(f)
          BY <1>3, <3>2
        <5>2. Morceau(f) \in 0 .. Bloc /\ posn[f] \in Nat /\ Taille[f] \in Nat /\ posn[f] + Morceau(f) <= Taille[f]
          BY <1>0, <5>1, Cellules
        <5> QED BY <5>1, <5>2, Constantes
      <4>2. m = SubSeq(Source(f, Taille[f]), posn[f] + 1, posn[f] + Lu(f))
        <5>1. ~ (Lu(f) < 0)
          BY <1>3, <3>2
        <5> HIDE DEF f
        <5> QED BY <5>1
      <4> HIDE DEF m, f
      <4>3. /\ m \in Seq(Unites) /\ Len(m) = Lu(f) /\ Donnees(m) = m
            /\ Source(f, posn[f]) \o m = Source(f, posn[f] + Lu(f))
        <5> DEFINE t == Taille[f]
                   i == posn[f]
                   l == Lu(f)
        <5>1. f \in Conns /\ t \in Nat /\ i \in Nat /\ l \in Nat /\ i + l <= t
              /\ m = SubSeq(Source(f, t), i + 1, i + l)
          BY <4>1, <4>2
        <5> HIDE DEF t, i, l
        <5> DEFINE mm == SubSeq(Source(f, t), i + 1, i + l)
        <5>3. /\ mm \in Seq(Unites) /\ Len(mm) = l /\ Donnees(mm) = mm
              /\ Source(f, i) \o mm = Source(f, i + l)
          BY <5>1, SourceSuite
        <5>4. m = mm
          BY <5>1
        <5> HIDE DEF mm
        <5>2. /\ m \in Seq(Unites) /\ Len(m) = l /\ Donnees(m) = m
              /\ Source(f, i) \o m = Source(f, i + l)
          BY <5>3, <5>4
        <5> QED BY <5>2 DEF t, i, l
      <4> QED BY <4>1, <4>3
    <3> HIDE DEF m, f
    <3> QED BY <1>3, <1>7, <3>1, <3>2
  <2> HIDE DEF m
  <2>3. Plein(m) \in Seq(Unites) /\ Len(Plein(m)) = Bloc /\ Donnees(Plein(m)) = Donnees(m)
    BY <2>2, PleinType
  <2>4. /\ data'[c] = Plein(m) /\ pcS'[c] = "DOWNLOAD ecrit" /\ \A d \in Conns \ {c} : data'[d] = data[d]
        /\ data' \in [Conns -> Seq(Unites)] /\ pcS' \in [Conns -> Etapes]
        /\ \A d \in Conns : data'[d] = <<>> \/ Len(data'[d]) = Bloc
    <3> HIDE DEF f
    <3>1. pcS'[c] = "DOWNLOAD ecrit" /\ pcS' \in [Conns -> Etapes]
      BY <1>0, <2>1 DEF Types, Etapes, Retour
    <3> QED BY <1>0, <2>1, <2>3, <3>1, DataChange
  <2>5. /\ posn' \in [Conns -> Nat] /\ \A d \in Conns : posn'[d] <= Taille[d]
        /\ \A d \in Conns : d # f => posn'[d] = posn[d]
        /\ Lu(f) > 0 => posn'[f] = posn[f] + Lu(f)
        /\ Lu(f) < 0 => posn' = posn
    <3> HIDE DEF f
    <3>1. CASE Lu(f) < 0
      <4>1. posn' = posn /\ ~ (Lu(f) > 0)
        <5>1. ~ (Lu(f) > 0)
          BY <1>3, <3>1
        <5> QED BY <2>1, <3>1, <5>1
      <4> QED BY <1>0, <4>1 DEF Types
    <3>2. CASE Lu(f) > 0
      <4>1. posn' = [posn EXCEPT ![f] = posn[f] + Lu(f)]
        <5>1. ~ (Lu(f) < 0)
          BY <1>3, <3>2
        <5> QED BY <2>1, <5>1
      <4>2. f \in Conns /\ posn[f] + Lu(f) \in Nat /\ posn[f] + Lu(f) <= Taille[f] /\ ~ (Lu(f) < 0)
        BY <1>3, <2>2, <3>2
      <4>3. posn \in [Conns -> Nat] /\ \A d \in Conns : posn[d] <= Taille[d]
        BY <1>0 DEF Types
      <4> QED BY <4>1, <4>2, <4>3
    <3> QED BY <1>3, <1>7, <3>1, <3>2
  <2>6. Types'
    <3>1. zombies' \in Nat /\ zombies' <= Cardinality(Fins')
      BY <1>0, <2>1, Sons
    <3> HIDE DEF f
    <3> QED BY <1>0, <1>1, <1>4, <2>1, <2>4, <2>5, <3>1 DEF Types
  <2>7. /\ \A d \in Conns \ {c} : Connexion(d)'
        /\ Fermes' /\ UnSeul' /\ \A x \in Clients : Poste(x)'
    <3>1. "DOWNLOAD ecrit" \in Etapes \ Avant
      BY DEF Etapes, Avant, Retour
    <3>2. Sain => \A d \in Conns \ {c} : posn'[d] = posn[d]
      <4>1. Sain => f = c \/ Lu(f) = -1
        BY <1>2, <1>5
      <4> HIDE DEF f
      <4> QED BY <1>3, <2>5, <4>1
    <3> HIDE DEF f
    <3> QED BY <1>0, <1>1, <1>4, <2>1, <2>4, <3>1, <3>2, ServiceAutres
  <2>8. Sain' = Sain /\ Cellule(c)' = Cellule(c)
    BY <1>1, <2>1 DEF Sain, Threads, Cellule
  <2>9. Copies(c)'
    <3>1. ASSUME scene.commande[c] = "DOWNLOAD", Sain, c \notin fermeC
          PROVE  (copie[c] \o Donnees(descendant[c])) \o Donnees(data'[c]) = Source(c, posn'[c])
      <4>1. f = c /\ Lu(f) > 0
        <5>1. f = c /\ c \in ouverts
          BY <1>2, <3>1
        <5> HIDE DEF f
        <5>2. Lu(f) = Morceau(c)
          BY <3>1, <5>1 DEF Lu
        <5>3. Morceau(c) \in 0 .. Bloc
          BY <1>0, Cellules
        <5> QED BY <1>3, <1>7, <5>1, <5>2, <5>3
      <4> HIDE DEF f
      <4> DEFINE g == copie[c] \o Donnees(descendant[c])
                 e == Donnees(data[c])
      <4>2. g \in Seq(Unites) /\ e = <<>> /\ g \o e = Source(c, posn[c])
        <5>1. copie[c] \in Seq(Unites) /\ Donnees(descendant[c]) \in Seq(Unites)
          BY <1>0, DonneesType DEF Types
        <5> QED BY <1>0, <1>2, <3>1, <5>1, ConcatProperties, DonneesVide DEF Connexion, Copies
      <4> HIDE DEF g, e
      <4>3. g = Source(c, posn[c])
        BY <4>2, ConcatEmptySeq
      <4>4. Donnees(data'[c]) = m /\ g \o m = Source(c, posn'[c])
        BY <2>2, <2>3, <2>4, <2>5, <4>1, <4>3
      <4> QED BY <4>4 DEF g
    <3> HIDE DEF f
    <3> QED BY <1>0, <1>1, <1>2, <2>4, <2>8, <3>1 DEF Copies
  <2>10. Connexion(c)'
    <3> HIDE DEF f
    <3>1. Etape(c)' /\ Vide(c)' /\ Tenu(c)'
      BY <1>0, <1>1, <1>2, <2>1, <2>4, <2>8
         DEF Connexion, Etape, Vide, Tenu, Avant, Entree, Envoi, Retour
    <3>2. Propre(c)'
      BY <1>0, <1>1, <1>2, <2>1, <2>4, <2>8 DEF Connexion, Propre, Envoi, Retour
    <3> QED BY <2>9, <3>1, <3>2 DEF Connexion
  <2> QED BY <2>6, <2>7, <2>10 DEF CInv
<1> QED BY <1>6, <1>7

LEMMA DownloadEcritOK == ASSUME CInv, NEW c \in Conns, DownloadEcrit(c) PROVE CInv'
<1>0. /\ Types /\ Connexion(c) /\ pcS[c] = "DOWNLOAD ecrit" /\ Sert(c) /\ Cellule(c) \in 0 .. NbConnexions
      /\ Bloc \in -1 .. Bloc /\ Bloc \in Nat /\ Tampon \in Nat
  <2>1. Types /\ Connexion(c) /\ pcS[c] = "DOWNLOAD ecrit" /\ Sert(c)
    BY DEF CInv, DownloadEcrit, Sert
  <2>2. Bloc \in -1 .. Bloc /\ Bloc \in Nat /\ Tampon \in Nat
    BY Constantes
  <2>3. Cellule(c) \in 0 .. NbConnexions
    BY <2>1, Cellules
  <2> QED BY <2>1, <2>2, <2>3
<1>1. /\ UNCHANGED <<scene, pcC, cour, copie, fd, ouverts, fichier, montant, fermeC, posn, croise>>
      /\ data' = [data EXCEPT ![c] = <<>>] /\ n' = [n EXCEPT ![Cellule(c)] = Bloc]
  BY DEF DownloadEcrit, cvars
<1>2. scene.commande[c] \in {"DOWNLOAD", "DOWNLOAD absent"}
  BY <1>0 DEF Connexion, Etape, Retour
<1>3. /\ data'[c] = <<>> /\ \A d \in Conns \ {c} : data'[d] = data[d]
      /\ data' \in [Conns -> Seq(Unites)] /\ \A d \in Conns : data'[d] = <<>> \/ Len(data'[d]) = Bloc
      /\ \A d \in Conns : data'[d] = data[d] \/ data'[d] = <<>>
      /\ n' \in [0 .. NbConnexions -> -1 .. Bloc]
      /\ \A j \in 0 .. NbConnexions : j # Cellule(c) => n'[j] = n[j]
  <2>1. <<>> \in Seq(Unites)
    OBVIOUS
  <2>2. /\ n' \in [0 .. NbConnexions -> -1 .. Bloc]
        /\ \A j \in 0 .. NbConnexions : j # Cellule(c) => n'[j] = n[j]
    BY <1>0, <1>1 DEF Types
  <2>3. /\ data'[c] = <<>> /\ \A d \in Conns \ {c} : data'[d] = data[d]
        /\ data' \in [Conns -> Seq(Unites)] /\ \A d \in Conns : data'[d] = <<>> \/ Len(data'[d]) = Bloc
    BY <1>0, <1>1, <2>1, DataChange
  <2> QED BY <2>2, <2>3
<1>4. ASSUME pcS' = [pcS EXCEPT ![c] = "DOWNLOAD lit"], UNCHANGED <<tenue, pcM, zombies, vivant>>,
             descendant' \in [Conns -> Seq(Unites)], \A d \in Conns : Len(descendant'[d]) <= Tampon,
             \A d \in Conns \ {c} : descendant'[d] = descendant[d],
             scene.commande[c] = "DOWNLOAD" /\ Sain /\ c \notin fermeC =>
                (copie[c] \o Donnees(descendant'[c])) \o Donnees(data'[c]) = Source(c, posn[c])
      PROVE  CInv'
  <2>1. pcS'[c] = "DOWNLOAD lit" /\ pcS' \in [Conns -> Etapes] /\ "DOWNLOAD lit" \in Etapes \ Avant
    BY <1>0, <1>4 DEF Types, Etapes, Avant, Retour
  <2>2. Types'
    <3>1. zombies' \in Nat /\ zombies' <= Cardinality(Fins')
      BY <1>0, <1>4, Sons
    <3> QED BY <1>0, <1>1, <1>3, <1>4, <2>1, <3>1 DEF Types
  <2>3. /\ \A d \in Conns \ {c} : Connexion(d)'
        /\ Fermes' /\ UnSeul' /\ \A x \in Clients : Poste(x)'
    BY <1>0, <1>1, <1>3, <1>4, <2>1, ServiceAutres
  <2>4. Sain' = Sain /\ Cellule(c)' = Cellule(c)
    BY <1>1, <1>4 DEF Sain, Threads, Cellule
  <2>5. Connexion(c)'
    BY <1>0, <1>1, <1>2, <1>3, <1>4, <2>1, <2>4
       DEF Connexion, Etape, Vide, Tenu, Propre, Copies, Avant, Entree, Envoi, Retour
  <2> QED BY <2>2, <2>3, <2>5 DEF CInv
<1>5. CASE /\ c \notin fermeC /\ Len(descendant[c]) + Bloc <= Tampon
           /\ descendant' = [descendant EXCEPT ![c] = descendant[c] \o data[c]]
           /\ pcS' = [pcS EXCEPT ![c] = "DOWNLOAD lit"] /\ UNCHANGED <<tenue, coupe, mvars>>
  <2> DEFINE a == descendant[c]
             b == data[c]
  <2>1. a \in Seq(Unites) /\ b \in Seq(Unites) /\ copie[c] \in Seq(Unites) /\ Len(a) \in Nat /\ Len(b) <= Bloc
    <3>1. a \in Seq(Unites) /\ b \in Seq(Unites) /\ copie[c] \in Seq(Unites) /\ (b = <<>> \/ Len(b) = Bloc)
      BY <1>0 DEF Types
    <3>2. b = <<>> => Len(b) = 0
      OBVIOUS
    <3> HIDE DEF a, b
    <3>3. Len(a) \in Nat
      BY <3>1, LenProperties
    <3>4. Bloc \in Nat
      BY Constantes
    <3>5. Len(b) <= Bloc
      BY <3>1, <3>2, <3>4
    <3> QED BY <3>1, <3>3, <3>5
  <2>2. descendant' = [descendant EXCEPT ![c] = a \o b] /\ Len(a) + Bloc <= Tampon
    BY <1>5
  <2> HIDE DEF a, b
  <2>3. a \o b \in Seq(Unites) /\ Len(a \o b) <= Tampon
    <3>1. a \o b \in Seq(Unites) /\ Len(a \o b) = Len(a) + Len(b) /\ Len(b) \in Nat
      BY <2>1, ConcatProperties, LenProperties
    <3>2. Bloc \in Nat /\ Tampon \in Nat
      BY <1>0
    <3> QED BY <2>1, <2>2, <3>1, <3>2
  <2>4. /\ descendant' \in [Conns -> Seq(Unites)] /\ \A d \in Conns : Len(descendant'[d]) <= Tampon
        /\ \A d \in Conns \ {c} : descendant'[d] = descendant[d]
        /\ descendant'[c] = a \o b
    BY <1>0, <2>2, <2>3 DEF Types
  <2>5. ASSUME scene.commande[c] = "DOWNLOAD", Sain, c \notin fermeC
        PROVE  (copie[c] \o Donnees(descendant'[c])) \o Donnees(data'[c]) = Source(c, posn[c])
    <3> DEFINE k == copie[c]
               x == Donnees(a)
               y == Donnees(b)
               z == Donnees(a \o b)
               e == Donnees(data'[c])
    <3>1. (k \o x) \o y = Source(c, posn[c])
      BY <1>0, <2>5 DEF Connexion, Copies, a, b
    <3>2. /\ k \in Seq(Unites) /\ x \in Seq(Unites) /\ y \in Seq(Unites) /\ z \in Seq(Unites)
          /\ z = x \o y /\ e = <<>>
      BY <1>3, <2>1, <2>3, DonneesType, DonneesConcat, DonneesVide
    <3> HIDE DEF k, x, y, z, e
    <3>3. (k \o z) \o e = k \o z
      BY <3>2, ConcatProperties, ConcatEmptySeq
    <3>4. (k \o x) \o y = k \o (x \o y)
      <4> HIDE DEF Unites
      <4> QED BY <3>2, ConcatAssociative
    <3>5. (k \o z) \o e = Source(c, posn[c])
      BY <3>1, <3>2, <3>3, <3>4
    <3> QED BY <2>4, <3>5 DEF k, z, e
  <2> QED BY <1>4, <1>5, <2>4, <2>5 DEF mvars
<1>6. CASE /\ c \in fermeC \ coupe /\ pcS' = [pcS EXCEPT ![c] = "DOWNLOAD lit"]
           /\ UNCHANGED <<descendant, tenue, mvars>>
  BY <1>0, <1>4, <1>6 DEF mvars, Types
<1>7. CASE c \in fermeC /\ Meurt(c) /\ UNCHANGED descendant
  <2>1. CASE Threads
    <3>1. FinServeur
      BY <1>7, <2>1 DEF Meurt
    <3>2. fd' \in [0 .. NbConnexions -> 0 .. NbConnexions]
      BY <1>0, <1>1 DEF Types
    <3> QED BY <1>1, <1>3, <1>7, <3>1, <3>2, FinServeurOK
  <2>2. CASE ~Threads
    <3>1. FinService(c)
      BY <1>7, <2>2 DEF Meurt
    <3>2. /\ pcS' = [pcS EXCEPT ![c] = "fin"] /\ tenue' \in [Conns -> SUBSET {"noyau", "pere", "fils"}]
          /\ \A d \in Conns \ {c} : tenue'[d] = tenue[d]
          /\ zombies' = zombies \/ zombies' = zombies + 1
          /\ pcM' = pcM /\ vivant' = vivant
      BY <1>0, <3>1, FinServiceEffet
    <3>3. Types'
      <4>1. zombies' \in Nat /\ zombies' <= Cardinality(Fins')
        BY <1>0, <3>2, Sons
      <4> QED BY <1>0, <1>1, <1>3, <1>7, <3>2, <4>1 DEF Types, Etapes
    <3>4. /\ \A d \in Conns \ {c} : Connexion(d)'
          /\ Fermes' /\ UnSeul' /\ \A x \in Clients : Poste(x)'
      <4>1. "fin" \in Etapes \ Avant
        BY DEF Etapes, Avant
      <4> QED BY <1>0, <1>1, <1>3, <1>7, <3>2, <4>1, ServiceAutres
    <3>5. pcS'[c] = "fin"
      BY <1>0, <3>2 DEF Types
    <3>6. Connexion(c)'
      BY <1>0, <1>1, <1>2, <1>7, <3>2, <3>5
         DEF Connexion, Etape, Vide, Tenu, Propre, Copies, Avant, Entree, Envoi, Retour
    <3> QED BY <3>3, <3>4, <3>6 DEF CInv
  <2> QED BY <2>1, <2>2
<1> QED BY <1>5, <1>6, <1>7 DEF DownloadEcrit, Ecrit


-----------------------------------------------------------------------------
(* The steps of main and of the clients.                                   *)
LEMMA Repos ==
  ASSUME CInv, NEW Q \in SUBSET Conns,
         UNCHANGED <<scene, vivant, croise, fd, n, ouverts, fichier>>, fermeC \subseteq fermeC',
         \A d \in Q :
            /\ pcS'[d] = pcS[d] /\ montant'[d] = montant[d] /\ descendant'[d] = descendant[d]
            /\ data'[d] = data[d] /\ copie'[d] = copie[d] /\ posn'[d] = posn[d]
            /\ "noyau" \in tenue[d] => "noyau" \in tenue'[d]
            /\ "fils" \in tenue[d] => "fils" \in tenue'[d]
  PROVE  \A d \in Q : Connexion(d)'
<1> SUFFICES ASSUME NEW d \in Q PROVE Connexion(d)'
  OBVIOUS
<1>1. d \in Conns /\ Connexion(d) /\ croise \in BOOLEAN
  BY DEF CInv, Types
<1> QED BY <1>1, Cadre

LEMMA AccepteOK == ASSUME CInv, Accepte PROVE CInv'
<1>0. Types
  BY DEF CInv
<1>1. PICK c \in Conns :
        /\ pcS[c] = "attend" /\ pcS' = [pcS EXCEPT ![c] = "commande"]
        /\ tenue' = [tenue EXCEPT ![c] = IF Threads THEN {"fils"} ELSE {"pere", "fils"}]
        /\ pcM' = IF Threads THEN 0 ELSE c
        /\ croise' = (croise \/ \E d \in Conns : Sert(d))
  BY DEF Accepte
<1>2. /\ vivant
      /\ UNCHANGED <<scene, pcC, cour, copie, data, n, fd, ouverts, fichier, montant, descendant,
                     fermeC, posn, zombies, vivant>>
  BY DEF Accepte, cvars
<1>3. /\ pcS'[c] = "commande" /\ \A d \in Conns \ {c} : pcS'[d] = pcS[d] /\ tenue'[d] = tenue[d]
      /\ pcS' \in [Conns -> Etapes] /\ "fils" \in tenue'[c]
      /\ tenue' \in [Conns -> SUBSET {"noyau", "pere", "fils"}]
  BY <1>0, <1>1 DEF Types, Etapes, Avant
<1>4. croise' \in BOOLEAN /\ (croise = TRUE => croise' = TRUE) /\ (Sain' => Sain)
  BY <1>0, <1>1, <1>2 DEF Types, Sain, Threads
<1>5. ASSUME NEW d \in Conns \ {c} PROVE Connexion(d)'
  <2>1. Connexion(d) /\ croise \in BOOLEAN
    BY <1>0 DEF CInv, Types
  <2> QED BY <1>2, <1>3, <1>4, <2>1, Cadre DEF Cellule, Threads
<1>6. Connexion(c)'
  <2>1. Connexion(c)
    BY DEF CInv
  <2> QED BY <1>1, <1>2, <1>3, <1>4, <2>1
          DEF Connexion, Etape, Vide, Tenu, Propre, Copies, Avant, Entree, Envoi, Retour
<1>7. Types'
  <2>1. zombies' \in Nat /\ zombies' <= Cardinality(Fins')
    BY <1>0, <1>1, <1>2, Sons
  <2>2. pcM' \in 0 .. NbConnexions
    <3>1. NbConnexions \in Nat /\ c \in 1 .. NbConnexions
      BY Constantes DEF Conns
    <3> QED BY <1>1, <3>1
  <2> QED BY <1>0, <1>2, <1>3, <1>4, <2>1, <2>2 DEF Types
<1>8. Fermes'
  BY <1>2 DEF CInv, Fermes
<1>9. UnSeul'
  <2> SUFFICES ASSUME ~croise', NEW a \in Conns, NEW b \in Conns, Sert(a)', Sert(b)'
               PROVE  a = b
    BY DEF UnSeul
  <2>1. \A d \in Conns : ~Sert(d)
    BY <1>1
  <2>2. \A d \in Conns \ {c} : ~Sert(d)'
    BY <1>3, <2>1 DEF Sert
  <2> QED BY <2>2
<1>10. ASSUME NEW x \in Clients PROVE Poste(x)'
  <2>1. Poste(x)
    BY DEF CInv
  <2>2. \A d \in Conns : (pcS'[d] = "absent" <=> pcS[d] = "absent") /\ (pcS'[d] \in Avant <=> pcS[d] \in Avant)
    BY <1>1, <1>3 DEF Avant
  <2> QED BY <1>2, <2>1, <2>2 DEF Poste
<1> QED BY <1>5, <1>6, <1>7, <1>8, <1>9, <1>10 DEF CInv

LEMMA FermePereOK == ASSUME CInv, FermePere PROVE CInv'
<1>0. Types
  BY DEF CInv
<1>1. /\ UNCHANGED <<scene, pcC, cour, copie, pcS, data, n, fd, ouverts, fichier, montant, descendant,
                     fermeC, posn, zombies, vivant, croise>>
      /\ pcM' = 0 /\ tenue' = [tenue EXCEPT ![pcM] = tenue[pcM] \ {"pere"}]
  BY DEF FermePere, Lache, cvars, svars
<1>2. /\ tenue' \in [Conns -> SUBSET {"noyau", "pere", "fils"}]
      /\ \A d \in Conns : /\ "noyau" \in tenue[d] => "noyau" \in tenue'[d]
                          /\ "fils" \in tenue[d] => "fils" \in tenue'[d]
  BY <1>0, <1>1 DEF Types
<1>3. Types'
  <2>1. 0 \in 0 .. NbConnexions
    BY Constantes
  <2>2. Fins' = Fins
    BY <1>1 DEF Fins
  <2> QED BY <1>0, <1>1, <1>2, <2>1, <2>2 DEF Types
<1>4. \A d \in Conns : Connexion(d)'
  BY <1>1, <1>2, Repos
<1>5. Fermes' /\ UnSeul' /\ \A x \in Clients : Poste(x)'
  BY <1>1 DEF CInv, Fermes, UnSeul, Threads, Sert, Poste
<1> QED BY <1>3, <1>4, <1>5 DEF CInv

LEMMA WaitOK == ASSUME CInv, FinFils \/ Wait PROVE CInv'
<1>0. Types
  BY DEF CInv
<1>1. UNCHANGED <<scene, pcC, cour, copie, pcS, data, n, fd, ouverts, fichier, montant, descendant,
                  fermeC, tenue, posn, pcM, vivant, croise>>
  BY DEF FinFils, Wait, cvars, svars, rvars
<1>2. zombies' = zombies \/ (zombies > 0 /\ zombies' = zombies - 1)
  BY DEF FinFils, Wait
<1>3. Types'
  <2>1. Fins' = Fins
    BY <1>1 DEF Fins
  <2>2. Cardinality(Fins) \in Nat
    <3>1. IsFiniteSet(Conns) /\ Fins \subseteq Conns
      BY Constantes, FS_Interval DEF Conns, Fins
    <3> QED BY <3>1, FS_Subset, FS_CardinalityType
  <2>3. zombies' \in Nat /\ zombies' <= Cardinality(Fins')
    BY <1>0, <1>2, <2>1, <2>2 DEF Types
  <2> QED BY <1>0, <1>1, <2>3 DEF Types
<1>4. \A d \in Conns : Connexion(d)'
  BY <1>1, Repos
<1>5. Fermes' /\ UnSeul' /\ \A x \in Clients : Poste(x)'
  BY <1>1 DEF CInv, Fermes, UnSeul, Threads, Sert, Poste
<1> QED BY <1>3, <1>4, <1>5 DEF CInv

LEMMA TraitSignalOK == ASSUME CInv, TraitSignal PROVE CInv'
<1>1. /\ FinServeur
      /\ UNCHANGED <<scene, pcC, cour, copie, data, n, fd, ouverts, fichier, montant, descendant,
                     fermeC, posn, croise>>
  BY DEF TraitSignal, cvars
<1>2. /\ n' \in [0 .. NbConnexions -> -1 .. Bloc] /\ fd' \in [0 .. NbConnexions -> 0 .. NbConnexions]
      /\ data' \in [Conns -> Seq(Unites)] /\ \A d \in Conns : data'[d] = data[d]
  BY <1>1 DEF CInv, Types
<1> QED BY <1>1, <1>2, FinServeurOK

(* A client that dies closes its connexions, and no other's.               *)
LEMMA ClientMeurtEffet ==
  ASSUME CInv, NEW x \in Clients, ClientMeurt(x), UNCHANGED <<scene, cour, pcS, montant>>
  PROVE  /\ Fermes' /\ \A y \in Clients : Poste(y)'
         /\ pcC' \in [Clients -> {"connecte", "commande", "envoie", "lit", "mort"}]
         /\ fermeC' \subseteq Conns /\ fermeC \subseteq fermeC'
<1>1. /\ pcC \in [Clients -> {"connecte", "commande", "envoie", "lit", "mort"}] /\ fermeC \subseteq Conns
      /\ scene.proprio \in [Conns -> Clients]
  BY Scene DEF CInv, Types
<1>2. /\ pcC' = [pcC EXCEPT ![x] = "mort"]
      /\ fermeC' = fermeC \cup {c \in Conns : scene.proprio[c] = x /\ pcS[c] # "absent"}
  BY DEF ClientMeurt
<1>3. pcC'[x] = "mort" /\ \A y \in Clients \ {x} : pcC'[y] = pcC[y]
  BY <1>1, <1>2
<1>4. Fermes'
  <2> SUFFICES ASSUME NEW c \in fermeC' PROVE pcC'[scene.proprio[c]] = "mort"
    BY DEF Fermes
  <2>1. c \in Conns /\ scene.proprio[c] \in Clients
    BY <1>1, <1>2
  <2>2. CASE scene.proprio[c] = x
    BY <1>3, <2>2
  <2>3. CASE scene.proprio[c] # x
    <3>1. c \in fermeC
      BY <1>2, <2>3
    <3> QED BY <1>3, <2>1, <2>3, <3>1 DEF CInv, Fermes
  <2> QED BY <2>2, <2>3
<1>5. ASSUME NEW y \in Clients PROVE Poste(y)'
  <2>1. CASE y = x
    BY <1>3, <2>1 DEF Poste
  <2>2. CASE y # x
    <3>1. pcC'[y] = pcC[y] /\ Poste(y)
      BY <1>3, <2>2 DEF CInv
    <3> QED BY <3>1 DEF Poste
  <2> QED BY <2>1, <2>2
<1> QED BY <1>1, <1>2, <1>4, <1>5

LEMMA MortOK ==
  ASSUME CInv, NEW x \in Clients, ClientMeurt(x),
         UNCHANGED <<scene, cour, copie, pcS, data, n, fd, ouverts, fichier, montant, descendant, tenue,
                     posn, pcM, zombies, vivant, croise>>
  PROVE  CInv'
<1>1. /\ Fermes' /\ \A y \in Clients : Poste(y)'
      /\ pcC' \in [Clients -> {"connecte", "commande", "envoie", "lit", "mort"}]
      /\ fermeC' \subseteq Conns /\ fermeC \subseteq fermeC'
  BY ClientMeurtEffet
<1>2. Types'
  <2>1. Fins' = Fins /\ Types
    BY DEF Fins, CInv
  <2> QED BY <1>1, <2>1 DEF Types
<1>3. \A d \in Conns : Connexion(d)'
  BY <1>1, Repos
<1>4. UnSeul'
  BY DEF CInv, UnSeul, Threads, Sert
<1> QED BY <1>1, <1>2, <1>3, <1>4 DEF CInv

(* A client goes on, having closed nothing: what the others do is not      *)
(* disturbed by what it writes on its own connexion.                       *)
LEMMA Suivant ==
  ASSUME CInv, NEW x \in Clients, pcC[x] # "mort",
         NEW s \in {"connecte", "commande", "envoie", "lit"}, pcC' = [pcC EXCEPT ![x] = s],
         UNCHANGED <<scene, cour, pcS, fermeC>>,
         \A d \in Conns : scene.proprio[d] # x => montant'[d] = montant[d]
  PROVE  /\ Fermes' /\ pcC'[x] = s
         /\ pcC' \in [Clients -> {"connecte", "commande", "envoie", "lit", "mort"}]
         /\ \A y \in Clients \ {x} : Poste(y)'
<1>1. pcC \in [Clients -> {"connecte", "commande", "envoie", "lit", "mort"}]
  BY DEF CInv, Types
<1>2. pcC'[x] = s /\ \A y \in Clients \ {x} : pcC'[y] = pcC[y]
  BY <1>1
<1>3. pcC' \in [Clients -> {"connecte", "commande", "envoie", "lit", "mort"}]
  BY <1>1
<1>4. Fermes'
  <2> SUFFICES ASSUME NEW c \in fermeC PROVE pcC'[scene.proprio[c]] = "mort"
    BY DEF Fermes
  <2>1. scene.proprio[c] \in Clients /\ pcC[scene.proprio[c]] = "mort"
    BY Scene DEF CInv, Types, Fermes
  <2> QED BY <1>2, <2>1
<1>5. ASSUME NEW y \in Clients \ {x} PROVE Poste(y)'
  <2>1. Poste(y) /\ pcC'[y] = pcC[y]
    BY <1>2 DEF CInv
  <2> QED BY <2>1 DEF Poste
<1> QED BY <1>2, <1>3, <1>4, <1>5


LEMMA InterrompuOK == ASSUME CInv, NEW x \in Clients, Interrompu(x) PROVE CInv'
  BY MortOK DEF Interrompu, svars, mvars

LEMMA ConnecteOK == ASSUME CInv, NEW x \in Clients, Connecte(x) PROVE CInv'
<1>0. Types
  BY DEF CInv
<1>1. pcC[x] = "connecte"
      /\ UNCHANGED <<scene, copie, data, n, fd, ouverts, fichier, montant, descendant, posn,
                     pcM, zombies, vivant, croise>>
  BY DEF Connecte, mvars
<1>2. PICK c \in Conns :
        /\ scene.proprio[c] = x /\ pcS[c] = "absent"
        /\ IF vivant
           THEN /\ pcS' = [pcS EXCEPT ![c] = "attend"]
                /\ tenue' = [tenue EXCEPT ![c] = {"noyau"}]
                /\ cour' = [cour EXCEPT ![x] = c]
                /\ pcC' = [pcC EXCEPT ![x] = "commande"]
                /\ UNCHANGED fermeC
           ELSE ClientMeurt(x) /\ UNCHANGED <<pcS, tenue, cour>>
  BY DEF Connecte
<1>3. CASE ~vivant
  BY <1>1, <1>2, <1>3, MortOK
<1>4. CASE vivant
  <2>1. /\ pcS' = [pcS EXCEPT ![c] = "attend"] /\ tenue' = [tenue EXCEPT ![c] = {"noyau"}]
        /\ cour' = [cour EXCEPT ![x] = c] /\ pcC' = [pcC EXCEPT ![x] = "commande"] /\ fermeC' = fermeC
    BY <1>2, <1>4
  <2>2. /\ pcS'[c] = "attend" /\ tenue'[c] = {"noyau"} /\ cour'[x] = c /\ pcC'[x] = "commande"
        /\ \A d \in Conns \ {c} : pcS'[d] = pcS[d] /\ tenue'[d] = tenue[d]
        /\ \A y \in Clients \ {x} : cour'[y] = cour[y] /\ pcC'[y] = pcC[y]
    BY <1>0, <2>1 DEF Types
  <2>3. /\ pcS' \in [Conns -> Etapes] /\ tenue' \in [Conns -> SUBSET {"noyau", "pere", "fils"}]
        /\ pcC' \in [Clients -> {"connecte", "commande", "envoie", "lit", "mort"}]
        /\ cour' \in [Clients -> 0 .. NbConnexions]
    <3>1. c \in 0 .. NbConnexions
      BY Constantes DEF Conns
    <3> QED BY <1>0, <2>1, <3>1 DEF Types, Etapes, Avant
  <2>4. Types'
    <3>1. zombies' \in Nat /\ zombies' <= Cardinality(Fins')
      BY <1>0, <1>1, <1>2, <2>1, Sons
    <3> QED BY <1>0, <1>1, <2>1, <2>3, <3>1 DEF Types
  <2>5. \A d \in Conns \ {c} : Connexion(d)'
    BY <1>1, <2>1, <2>2, Repos
  <2>6. Connexion(c)'
    <3>1. Connexion(c) /\ Sain' = Sain
      BY <1>1 DEF CInv, Sain, Threads
    <3>2. montant[c] = <<>>
      BY <1>2, <3>1 DEF Connexion, Vide
    <3> QED BY <1>1, <1>2, <2>1, <2>2, <3>1, <3>2
            DEF Connexion, Etape, Vide, Tenu, Propre, Copies, Avant, Entree, Envoi, Retour
  <2>7. Fermes'
    <3> SUFFICES ASSUME NEW d \in fermeC PROVE pcC'[scene.proprio[d]] = "mort"
      BY <1>1, <2>1 DEF Fermes
    <3>1. scene.proprio[d] \in Clients /\ pcC[scene.proprio[d]] = "mort"
      BY <1>0, Scene DEF CInv, Types, Fermes
    <3>2. scene.proprio[d] # x
      BY <1>1, <3>1
    <3> QED BY <2>2, <3>1, <3>2
  <2>8. UnSeul'
    <3>1. \A d \in Conns : Sert(d)' <=> Sert(d)
      BY <1>2, <2>2 DEF Sert
    <3> QED BY <1>1, <3>1 DEF CInv, UnSeul, Threads
  <2>9. ASSUME NEW y \in Clients PROVE Poste(y)'
    <3>1. CASE y = x
      <4>1. montant[c] = <<>>
        BY <1>2 DEF CInv, Connexion, Vide
      <4> QED BY <1>1, <1>2, <2>2, <3>1, <4>1 DEF Poste
    <3>2. CASE y # x
      <4>1. Poste(y) /\ cour'[y] = cour[y] /\ pcC'[y] = pcC[y]
        BY <2>2, <3>2 DEF CInv
      <4>2. pcC[y] \in {"commande", "envoie", "lit"} => cour[y] # c /\ pcS'[cour[y]] = pcS[cour[y]]
        BY <1>2, <2>2, <4>1 DEF Poste
      <4> QED BY <1>1, <4>1, <4>2 DEF Poste
    <3> QED BY <3>1, <3>2
  <2> QED BY <2>4, <2>5, <2>6, <2>7, <2>8, <2>9 DEF CInv
<1> QED BY <1>3, <1>4

LEMMA LitCommandeOK == ASSUME CInv, NEW x \in Clients, LitCommande(x) PROVE CInv'
<1>a. PICK c : c = cour[x]
  OBVIOUS
<1> DEFINE commande == scene.commande[c]
           b == IF scene.programme = "nom" THEN <<Nul>> ELSE Plein(<<>>)
           suite == IF commande = "UPLOAD" THEN "envoie" ELSE "lit"
<1>0. Types /\ Poste(x)
  BY DEF CInv
<1>1. pcC[x] = "commande"
      /\ UNCHANGED <<scene, cour, copie, pcS, data, n, fd, ouverts, fichier, descendant, tenue, posn,
                     pcM, zombies, vivant, croise>>
  BY DEF LitCommande, svars, mvars
<1>2. c \in Conns /\ scene.proprio[c] = x /\ pcS[c] # "absent" /\ montant[c] = <<>> /\ Connexion(c)
  BY <1>a, <1>0, <1>1 DEF Poste, CInv
<1>3. CASE ClientMeurt(x) /\ UNCHANGED montant
  BY <1>1, <1>3, MortOK
<1>4. CASE /\ montant' = IF tenue[c] = {} THEN montant ELSE [montant EXCEPT ![c] = montant[c] \o b]
           /\ pcC' = [pcC EXCEPT ![x] = suite] /\ UNCHANGED fermeC
  <2>1. b \in Seq(Unites) /\ Len(b) > 0 /\ Len(b) <= Tampon /\ b[1] = Nul /\ Donnees(b) = <<>> /\ b # <<>>
    <3>1. CASE scene.programme = "nom"
      <4> DEFINE e == <<Nul>>
      <4>1. e \in Seq(Unites) /\ Len(e) = 1 /\ e[1] = Nul /\ e # <<>>
        BY DEF Nul, Unites
      <4>2. \A k \in 1 .. Len(e) : e[k] = Nul
        BY <4>1
      <4> HIDE DEF e
      <4>3. Donnees(e) = <<>>
        BY <4>1, <4>2, DonneesNuls
      <4>4. b = e
        BY <3>1 DEF e
      <4> HIDE DEF b
      <4>5. 0 < 1 /\ 1 <= Tampon
        BY Constantes
      <4> QED BY <4>1, <4>3, <4>4, <4>5
    <3>2. CASE scene.programme # "nom"
      <4>1. <<>> \in Seq(Unites) /\ Len(<<>>) <= Bloc
        BY Constantes
      <4>2. /\ Plein(<<>>) \in Seq(Unites) /\ Len(Plein(<<>>)) = Bloc /\ Donnees(Plein(<<>>)) = Donnees(<<>>)
            /\ Plein(<<>>)[1] = Nul
        BY <4>1, PleinType
      <4>3. b = Plein(<<>>)
        BY <3>2
      <4> HIDE DEF b
      <4>4. b \in Seq(Unites) /\ Len(b) = Bloc /\ Donnees(b) = <<>> /\ b[1] = Nul
        BY <4>2, <4>3, DonneesVide
      <4>5. b # <<>>
        BY <4>4, Constantes
      <4> QED BY <4>4, <4>5, Constantes
    <3> QED BY <3>1, <3>2
  <2> HIDE DEF b
  <2>2. montant[c] \o b = b
    BY <1>2, <2>1, ConcatEmptySeq
  <2>3. montant'[c] = (IF tenue[c] = {} THEN <<>> ELSE b) /\ \A d \in Conns \ {c} : montant'[d] = montant[d]
    BY <1>0, <1>2, <1>4, <2>2 DEF Types
  <2>4. /\ montant' \in [Conns -> Seq(Unites)] /\ \A d \in Conns : Len(montant'[d]) <= Tampon
    <3>1. montant' = montant \/ montant' = [montant EXCEPT ![c] = b]
      BY <1>4, <2>2
    <3> QED BY <1>0, <1>2, <2>1, <3>1 DEF Types
  <2>5. suite \in {"connecte", "commande", "envoie", "lit"}
    OBVIOUS
  <2>6. /\ Fermes' /\ pcC'[x] = suite
        /\ pcC' \in [Clients -> {"connecte", "commande", "envoie", "lit", "mort"}]
        /\ \A y \in Clients \ {x} : Poste(y)'
    <3> HIDE DEF suite
    <3>1. \A d \in Conns : scene.proprio[d] # x => montant'[d] = montant[d]
      BY <1>2, <2>3
    <3> QED BY <1>1, <1>4, <2>5, <3>1, Suivant
  <2>7. Types'
    <3>1. Fins' = Fins
      BY <1>1 DEF Fins
    <3> QED BY <1>0, <1>1, <1>4, <2>4, <2>6, <3>1 DEF Types
  <2>8. \A d \in Conns \ {c} : Connexion(d)'
    BY <1>1, <1>4, <2>3, Repos
  <2>9. Connexion(c)'
    <3>1. Donnees(montant'[c]) = Donnees(montant[c]) /\ (montant'[c] # <<>> => montant'[c][1] = Nul)
      BY <1>2, <2>1, <2>3, DonneesVide
    <3>2. Sain' = Sain /\ Cellule(c)' = Cellule(c)
      BY <1>1 DEF Sain, Threads, Cellule
    <3>3. Etape(c)' /\ Vide(c)' /\ Tenu(c)'
      BY <1>1, <1>2, <3>1, <3>2 DEF Connexion, Etape, Vide, Tenu
    <3>4. Propre(c)'
      <4>1. tenue[c] = {} => montant'[c] = <<>>
        BY <2>3
      <4>2. c \in fermeC => FALSE
        BY <1>0, <1>1, <1>2 DEF CInv, Fermes
      <4> QED BY <1>1, <1>2, <3>2, <4>1, <4>2 DEF Connexion, Propre
    <3>5. Copies(c)'
      BY <1>1, <1>2, <1>4, <3>1, <3>2 DEF Connexion, Copies
    <3> QED BY <3>3, <3>4, <3>5 DEF Connexion
  <2>10. Poste(x)'
    <3>1. pcS[c] \in Avant => montant'[c] # <<>>
      <4> SUFFICES ASSUME pcS[c] \in {"attend", "commande"} PROVE tenue[c] # {}
        BY <1>2, <2>1, <2>3 DEF Avant
      <4> QED BY <1>0, <1>2 DEF Connexion, Tenu, Types
    <3>2. suite \in {"envoie", "lit"} /\ (suite = "envoie" => scene.commande[c] = "UPLOAD")
      OBVIOUS
    <3> QED BY <1>a, <1>1, <1>2, <2>6, <3>1, <3>2 DEF Poste
  <2>11. UnSeul'
    BY <1>1 DEF CInv, UnSeul, Threads, Sert
  <2> QED BY <2>6, <2>7, <2>8, <2>9, <2>10, <2>11 DEF CInv
<1> QED BY <1>a, <1>3, <1>4 DEF LitCommande, Envoie


LEMMA EnvoieFichierOK == ASSUME CInv, NEW x \in Clients, EnvoieFichier(x) PROVE CInv'
<1>a. PICK c : c = cour[x]
  OBVIOUS
<1>0. Types /\ Poste(x)
  BY DEF CInv
<1>1. pcC[x] = "envoie"
      /\ UNCHANGED <<scene, cour, copie, pcS, data, n, fd, ouverts, fichier, descendant, tenue,
                     pcM, zombies, vivant, croise>>
  BY DEF EnvoieFichier, svars, mvars
<1>2. /\ c \in Conns /\ scene.proprio[c] = x /\ pcS[c] # "absent" /\ Connexion(c)
      /\ scene.commande[c] = "UPLOAD" /\ (pcS[c] \in Avant => montant[c] # <<>>)
  BY <1>a, <1>0, <1>1 DEF Poste, CInv
<1>3. PICK k \in 0 .. Bloc : k = Morceau(c) /\ posn[c] \in Nat /\ Taille[c] \in Nat /\ posn[c] + k <= Taille[c]
  BY <1>0, <1>2, Cellules
<1>4. Sain' = Sain /\ Cellule(c)' = Cellule(c) /\ UnSeul' /\ Fins' = Fins
  BY <1>1 DEF Sain, Threads, Cellule, CInv, UnSeul, Sert, Fins
<1>5. c \notin fermeC
  BY <1>0, <1>1, <1>2 DEF CInv, Fermes
<1>6. CASE k = 0
  <2>1. pcC' = [pcC EXCEPT ![x] = "connecte"] /\ UNCHANGED <<montant, posn, fermeC>>
    BY <1>a, <1>3, <1>6 DEF EnvoieFichier
  <2>2. /\ Fermes' /\ pcC'[x] = "connecte"
        /\ pcC' \in [Clients -> {"connecte", "commande", "envoie", "lit", "mort"}]
        /\ \A y \in Clients \ {x} : Poste(y)'
    BY <1>1, <2>1, Suivant
  <2>3. Types'
    BY <1>0, <1>1, <1>4, <2>1, <2>2 DEF Types
  <2>4. \A d \in Conns : Connexion(d)'
    BY <1>1, <2>1, Repos
  <2>5. Poste(x)'
    BY <2>2 DEF Poste
  <2> QED BY <1>4, <2>2, <2>3, <2>4, <2>5 DEF CInv
<1>7. CASE k # 0
  <2> DEFINE m == SubSeq(Source(c, Taille[c]), posn[c] + 1, posn[c] + k)
  <2>1. /\ posn' = [posn EXCEPT ![c] = posn[c] + k]
        /\ tenue[c] = {} \/ Len(montant[c]) + Bloc <= Tampon
        /\ \/ /\ montant' = IF tenue[c] = {} THEN montant ELSE [montant EXCEPT ![c] = montant[c] \o Plein(m)]
              /\ pcC' = [pcC EXCEPT ![x] = "envoie"] /\ UNCHANGED fermeC
           \/ tenue[c] = {} /\ ClientMeurt(x) /\ UNCHANGED montant
    BY <1>a, <1>3, <1>7 DEF EnvoieFichier, Envoie
  <2>2. m \in Seq(Unites) /\ Len(m) = k /\ Donnees(m) = m /\ Source(c, posn[c]) \o m = Source(c, posn[c] + k)
    <3> DEFINE t == Taille[c]
               i == posn[c]
    <3>1. t \in Nat /\ i \in Nat /\ k \in Nat /\ i + k <= t
      BY <1>3
    <3>2. m = SubSeq(Source(c, t), i + 1, i + k)
      OBVIOUS
    <3> HIDE DEF t, i, m
    <3> DEFINE mm == SubSeq(Source(c, t), i + 1, i + k)
    <3>3. mm \in Seq(Unites) /\ Len(mm) = k /\ Donnees(mm) = mm /\ Source(c, i) \o mm = Source(c, i + k)
      BY <1>2, <3>1, SourceSuite
    <3>4. m = mm
      BY <3>2
    <3> HIDE DEF mm
    <3> QED BY <3>3, <3>4 DEF i
  <2> HIDE DEF m
  <2>3. Plein(m) \in Seq(Unites) /\ Len(Plein(m)) = Bloc /\ Donnees(Plein(m)) = m
    <3>1. Len(m) <= Bloc
      BY <1>3, <2>2, Constantes
    <3> QED BY <2>2, <3>1, PleinType
  <2>4. /\ posn' \in [Conns -> Nat] /\ posn'[c] = posn[c] + k /\ \A d \in Conns \ {c} : posn'[d] = posn[d]
        /\ \A d \in Conns : posn'[d] <= Taille[d]
    <3>1. posn \in [Conns -> Nat] /\ posn[c] + k \in Nat /\ posn[c] + k <= Taille[c]
          /\ \A d \in Conns : posn[d] <= Taille[d]
      BY <1>0, <1>3 DEF Types
    <3> QED BY <1>2, <2>1, <3>1
  <2>5. Sain /\ pcS[c] = "fin" => fichier[c] = <<>>
    BY <1>2, <1>5 DEF Connexion, Copies
  <2>6. CASE tenue[c] = {}
    <3>1. Sain => pcS[c] = "fin"
      BY <1>2, <2>6 DEF Connexion, Tenu, Sain
    <3>2. montant' = montant
      BY <2>1, <2>6
    <3>3. /\ Fermes' /\ \A y \in Clients : Poste(y)'
          /\ pcC' \in [Clients -> {"connecte", "commande", "envoie", "lit", "mort"}]
          /\ fermeC' \subseteq Conns /\ fermeC \subseteq fermeC'
      <4>1. CASE ClientMeurt(x)
        BY <1>1, <3>2, <4>1, ClientMeurtEffet
      <4>2. CASE pcC' = [pcC EXCEPT ![x] = "envoie"] /\ UNCHANGED fermeC
        <5>1. /\ Fermes' /\ pcC'[x] = "envoie"
              /\ pcC' \in [Clients -> {"connecte", "commande", "envoie", "lit", "mort"}]
              /\ \A y \in Clients \ {x} : Poste(y)'
          BY <1>1, <3>2, <4>2, Suivant
        <5>2. Poste(x)'
          BY <1>0, <1>1, <3>2, <5>1 DEF Poste
        <5>3. fermeC \subseteq Conns
          BY <1>0 DEF Types
        <5> QED BY <4>2, <5>1, <5>2, <5>3
      <4> QED BY <2>1, <4>1, <4>2
    <3>4. Types'
      BY <1>0, <1>1, <1>4, <2>4, <3>2, <3>3 DEF Types
    <3>5. \A d \in Conns \ {c} : Connexion(d)'
      BY <1>1, <2>4, <3>2, <3>3, Repos
    <3>6. Connexion(c)'
      <4>1. Etape(c)' /\ Vide(c)' /\ Tenu(c)' /\ Propre(c)'
        BY <1>1, <1>2, <1>4, <3>2, <3>3 DEF Connexion, Etape, Vide, Tenu, Propre
      <4>2. Copies(c)'
        BY <1>1, <1>2, <1>4, <2>5, <3>1 DEF Copies
      <4> QED BY <4>1, <4>2 DEF Connexion
    <3> QED BY <1>4, <3>3, <3>4, <3>5, <3>6 DEF CInv
  <2>7. CASE tenue[c] # {}
    <3> DEFINE a == montant[c]
               p == Plein(m)
    <3>1. /\ montant' = [montant EXCEPT ![c] = a \o p] /\ Len(a) + Bloc <= Tampon
          /\ pcC' = [pcC EXCEPT ![x] = "envoie"] /\ UNCHANGED fermeC
      BY <2>1, <2>7
    <3>2. a \in Seq(Unites) /\ p \in Seq(Unites) /\ Len(p) = Bloc /\ Donnees(p) = m /\ Len(a) \in Nat
      BY <1>0, <1>2, <2>3, LenProperties DEF Types
    <3> HIDE DEF a, p
    <3>3. /\ a \o p \in Seq(Unites) /\ Len(a \o p) = Len(a) + Bloc /\ Donnees(a \o p) = Donnees(a) \o m
          /\ a # <<>> => (a \o p)[1] = a[1]
      <4>1. a \o p \in Seq(Unites) /\ Len(a \o p) = Len(a) + Len(p)
            /\ \A j \in 1 .. Len(a) + Len(p) : (a \o p)[j] = IF j <= Len(a) THEN a[j] ELSE p[j - Len(a)]
        BY <3>2, ConcatProperties
      <4>2. Donnees(a \o p) = Donnees(a) \o Donnees(p)
        BY <3>2, DonneesConcat
      <4>3. a # <<>> => 1 \in 1 .. Len(a) + Len(p) /\ 1 <= Len(a)
        <5>1. a # <<>> => Len(a) # 0
          BY <3>2, EmptySeq
        <5> QED BY <3>2, <5>1, Constantes
      <4> QED BY <3>2, <4>1, <4>2, <4>3
    <3>4. Len(a \o p) <= Tampon /\ a \o p # <<>>
      <4>1. Len(a) + Bloc <= Tampon /\ Len(a) + Bloc > 0
        BY <3>1, <3>2, Constantes
      <4>2. Len(a \o p) > 0
        BY <3>3, <4>1
      <4>3. a \o p # <<>>
        <5> DEFINE v == a \o p
        <5>1. Len(v) > 0
          BY <4>2
        <5> HIDE DEF v
        <5>2. v # <<>>
          BY <5>1
        <5> QED BY <5>2 DEF v
      <4> QED BY <3>3, <4>1, <4>3
    <3>5. /\ montant'[c] = a \o p /\ \A d \in Conns \ {c} : montant'[d] = montant[d]
          /\ montant' \in [Conns -> Seq(Unites)] /\ \A d \in Conns : Len(montant'[d]) <= Tampon
      <4> DEFINE v == a \o p
      <4>1. v \in Seq(Unites) /\ Len(v) <= Tampon /\ montant' = [montant EXCEPT ![c] = v]
        BY <3>1, <3>3, <3>4
      <4> HIDE DEF v
      <4>2. /\ montant'[c] = v /\ \A d \in Conns \ {c} : montant'[d] = montant[d]
            /\ montant' \in [Conns -> Seq(Unites)] /\ \A d \in Conns : Len(montant'[d]) <= Tampon
        BY <1>0, <1>2, <4>1 DEF Types
      <4> QED BY <4>2 DEF v
    <3>6. /\ Fermes' /\ pcC'[x] = "envoie"
          /\ pcC' \in [Clients -> {"connecte", "commande", "envoie", "lit", "mort"}]
          /\ \A y \in Clients \ {x} : Poste(y)'
      <4>1. \A d \in Conns : scene.proprio[d] # x => montant'[d] = montant[d]
        BY <1>2, <3>5
      <4> QED BY <1>1, <3>1, <4>1, Suivant
    <3>7. Types'
      BY <1>0, <1>1, <1>4, <2>4, <3>1, <3>5, <3>6 DEF Types
    <3>8. \A d \in Conns \ {c} : Connexion(d)'
      BY <1>1, <2>4, <3>1, <3>5, Repos
    <3>9. Poste(x)'
      <4>1. montant'[c] # <<>>
        BY <3>4, <3>5
      <4> QED BY <1>a, <1>0, <1>1, <1>2, <3>6, <4>1 DEF Poste
    <3>10. Connexion(c)'
      <4>1. Etape(c)' /\ Tenu(c)'
        BY <1>1, <1>2 DEF Connexion, Etape, Tenu
      <4>2. Vide(c)'
        <5>1. pcS[c] \in Avant => montant'[c][1] = Nul
          BY <1>2, <3>3, <3>5 DEF Connexion, Vide, a
        <5> QED BY <1>1, <1>2, <1>4, <5>1 DEF Connexion, Vide
      <4>3. Propre(c)'
        BY <1>1, <1>2, <1>4, <1>5 DEF Connexion, Propre
      <4>4. Copies(c)'
        <5>1. ASSUME Sain, pcS[c] # "fin"
              PROVE  (fichier[c] \o Donnees(data[c])) \o Donnees(montant'[c]) = Source(c, posn'[c])
          <6> DEFINE g == fichier[c] \o Donnees(data[c])
                     da == Donnees(a)
          <6>1. g \o da = Source(c, posn[c])
            BY <1>2, <5>1 DEF Connexion, Copies, a
          <6>2. g \in Seq(Unites) /\ da \in Seq(Unites)
            <7>1. fichier[c] \in Seq(Unites) /\ Donnees(data[c]) \in Seq(Unites)
              BY <1>0, <1>2, DonneesType DEF Types
            <7> QED BY <3>2, <7>1, ConcatProperties, DonneesType
          <6>3. Donnees(montant'[c]) = da \o m
            BY <3>3, <3>5
          <6> HIDE DEF g, da
          <6>4. g \o (da \o m) = (g \o da) \o m
            <7> HIDE DEF Unites
            <7> QED BY <2>2, <6>2, ConcatAssociative
          <6>5. g \o (da \o m) = Source(c, posn'[c])
            BY <2>2, <2>4, <6>1, <6>4
          <6> QED BY <6>3, <6>5 DEF g
        <5> QED BY <1>1, <1>2, <1>4, <2>5, <5>1 DEF Copies
      <4> QED BY <4>1, <4>2, <4>3, <4>4 DEF Connexion
    <3> QED BY <1>4, <3>6, <3>7, <3>8, <3>9, <3>10 DEF CInv
  <2> QED BY <2>6, <2>7
<1> QED BY <1>6, <1>7


LEMMA LitOK == ASSUME CInv, NEW x \in Clients, Lit(x) PROVE CInv'
<1>a. PICK c : c = cour[x]
  OBVIOUS
<1>0. Types /\ Poste(x)
  BY DEF CInv
<1>1. pcC[x] = "lit"
      /\ UNCHANGED <<scene, cour, pcS, data, n, fd, ouverts, fichier, montant, tenue, posn,
                     pcM, zombies, vivant, croise>>
  BY DEF Lit, svars, mvars
<1>2. c \in Conns /\ Connexion(c)
  BY <1>a, <1>0, <1>1 DEF Poste, CInv
<1>3. CASE descendant[c] # <<>>
  <2>1. UNCHANGED <<pcC, fermeC>>
    BY <1>a, <1>3 DEF Lit
  <2>2. PICK k \in 1 .. Bloc :
          /\ k <= Len(descendant[c])
          /\ copie' = [copie EXCEPT ![c] = copie[c] \o Donnees(SubSeq(descendant[c], 1, k))]
          /\ descendant' = [descendant EXCEPT ![c] = SubSeq(descendant[c], k + 1, Len(descendant[c]))]
    BY <1>a, <1>3 DEF Lit
  <2> DEFINE a == SubSeq(descendant[c], 1, k)
             r == SubSeq(descendant[c], k + 1, Len(descendant[c]))
  <2>3. /\ descendant[c] \in Seq(Unites) /\ Len(descendant[c]) \in Nat /\ Len(descendant[c]) <= Tampon
        /\ copie[c] \in Seq(Unites) /\ data[c] \in Seq(Unites) /\ k \in Nat
    BY <1>0, <1>2, LenProperties DEF Types
  <2>4. /\ a \in Seq(Unites) /\ r \in Seq(Unites) /\ Len(r) = Len(descendant[c]) - k
        /\ Donnees(descendant[c]) = Donnees(a) \o Donnees(r)
    <3>1. k \in 0 .. Len(descendant[c])
      BY <2>2, <2>3
    <3> QED BY <2>3, <3>1, Coupe
  <2>5. /\ copie' = [copie EXCEPT ![c] = copie[c] \o Donnees(a)] /\ descendant' = [descendant EXCEPT ![c] = r]
    BY <2>2
  <2> HIDE DEF a, r
  <2>6. Donnees(a) \in Seq(Unites) /\ Donnees(r) \in Seq(Unites) /\ Donnees(data[c]) \in Seq(Unites)
    BY <2>3, <2>4, DonneesType
  <2>7. copie[c] \o Donnees(a) \in Seq(Unites) /\ Len(r) <= Tampon
    <3>1. copie[c] \o Donnees(a) \in Seq(Unites)
      BY <2>3, <2>6, ConcatProperties
    <3> QED BY <2>3, <2>4, <3>1, Constantes
  <2>8. /\ copie'[c] = copie[c] \o Donnees(a) /\ descendant'[c] = r
        /\ \A d \in Conns \ {c} : copie'[d] = copie[d] /\ descendant'[d] = descendant[d]
        /\ copie' \in [Conns -> Seq(Unites)] /\ descendant' \in [Conns -> Seq(Unites)]
        /\ \A d \in Conns : Len(descendant'[d]) <= Tampon
    <3> DEFINE v == copie[c] \o Donnees(a)
    <3>1. v \in Seq(Unites) /\ copie' = [copie EXCEPT ![c] = v]
      BY <2>5, <2>7
    <3> HIDE DEF v
    <3>2. copie'[c] = v /\ (\A d \in Conns \ {c} : copie'[d] = copie[d]) /\ copie' \in [Conns -> Seq(Unites)]
      BY <1>0, <1>2, <3>1 DEF Types
    <3>3. /\ descendant'[c] = r /\ \A d \in Conns \ {c} : descendant'[d] = descendant[d]
          /\ descendant' \in [Conns -> Seq(Unites)] /\ \A d \in Conns : Len(descendant'[d]) <= Tampon
      BY <1>0, <1>2, <2>4, <2>5, <2>7 DEF Types
    <3> QED BY <3>2, <3>3 DEF v
  <2>9. Sain' = Sain /\ Cellule(c)' = Cellule(c) /\ UnSeul' /\ Fins' = Fins /\ Fermes'
        /\ \A y \in Clients : Poste(y)'
    BY <1>1, <2>1 DEF Sain, Threads, Cellule, CInv, UnSeul, Sert, Fins, Fermes, Poste
  <2>10. Types'
    BY <1>0, <1>1, <2>1, <2>8, <2>9 DEF Types
  <2>11. \A d \in Conns \ {c} : Connexion(d)'
    BY <1>1, <2>1, <2>8, Repos
  <2>12. Connexion(c)'
    <3>1. Etape(c)' /\ Tenu(c)' /\ Propre(c)'
      BY <1>1, <1>2, <2>1, <2>9 DEF Connexion, Etape, Tenu, Propre
    <3>2. Vide(c)'
      BY <1>1, <1>2, <1>3, <2>9 DEF Connexion, Vide
    <3>3. Copies(c)'
      <4>1. (copie[c] \o Donnees(a)) \o Donnees(r) = copie[c] \o Donnees(descendant[c])
        <5> DEFINE k1 == copie[c]
                   da == Donnees(a)
                   dr == Donnees(r)
        <5>1. k1 \in Seq(Unites) /\ da \in Seq(Unites) /\ dr \in Seq(Unites)
          BY <2>3, <2>6
        <5> HIDE DEF k1, da, dr
        <5>2. (k1 \o da) \o dr = k1 \o (da \o dr)
          <6> HIDE DEF Unites
          <6> QED BY <5>1, ConcatAssociative
        <5> QED BY <2>4, <5>2 DEF k1, da, dr
      <4>2. copie'[c] \o Donnees(descendant'[c]) = copie[c] \o Donnees(descendant[c])
        BY <2>8, <4>1
      <4> QED BY <1>1, <1>2, <2>1, <2>9, <4>2 DEF Connexion, Copies
    <3> QED BY <3>1, <3>2, <3>3 DEF Connexion
  <2> QED BY <2>9, <2>10, <2>11, <2>12 DEF CInv
<1>4. CASE descendant[c] = <<>>
  <2>1. UNCHANGED <<copie, descendant>>
        /\ \/ UNCHANGED <<pcC, fermeC>>
           \/ ClientMeurt(x)
           \/ pcC' = [pcC EXCEPT ![x] = "connecte"] /\ UNCHANGED fermeC
    BY <1>a, <1>4 DEF Lit
  <2>2. CASE ClientMeurt(x)
    BY <1>1, <2>1, <2>2, MortOK
  <2>3. CASE UNCHANGED <<pcC, fermeC>> \/ (pcC' = [pcC EXCEPT ![x] = "connecte"] /\ UNCHANGED fermeC)
    <3>1. fermeC' = fermeC /\ UnSeul' /\ Fins' = Fins
      BY <1>1, <2>3 DEF CInv, UnSeul, Threads, Sert, Fins
    <3>2. /\ Fermes' /\ pcC' \in [Clients -> {"connecte", "commande", "envoie", "lit", "mort"}]
          /\ \A y \in Clients : Poste(y)'
      <4>1. CASE pcC' = pcC
        BY <1>0, <1>1, <3>1, <4>1 DEF CInv, Fermes, Poste, Types
      <4>2. CASE pcC' = [pcC EXCEPT ![x] = "connecte"]
        <5>1. /\ Fermes' /\ pcC'[x] = "connecte"
              /\ pcC' \in [Clients -> {"connecte", "commande", "envoie", "lit", "mort"}]
              /\ \A y \in Clients \ {x} : Poste(y)'
          BY <1>1, <3>1, <4>2, Suivant
        <5>2. Poste(x)'
          BY <5>1 DEF Poste
        <5> QED BY <5>1, <5>2
      <4> QED BY <2>3, <4>1, <4>2
    <3>3. Types'
      BY <1>0, <1>1, <2>1, <3>1, <3>2 DEF Types
    <3>4. \A d \in Conns : Connexion(d)'
      BY <1>1, <2>1, <3>1, Repos
    <3> QED BY <3>1, <3>2, <3>3, <3>4 DEF CInv
  <2> QED BY <2>1, <2>2, <2>3
<1> QED BY <1>3, <1>4

LEMMA CInvPas == CInv /\ [Next]_vars => CInv'
<1> SUFFICES ASSUME CInv, [Next]_vars PROVE CInv'
  OBVIOUS
<1>1. CASE Pere
  BY <1>1, AccepteOK, FermePereOK, WaitOK DEF Pere
<1>2. CASE TraitSignal
  BY <1>2, TraitSignalOK
<1>3. ASSUME NEW c \in Conns, Service(c) PROVE CInv'
  BY <1>3, CommandeOK, ListOK, UploadOK, UploadLitOK, UploadTesteOK, DownloadOK, DownloadLitOK, DownloadEcritOK
     DEF Service
<1>4. ASSUME NEW x \in Clients, Client(x) \/ Interrompu(x) PROVE CInv'
  BY <1>4, ConnecteOK, LitCommandeOK, EnvoieFichierOK, LitOK, InterrompuOK DEF Client
<1>5. CASE UNCHANGED vars
  <2>1. UNCHANGED <<scene, pcC, cour, copie, pcS, data, n, fd, ouverts, fichier, montant, descendant,
                    fermeC, tenue, posn, pcM, zombies, vivant, croise>>
    BY <1>5 DEF vars, cvars, svars, rvars, mvars
  <2>2. \A d \in Conns : Connexion(d)'
    BY <2>1, Repos
  <2>3. Fermes' /\ UnSeul' /\ (\A x \in Clients : Poste(x)') /\ Fins' = Fins
    BY <2>1 DEF CInv, Fermes, UnSeul, Threads, Sert, Poste, Fins
  <2>4. Types'
    BY <2>1, <2>3 DEF CInv, Types
  <2> QED BY <2>2, <2>3, <2>4 DEF CInv
<1> QED BY <1>1, <1>2, <1>3, <1>4, <1>5 DEF Next

LEMMA CInvInit == Init => CInv
<1> SUFFICES ASSUME Init PROVE CInv
  OBVIOUS
<1>0. <<>> \in Seq(Unites) /\ Len(<<>>) = 0
  OBVIOUS
<1>1. /\ scene \in Scenarios /\ fermeC = {} /\ ouverts = {} /\ pcM = 0 /\ zombies = 0
      /\ vivant = TRUE /\ croise = FALSE
      /\ \A c \in Conns : /\ pcS[c] = "absent" /\ montant[c] = <<>> /\ descendant[c] = <<>> /\ data[c] = <<>>
                          /\ fichier[c] = <<>> /\ copie[c] = <<>> /\ posn[c] = 0
      /\ \A x \in Clients : pcC[x] = "connecte"
  BY DEF Init
<1>2. Types
  <2>1. zombies \in Nat /\ zombies <= Cardinality(Fins)
    <3>1. Fins = {}
      BY <1>1 DEF Fins
    <3> QED BY <1>1, <3>1, FS_EmptySet
  <2>2. /\ 0 \in 0 .. NbConnexions /\ 0 \in -1 .. Bloc /\ 0 <= Tampon /\ Taille \in [Conns -> Nat]
    BY Constantes
  <2>3. /\ pcS \in [Conns -> Etapes] /\ pcC \in [Clients -> {"connecte", "commande", "envoie", "lit", "mort"}]
        /\ cour \in [Clients -> 0 .. NbConnexions]
        /\ n \in [0 .. NbConnexions -> -1 .. Bloc] /\ fd \in [0 .. NbConnexions -> 0 .. NbConnexions]
        /\ posn \in [Conns -> Nat] /\ tenue \in [Conns -> SUBSET {"noyau", "pere", "fils"}]
    BY <2>2 DEF Init, Etapes, Avant
  <2>4. /\ montant \in [Conns -> Seq(Unites)] /\ descendant \in [Conns -> Seq(Unites)]
        /\ data \in [Conns -> Seq(Unites)]
        /\ fichier \in [Conns -> Seq(Unites)] /\ copie \in [Conns -> Seq(Unites)]
    BY <1>0 DEF Init
  <2>5. \A c \in Conns : /\ Len(montant[c]) <= Tampon /\ Len(descendant[c]) <= Tampon
                         /\ data[c] = <<>> \/ Len(data[c]) = Bloc
                         /\ posn[c] <= Taille[c]
    BY <1>0, <1>1, <2>2
  <2>6. /\ scene \in Scenarios /\ ouverts \subseteq Conns /\ fermeC \subseteq Conns
        /\ pcM \in 0 .. NbConnexions /\ vivant \in BOOLEAN /\ croise \in BOOLEAN
    BY <1>1, <2>2
  <2> QED BY <2>1, <2>3, <2>4, <2>5, <2>6 DEF Types
<1>3. Fermes /\ UnSeul /\ \A x \in Clients : Poste(x)
  BY <1>1 DEF Fermes, UnSeul, Sert, Poste
<1>4. ASSUME NEW c \in Conns PROVE Connexion(c)
  <2>1. Etape(c) /\ Vide(c) /\ Tenu(c) /\ Propre(c)
    BY <1>1 DEF Etape, Vide, Tenu, Propre, Entree, Envoi, Retour
  <2>2. (<<>> \o Donnees(<<>>)) \o Donnees(<<>>) = Source(c, 0)
    <3>1. Source(c, 0) = <<>>
      BY SourceType, EmptySeq
    <3>2. <<>> \o <<>> = <<>>
      BY <1>0, ConcatEmptySeq
    <3> QED BY <3>1, <3>2, DonneesVide
  <2>3. Copies(c)
    BY <1>1, <2>2 DEF Copies
  <2> QED BY <2>1, <2>3 DEF Connexion
<1> QED BY <1>2, <1>3, <1>4 DEF CInv

LEMMA CInvTransferts == CInv => Transferts
<1> SUFFICES ASSUME CInv PROVE Transferts
  OBVIOUS
<1>0. Types
  BY DEF CInv
<1>1. TypeOK
  <2>1. zombies \in 0 .. NbConnexions
    BY <1>0, ZombiesBornes
  <2>2. \A c \in Conns : Len(montant[c]) <= Tampon + Bloc
    <3> SUFFICES ASSUME NEW c \in Conns PROVE Len(montant[c]) <= Tampon + Bloc
      OBVIOUS
    <3>1. montant[c] \in Seq(Unites) /\ Len(montant[c]) <= Tampon
      BY <1>0 DEF Types
    <3>2. Len(montant[c]) \in Nat
      BY <3>1, LenProperties
    <3> QED BY <3>1, <3>2, Constantes
  <2> QED BY <1>0, <2>1, <2>2
          DEF TypeOK, Types, Etapes, Avant, Entree, Envoi, Retour
<1>2. Recopie
  BY DEF CInv, Recopie, Connexion, Copies, Sain
<1>3. Telecharge
  BY DEF CInv, Telecharge, Connexion, Copies, Sain
<1> QED BY <1>1, <1>2, <1>3 DEF Transferts

(* The data that UPLOAD stores, and those that DOWNLOAD gives back, are    *)
(* the units of the file, in order and without a loss, for any number of   *)
(* connexions and of clients, any size of the files, of DATA and of what   *)
(* the kernel keeps. What else the copy gets is not in question here: the  *)
(* programs write whole buffers, and the copy is not the file.             *)
THEOREM TheoremeTransferts == Spec => []Transferts
<1>1. Init => CInv
  BY CInvInit
<1>2. CInv /\ [Next]_vars => CInv'
  BY CInvPas
<1>3. CInv => Transferts
  BY CInvTransferts
<1> QED BY <1>1, <1>2, <1>3, PTL DEF Spec
=============================================================================

----------------------------- MODULE ChatProofs -----------------------------
EXTENDS Chat, FiniteSetTheorems, TLAPS

(* Three layers. TableIInv is inductive for the table alone. Base adds     *)
(* what the program keeps whatever the texts do to the segment of the      *)
(* server: the places of the threads, the segments of the clients, and the *)
(* bound that keeps every index inside messages. Over Base, three more     *)
(* invariants are carried one at a time: ContentsOK (which names can be    *)
(* seen), Tokens (the semaphore of the server counted out) and, in the     *)
(* runs without texts, Calm.                                               *)

(* The table holds names, the scanned indices stay inside it, and past     *)
(* them it is empty.                                                       *)
TableIInv ==
    /\ TableTypeOK
    /\ HolesAtEnd
    /\ \A j \in Slots : j >= nbUserCourant => tabClient[j] = NoName

LEMMA TableInitOK == TableInit => TableIInv
<1> SUFFICES ASSUME TableInit PROVE TableIInv
  OBVIOUS
<1> USE TableAssumption DEF TableInit, Slots
<1>1. tabClient \in [Slots -> Names \cup {NoName}] /\ nbUserCourant \in 0 .. MAX_USERS
  OBVIOUS
<1>2. emplacementVide \in BOOLEAN
  OBVIOUS
<1>3. HolesAtEnd /\ \A j \in Slots : j >= nbUserCourant => tabClient[j] = NoName
  BY DEF HolesAtEnd
<1> QED BY <1>1, <1>2, <1>3 DEF TableIInv, TableTypeOK

(* A connexion keeps the invariant: it fills holes, all of them, and       *)
(* appends only to a table without holes.                                  *)
LEMMA ConnexionOK ==
  ASSUME NEW u \in Names \cup {NoName}, TableIInv, Connexion(u)
  PROVE  TableIInv'
<1> USE TableAssumption DEF TableIInv, TableTypeOK, HolesAtEnd, Slots, Used, Holes
<1> DEFINE filled == [j \in Slots |-> IF j \in Holes THEN u ELSE tabClient[j]]
<1>0. emplacementVide' \in BOOLEAN
  BY DEF Connexion
<1>1. CASE emplacementVide'
  <2>1. tabClient' = filled /\ nbUserCourant' = nbUserCourant
    BY <1>1 DEF Connexion
  <2>2. TableTypeOK'
    BY <1>0, <2>1
  <2>3. ASSUME NEW j \in Slots, NEW k \in Slots, j < k, tabClient'[j] = NoName
        PROVE  tabClient'[k] = NoName
    <3>1. CASE j \in Holes
      BY <2>1, <2>3, <3>1
    <3>2. CASE j \notin Holes
      BY <2>1, <2>3, <3>2
    <3> QED BY <3>1, <3>2
  <2>4. \A j \in Slots : j >= nbUserCourant' => tabClient'[j] = NoName
    BY <2>1
  <2> QED BY <2>2, <2>3, <2>4
<1>2. CASE ~emplacementVide'
  <2>1. /\ Holes = {} /\ nbUserCourant < MAX_USERS
        /\ tabClient' = [filled EXCEPT ![nbUserCourant] = u]
        /\ nbUserCourant' = nbUserCourant + 1
    BY <1>2 DEF Connexion
  <2>2. tabClient' = [tabClient EXCEPT ![nbUserCourant] = u]
    BY <2>1
  <2>3. \A j \in Slots : j < nbUserCourant => tabClient[j] # NoName
    BY <2>1
  <2>4. tabClient' \in [Slots -> Names \cup {NoName}] /\ nbUserCourant' \in 0 .. MAX_USERS
    BY <2>1, <2>2
  <2>5. HolesAtEnd'
    BY <2>1, <2>2, <2>3
  <2>6. \A j \in Slots : j >= nbUserCourant' => tabClient'[j] = NoName
    BY <2>1, <2>2
  <2> QED BY <1>0, <2>4, <2>5, <2>6
<1> QED BY <1>1, <1>2

(* So does a deconnexion: the entries after the removed one move down.     *)
LEMMA DeconnexionOK ==
  ASSUME NEW u \in Names \cup {NoName}, TableIInv, Deconnexion(u)
  PROVE  TableIInv'
<1> USE TableAssumption DEF TableIInv, TableTypeOK, HolesAtEnd, Slots, Used
<1>1. CASE UNCHANGED tvars
  BY <1>1 DEF tvars
<1>2. ASSUME NEW k \in Used, Remove(k)
      PROVE  TableIInv'
  <2>1. /\ tabClient' = [j \in Slots |->
                            IF j = nbUserCourant - 1 THEN NoName
                            ELSE IF j >= k /\ j + 1 \in Used THEN tabClient[j + 1]
                            ELSE tabClient[j]]
        /\ nbUserCourant' = nbUserCourant /\ emplacementVide' = emplacementVide
    BY <1>2 DEF Remove
  <2>2. TableTypeOK'
    BY <2>1
  <2>3. HolesAtEnd'
    BY <2>1
  <2>4. \A j \in Slots : j >= nbUserCourant' => tabClient'[j] = NoName
    BY <2>1
  <2> QED BY <2>2, <2>3, <2>4
<1> QED BY <1>1, <1>2 DEF Deconnexion

LEMMA TableStepOK == TableIInv /\ [TableNext]_tvars => TableIInv'
<1> SUFFICES ASSUME TableIInv, [TableNext]_tvars PROVE TableIInv'
  OBVIOUS
<1>1. CASE TableNext
  BY <1>1, ConnexionOK, DeconnexionOK DEF TableNext
<1>2. CASE UNCHANGED tvars
  BY <1>2 DEF TableIInv, TableTypeOK, HolesAtEnd, Slots, Used, tvars
<1> QED BY <1>1, <1>2

(* The invariant holds in every state of the table.                        *)
THEOREM TableInvariant == TableSpec => []TableIInv
  BY TableInitOK, TableStepOK, PTL DEF TableSpec

(* A hole of the table is never followed by a name.                        *)
THEOREM HolesStayAtEnd == TableSpec => []HolesAtEnd
<1>1. TableIInv => HolesAtEnd
  BY DEF TableIInv
<1> QED BY <1>1, TableInvariant, PTL

(* One message never makes two users disappear from the table.             *)
THEOREM AtMostOneNameLeaves == TableSpec => OneNameLeaves
<1>1. TableIInv /\ [TableNext]_tvars =>
        [\A u, v \in Present \ Present' : u = v]_tvars
  <2> SUFFICES ASSUME TableIInv, TableNext
               PROVE  \A u, v \in Present \ Present' : u = v
    BY DEF tvars, Present, Used
  <2> USE TableAssumption DEF TableIInv, TableTypeOK, Slots, Used, Present
  <2>1. PICK w \in Names \cup {NoName} : Connexion(w) \/ Deconnexion(w)
    BY DEF TableNext
  <2>2. CASE Connexion(w)
    <3>1. \A j \in Used : tabClient[j] # NoName =>
            j \in Used' /\ tabClient'[j] = tabClient[j]
      <4> DEFINE filled == [j \in Slots |-> IF j \in Holes THEN w ELSE tabClient[j]]
      <4> SUFFICES ASSUME NEW j \in Used, tabClient[j] # NoName
                   PROVE  j \in Used' /\ tabClient'[j] = tabClient[j]
        OBVIOUS
      <4>1. \/ tabClient' = filled /\ nbUserCourant' = nbUserCourant
            \/ /\ nbUserCourant' = nbUserCourant + 1
               /\ tabClient' = [filled EXCEPT ![nbUserCourant] = w]
        BY <2>2 DEF Connexion
      <4>2. j \in Slots /\ j < nbUserCourant /\ filled[j] = tabClient[j]
        BY DEF Holes
      <4>3. CASE tabClient' = filled /\ nbUserCourant' = nbUserCourant
        BY <4>2, <4>3
      <4>4. CASE /\ nbUserCourant' = nbUserCourant + 1
                 /\ tabClient' = [filled EXCEPT ![nbUserCourant] = w]
        <5>1. j # nbUserCourant
          BY <4>2
        <5>2. tabClient'[j] = filled[j]
          BY <4>2, <4>4, <5>1
        <5> QED BY <4>2, <4>4, <5>2
      <4> QED BY <4>1, <4>3, <4>4
    <3> QED BY <3>1
  <2>3. CASE UNCHANGED tvars
    BY <2>3 DEF tvars
  <2>4. ASSUME NEW k \in Used, Remove(k)
        PROVE  \A j \in Used : j # k /\ tabClient[j] # NoName =>
                 \E l \in Used' : tabClient'[l] = tabClient[j]
    <3> SUFFICES ASSUME NEW j \in Used, j # k, tabClient[j] # NoName
                 PROVE  \E l \in Used' : tabClient'[l] = tabClient[j]
      BY <2>4
    <3>1. CASE j < k
      BY <2>4, <3>1 DEF Remove
    <3>2. CASE j > k
      <4>1. j - 1 \in Used' /\ tabClient'[j - 1] = tabClient[j]
        BY <2>4, <3>2 DEF Remove
      <4> QED BY <4>1
    <3> QED BY <3>1, <3>2
  <2>5. ASSUME NEW k \in Used, Remove(k)
        PROVE  \A u, v \in Present \ Present' : u = v
    <3>1. \A u \in Present \ Present' : u = tabClient[k]
      BY <2>4, <2>5
    <3> QED BY <3>1
  <2> QED BY <2>1, <2>2, <2>3, <2>5 DEF Deconnexion
<1> QED BY <1>1, TableInvariant, PTL DEF TableSpec, OneNameLeaves
-----------------------------------------------------------------------------
(* The places of all the threads.                                          *)
Points == WPoints \cup RPoints \cup HPoints \cup SPoints

(* How far a client's threads are, by its status: its handler runs only    *)
(* after the SIGINT, its segment is linked from the start of the program   *)
(* to the exit, and a text is being sent only while sent is not 0.         *)
StatusOK(c) ==
    /\ status[c] = "off" => pc[W(c)] = "wait" /\ pc[R(c)] = "wait"
    /\ status[c] \in {"off", "run"} => pc[H(c)] = "wait"
    /\ status[c] = "exited" <=> pc[H(c)] = "exited"
    /\ pc[W(c)] = "wait" => sent[c] = 0
    /\ pc[W(c)] \in {"own", "last"} => sent[c] > 0
    /\ c \in linked <=> status[c] \notin {"off", "exited"}

(* Where the server is: it broadcasts to a client of the table, and treats *)
(* a message only after it read a write that is not 0.                     *)
ServeurOK ==
    /\ pc[Serveur] \in {"sem", "deliver", "count", "delivered"} => i \in Used /\ tabClient[i] \in Clients
    /\ pc[Serveur] \in {"index", "type", "content", "switch", "open", "sem", "deliver", "count",
                        "delivered", "load"} => shm[Serveur].write > 0
    /\ pc[Serveur] = "store" => reg[Serveur] > 0

(* The index at which a thread reads or writes is one of messages.         *)
IndexOK == \A t \in Posters \cup {Serveur} : pc[t] \in {"type", "content"} => reg[t] \in Index

(* The senders with a message to post, among those whose event happened.   *)
Pending ==
    {t \in Posters : /\ status[t[1]] # "off"
                     /\ t[2] = "sigint" => status[t[1]] # "run"
                     /\ pc[t] \in {"wait", "own", "index", "type", "content", "load", "store"}}

(* Each event is posted once at most: write, and what a sender is about to *)
(* store in it, never exceed the events less the messages to post.         *)
(* IndexOK rests on this.                                                  *)
Bounded ==
    /\ IsFiniteSet(Events) /\ IsFiniteSet(Pending)
    /\ Cardinality(Events) <= MaxEvents
    /\ \A c \in Clients : sent[c] <= Cardinality(Events)
    /\ shm[Serveur].write + Cardinality(Pending) <= Cardinality(Events)
    /\ \A t \in Posters \cup {Serveur} :
          pc[t] = "store" => reg[t] + Cardinality(Pending) <= Cardinality(Events)

(* What a reader, or the server, holds of a segment between its load and   *)
(* its store is still there: the semaphore of the segment protects it.     *)
BoxReg ==
    /\ \A c \in Clients : pc[R(c)] = "store" => reg[R(c)] = shm[c].write /\ reg[R(c)] > 0
    /\ pc[Serveur] = "count" => reg[Serveur] = shm[tabClient[i]].write

(* The names that messages and the table hold are those of clients that    *)
(* started.                                                                *)
Started(u) == u \in Clients => status[u] # "off"
ContentsOK ==
    /\ Started(mess.content)
    /\ \A j \in Index : Started(messages[j].content)
    /\ \A j \in Slots : Started(tabClient[j])

(* ServerTokens, with the finiteness its counts need.                      *)
Tokens == IsFiniteSet(Holders) /\ IsFiniteSet(TextsPosted) /\ ServerTokens

(* The runs TableOfUsers speaks of: no text. ConnectedInTable adds that no *)
(* hole was filled.                                                        *)
Quiet == \A c \in Clients : sent[c] = 0

(* The messages posted and not treated are those below Live.               *)
Live == IF pc[Serveur] \in {"load", "store"} THEN shm[Serveur].write - 1 ELSE shm[Serveur].write

(* The user u began its connexion; it got its SIGINT.                      *)
Came(u) == u \in Clients /\ pc[W(u)] # "wait"
Left(u) == u \in Clients /\ status[u] \notin {"off", "run"}

(* In these runs the server's semaphore excludes.  So what the server and  *)
(* a sender read before is still true, and a message is whole.             *)
QServeur ==
    /\ pc[Serveur] \notin {"open", "sem", "deliver", "count", "delivered", "exited"}
    /\ pc[Serveur] \in {"type", "content"} => reg[Serveur] = shm[Serveur].write - 1
    /\ pc[Serveur] = "store" => reg[Serveur] = shm[Serveur].write
    /\ pc[Serveur] \in {"content", "switch"} => mess.type = messages[shm[Serveur].write - 1].type
    /\ pc[Serveur] = "switch" => mess.content = messages[shm[Serveur].write - 1].content
QPosters ==
    \A t \in Posters :
        /\ pc[t] \in {"type", "content", "store"} => reg[t] = shm[Serveur].write
        /\ pc[t] \in {"content", "load", "store"} => messages[shm[Serveur].write].type = Outgoing(t).type
        /\ pc[t] \in {"load", "store"} => messages[shm[Serveur].write].content = Outgoing(t).content

(* The messages are connexions and deconnexions, a connexion is of a user  *)
(* that came, and a deconnexion of one that leaves.                        *)
QMessages ==
    /\ mess.type # 2
    /\ \A j \in Index : messages[j].type # 2
    /\ \A j \in Index : j < Live /\ messages[j].type = 1 => Came(messages[j].content)
    /\ \A j \in Index : j < Live /\ messages[j].type = 3 => Left(messages[j].content)

(* Until a hole is filled, a client whose connexion is posted, and that    *)
(* runs, is in the table or its connexion is still to be treated.          *)
QConnected ==
    ~emplacementVide => \A c \in Clients :
        pc[W(c)] \in {"posted", "scanf"} /\ status[c] = "run" =>
            \/ c \in Present
            \/ \E j \in Index : j < Live /\ messages[j].type = 1 /\ messages[j].content = c

Calm == QServeur /\ QPosters /\ QMessages /\ QConnected
-----------------------------------------------------------------------------
(* The three threads of each client and the server are all different.      *)
LEMMA ThreadNames ==
    /\ \A c \in Clients : /\ W(c) \in Threads /\ R(c) \in Threads /\ H(c) \in Threads
                          /\ W(c) \in Posters /\ H(c) \in Posters
                          /\ W(c) # Serveur /\ R(c) # Serveur /\ H(c) # Serveur
                          /\ W(c)[1] = c /\ W(c)[2] = "ecriture"
                          /\ R(c)[1] = c /\ R(c)[2] = "lecture"
                          /\ H(c)[1] = c /\ H(c)[2] = "sigint"
    /\ \A c, d \in Clients : /\ W(c) # R(d) /\ W(c) # H(d) /\ R(c) # H(d)
                             /\ W(c) = W(d) => c = d
                             /\ R(c) = R(d) => c = d
                             /\ H(c) = H(d) => c = d
    /\ Serveur \in Threads /\ Serveur \notin Clients
    /\ \A t \in Posters : t \in Threads /\ t # Serveur /\ \E c \in Clients : t = W(c) \/ t = H(c)
  BY ChatAssumption DEF W, R, H, Posters, Threads

(* What a step of the server leaves alone.                                 *)
LEMMA ServeurFrame ==
  ASSUME TypeOK, ServeurMain
  PROVE  /\ \A t \in Threads \ {Serveur} : pc'[t] = pc[t] /\ reg'[t] = reg[t]
         /\ UNCHANGED <<messages, sent, status, linked>>
         /\ pc' \in [Threads -> Points] /\ pc'[Serveur] \in SPoints
<1> USE ThreadNames DEF TypeOK, Goto, Points, Section, WPoints, RPoints, HPoints, SPoints, private, SemWait, SemPost
<1>1. CASE ServeurWait
  BY <1>1 DEF ServeurWait
<1>2. CASE ServeurTest
  BY <1>2 DEF ServeurTest
<1>3. CASE ServeurPost
  BY <1>3 DEF ServeurPost
<1>4. CASE ServeurIndex
  BY <1>4 DEF ServeurIndex
<1>5. CASE ServeurType
  BY <1>5 DEF ServeurType
<1>6. CASE ServeurContent
  BY <1>6 DEF ServeurContent
<1>7. CASE ServeurTable
  BY <1>7 DEF ServeurTable
<1>8. CASE Diffusion
  <2>1. CASE ServeurDiffusion
    BY <2>1 DEF ServeurDiffusion
  <2>2. CASE ServeurOpen
    <3>1. \E to \in SPoints : pc' = [pc EXCEPT ![Serveur] = to]
      BY <2>2 DEF ServeurOpen
    <3>2. UNCHANGED <<reg, messages, sent, status, linked>>
      BY <2>2 DEF ServeurOpen
    <3> QED BY <3>1, <3>2
  <2>3. CASE DeliverWait
    BY <2>3 DEF DeliverWait
  <2>4. CASE DeliverMessage
    BY <2>4 DEF DeliverMessage
  <2>5. CASE DeliverCount
    BY <2>5 DEF DeliverCount
  <2>6. CASE DeliverPost
    BY <2>6 DEF DeliverPost
  <2> QED BY <1>8, <2>1, <2>2, <2>3, <2>4, <2>5, <2>6 DEF Diffusion
<1>9. CASE ServeurLoad
  BY <1>9 DEF ServeurLoad
<1>10. CASE ServeurStore
  BY <1>10 DEF ServeurStore
<1> QED BY <1>1, <1>2, <1>3, <1>4, <1>5, <1>6, <1>7, <1>8, <1>9, <1>10 DEF ServeurMain

(* What a step of a sender that posts leaves alone.                        *)
LEMMA PostFrame ==
  ASSUME TypeOK, NEW t \in Posters, Post(t)
  PROVE  /\ \A s \in Threads \ {t} : pc'[s] = pc[s] /\ reg'[s] = reg[s]
         /\ UNCHANGED <<tables, mess, i, sent, status, linked>>
         /\ pc' \in [Threads -> Points]
         /\ Runs(t)
         /\ \A p \in Clients : shm'[p] = shm[p]
         /\ pc[t] \in {"index", "type", "content", "load", "store"}
         /\ pc'[t] \in {"type", "content", "load", "store", "posted"}
         /\ pc'[t] = "posted" <=> pc[t] = "store"
<1> USE ThreadNames DEF TypeOK, Goto, Points, Section, WPoints, RPoints, HPoints, SPoints, private
<1>1. CASE PostIndex(t)
  BY <1>1 DEF PostIndex
<1>2. CASE PostType(t)
  BY <1>2 DEF PostType
<1>3. CASE PostContent(t)
  BY <1>3 DEF PostContent
<1>4. CASE PostLoad(t)
  BY <1>4 DEF PostLoad
<1>5. CASE PostStore(t)
  BY <1>5 DEF PostStore
<1> QED BY <1>1, <1>2, <1>3, <1>4, <1>5 DEF Post

(* What another step of the writer of c leaves alone.                      *)
LEMMA EcritureFrame ==
  ASSUME TypeOK, NEW c \in Clients, Ecriture(c)
  PROVE  /\ \A t \in Threads \ {W(c)} : pc'[t] = pc[t]
         /\ pc' \in [Threads -> Points] /\ pc'[W(c)] \in WPoints
         /\ UNCHANGED <<tables, messages, reg, mess, i, status, linked>>
         /\ Runs(W(c))
         /\ \A d \in Clients \ {c} : shm'[d] = shm[d] /\ sent'[d] = sent[d]
         /\ shm'[Serveur].write = shm[Serveur].write
<1> USE ThreadNames DEF TypeOK, Goto, Points, Section, WPoints, RPoints, HPoints, SPoints, private, SemWait, SemPost
<1>1. CASE EcritureWait(c)
  BY <1>1 DEF EcritureWait
<1>2. CASE EcriturePost(c)
  BY <1>2 DEF EcriturePost
<1>3. CASE EcritureScanf(c)
  BY <1>3 DEF EcritureScanf
<1>4. CASE EcritureOwn(c)
  BY <1>4 DEF EcritureOwn
<1>5. CASE EcritureRelease(c)
  BY <1>5 DEF EcritureRelease
<1> QED BY <1>1, <1>2, <1>3, <1>4, <1>5 DEF Ecriture

(* What a step of the reader of c leaves alone.                            *)
LEMMA LectureFrame ==
  ASSUME TypeOK, NEW c \in Clients, Lecture(c)
  PROVE  /\ \A t \in Threads \ {R(c)} : pc'[t] = pc[t] /\ reg'[t] = reg[t]
         /\ pc' \in [Threads -> Points] /\ pc'[R(c)] \in RPoints
         /\ UNCHANGED <<tables, messages, mess, i, sent, status, linked>>
         /\ Runs(R(c))
         /\ \A p \in (Clients \cup {Serveur}) \ {c} : shm'[p] = shm[p]
<1> USE ThreadNames DEF TypeOK, Goto, Points, Section, WPoints, RPoints, HPoints, SPoints, private, SemWait, SemPost
<1>1. CASE LectureWait(c)
  BY <1>1 DEF LectureWait
<1>2. CASE LectureLoad(c)
  BY <1>2 DEF LectureLoad
<1>3. CASE LectureStore(c)
  BY <1>3 DEF LectureStore
<1>4. CASE LecturePost(c)
  BY <1>4 DEF LecturePost
<1> QED BY <1>1, <1>2, <1>3, <1>4 DEF Lecture

(* What the signal, and another step of its handler, leave alone.          *)
LEMMA SigIntFrame ==
  ASSUME TypeOK, NEW c \in Clients, SigIntTrt(c)
  PROVE  /\ \A t \in Threads \ {H(c)} : pc'[t] = pc[t]
         /\ pc' \in [Threads -> Points] /\ pc'[H(c)] \in HPoints
         /\ UNCHANGED <<tables, messages, reg, mess, i, sent>>
         /\ \A d \in Clients \ {c} : status'[d] = status[d] /\ (d \in linked' <=> d \in linked)
         /\ \A d \in Clients : shm'[d] = shm[d]
         /\ shm'[Serveur].write = shm[Serveur].write
<1> USE ThreadNames DEF TypeOK, Goto, Points, Section, WPoints, RPoints, HPoints, SPoints, private, SemWait, SemPost
<1>1. CASE Sigint(c)
  BY <1>1 DEF Sigint
<1>2. CASE SigintWait(c)
  BY <1>2 DEF SigintWait
<1>3. CASE SigintPost(c)
  BY <1>3 DEF SigintPost
<1>4. CASE SigintExit(c)
  BY <1>4 DEF SigintExit
<1> QED BY <1>1, <1>2, <1>3, <1>4 DEF SigIntTrt

Base ==
    /\ TypeOK /\ TableIInv
    /\ \A c \in Clients : StatusOK(c)
    /\ ServeurOK /\ IndexOK /\ Bounded /\ BoxReg
    /\ BoxExclusion /\ BoxAccount

(* What a sender posts is a message: the text of a client is one of its    *)
(* texts, since it sent no more texts than there were events.              *)
LEMMA OutgoingOK ==
  ASSUME Base, NEW t \in Posters
  PROVE  Outgoing(t) \in [type : 1 .. 3, content : Names]
<1>1. PICK c \in Clients : t = W(c) \/ t = H(c)
  BY ThreadNames
<1>2. t[1] = c /\ c \in Names
  BY <1>1, ThreadNames, ChatAssumption
<1>3. ASSUME sent[c] # 0
      PROVE  Text(c, sent[c]) \in Names
  <2>1. sent[c] \in Nat /\ Cardinality(Events) \in Nat /\ sent[c] <= Cardinality(Events)
    BY FS_CardinalityType DEF Base, TypeOK, Bounded
  <2>2. sent[c] \in 1 .. MaxEvents
    BY <1>3, <2>1, ChatAssumption DEF Base, Bounded
  <2> QED BY <2>2, ChatAssumption DEF Texts
<1> QED BY <1>2, <1>3 DEF Outgoing

(* Each step of the program is a step of the table, or leaves it alone.    *)
LEMMA TableRefines == ASSUME TypeOK, Next PROVE [TableNext]_tvars
<1>1. CASE ServeurMain
  <2>1. CASE ServeurTable
    <3>1. mess.content \in Names \cup {NoName}
      BY DEF TypeOK
    <3> QED BY <2>1, <3>1 DEF ServeurTable, TableNext, tables, tvars
  <2>2. CASE ~ServeurTable
    BY <1>1, <2>2 DEF ServeurMain, ServeurWait, ServeurTest, ServeurPost, ServeurIndex, ServeurType,
      ServeurContent, ServeurLoad, ServeurStore, Diffusion, ServeurDiffusion, ServeurOpen, DeliverWait,
      DeliverMessage, DeliverCount, DeliverPost, private, tables, tvars
  <2> QED BY <2>1, <2>2
<1>2. ASSUME NEW t \in Posters, Post(t) PROVE UNCHANGED tvars
  BY <1>2, PostFrame DEF tables, tvars
<1>3. ASSUME NEW c \in Clients, Demarre(c) PROVE UNCHANGED tvars
  BY <1>3 DEF Demarre, tables, tvars
<1>4. ASSUME NEW c \in Clients, Ecriture(c) PROVE UNCHANGED tvars
  BY <1>4, EcritureFrame DEF tables, tvars
<1>5. ASSUME NEW c \in Clients, Lecture(c) PROVE UNCHANGED tvars
  BY <1>5, LectureFrame DEF tables, tvars
<1>6. ASSUME NEW c \in Clients, SigIntTrt(c) PROVE UNCHANGED tvars
  BY <1>6, SigIntFrame DEF tables, tvars
<1> QED BY <1>1, <1>2, <1>3, <1>4, <1>5, <1>6 DEF Next

(* What TypeOK says of the places of the threads, and of the other variables. *)
PcType ==
    /\ pc \in [Threads -> Points]
    /\ \A c \in Clients : pc[W(c)] \in WPoints /\ pc[R(c)] \in RPoints /\ pc[H(c)] \in HPoints
    /\ pc[Serveur] \in SPoints
ShmType == shm \in [Clients \cup {Serveur} -> [read : Nat, write : Nat, nb : Nat, sem : Nat]]
DataType ==
    /\ messages \in [Index -> [type : 0 .. 3, content : Names \cup {NoName}]]
    /\ mess \in [type : 0 .. 3, content : Names \cup {NoName}]
    /\ sent \in [Clients -> Nat]
    /\ status \in [Clients -> {"off", "run", "main", "ecriture", "lecture", "exited"}]
    /\ linked \subseteq Clients
RegType == reg \in [Threads -> Nat] /\ i \in 0 .. MAX_USERS

(* Every step keeps the threads at their places,                           *)
LEMMA PcTypeStep == ASSUME TypeOK, Next PROVE PcType'
<1>1. PcType
  BY DEF TypeOK, PcType, Points
<1>2. CASE ServeurMain
  BY <1>1, <1>2, ServeurFrame, ThreadNames DEF PcType
<1>3. ASSUME NEW t \in Posters, Post(t) PROVE PcType'
  <2>1. PICK c \in Clients : t = W(c) \/ t = H(c)
    BY ThreadNames
  <2>2. pc'[t] \in WPoints /\ pc'[t] \in HPoints
    BY <1>3, PostFrame DEF Section, WPoints, HPoints
  <2>3. pc' \in [Threads -> Points] /\ \A u \in Threads \ {t} : pc'[u] = pc[u]
    BY <1>3, PostFrame
  <2> QED BY <1>1, <2>1, <2>2, <2>3, ThreadNames DEF PcType
<1>4. ASSUME NEW c \in Clients, Demarre(c) PROVE PcType'
  BY <1>1, <1>4 DEF Demarre, PcType
<1>5. ASSUME NEW c \in Clients, Ecriture(c) PROVE PcType'
  BY <1>1, <1>5, EcritureFrame, ThreadNames DEF PcType
<1>6. ASSUME NEW c \in Clients, Lecture(c) PROVE PcType'
  BY <1>1, <1>6, LectureFrame, ThreadNames DEF PcType
<1>7. ASSUME NEW c \in Clients, SigIntTrt(c) PROVE PcType'
  BY <1>1, <1>7, SigIntFrame, ThreadNames DEF PcType
<1> QED BY <1>2, <1>3, <1>4, <1>5, <1>6, <1>7 DEF Next

(* the counters of the segments natural numbers: the server subtracts 1    *)
(* from a write it saw above 0, a reader from one its load saw above 0,    *)
LEMMA ShmTypeStep == ASSUME Base, Next PROVE ShmType'
<1> USE ThreadNames DEF ShmType, SemWait, SemPost
<1>1. ShmType /\ reg \in [Threads -> Nat]
  BY DEF Base, TypeOK
<1>2. CASE ServeurMain
  <2> USE <1>1
  <2>1. ASSUME pc[Serveur] \in {"sem", "deliver", "count", "delivered"}
        PROVE  tabClient[i] \in Clients
    BY <2>1 DEF Base, ServeurOK
  <2>2. pc[Serveur] = "store" => reg[Serveur] > 0
    BY DEF Base, ServeurOK
  <2>3. CASE ServeurWait
    BY <2>3 DEF ServeurWait
  <2>4. CASE ServeurPost
    BY <2>4 DEF ServeurPost
  <2>5. CASE DeliverWait
    BY <2>1, <2>5 DEF DeliverWait, Goto
  <2>6. CASE DeliverCount
    BY <2>1, <2>6 DEF DeliverCount, Goto
  <2>7. CASE DeliverPost
    BY <2>1, <2>7 DEF DeliverPost, Goto
  <2>8. CASE ServeurStore
    BY <2>2, <2>8 DEF ServeurStore, Goto
  <2>9. CASE UNCHANGED shm
    BY <2>9
  <2> QED BY <1>2, <2>3, <2>4, <2>5, <2>6, <2>7, <2>8, <2>9 DEF ServeurMain, ServeurTest, ServeurIndex,
        ServeurType, ServeurContent, ServeurTable, Diffusion, ServeurDiffusion, ServeurOpen, DeliverMessage,
        ServeurLoad
<1>3. ASSUME NEW t \in Posters, Post(t) PROVE ShmType'
  BY <1>1, <1>3 DEF Post, PostIndex, PostType, PostContent, PostLoad, PostStore
<1>4. ASSUME NEW c \in Clients, Demarre(c) PROVE ShmType'
  BY <1>1, <1>4 DEF Demarre
<1>5. ASSUME NEW c \in Clients, Ecriture(c) PROVE ShmType'
  BY <1>1, <1>5 DEF Ecriture, EcritureWait, EcriturePost, EcritureScanf, EcritureOwn, EcritureRelease
<1>6. ASSUME NEW c \in Clients, Lecture(c) PROVE ShmType'
  <2>1. pc[R(c)] = "store" => reg[R(c)] > 0
    BY DEF Base, BoxReg
  <2>2. CASE LectureStore(c)
    BY <1>1, <2>1, <2>2 DEF LectureStore, Goto
  <2>3. CASE ~LectureStore(c)
    BY <1>1, <1>6, <2>3 DEF Lecture, LectureWait, LectureLoad, LecturePost
  <2> QED BY <2>2, <2>3
<1>7. ASSUME NEW c \in Clients, SigIntTrt(c) PROVE ShmType'
  BY <1>1, <1>7 DEF SigIntTrt, Sigint, SigintWait, SigintPost, SigintExit, private
<1> QED BY <1>2, <1>3, <1>4, <1>5, <1>6, <1>7 DEF Next

(* what is written and received messages,                                  *)
LEMMA DataTypeStep == ASSUME Base, Next PROVE DataType'
<1>1. DataType
  BY DEF Base, TypeOK, DataType
<1>2. CASE ServeurMain
  <2>1. UNCHANGED <<messages, sent, status, linked>>
    BY <1>2, ServeurFrame DEF Base
  <2>2. pc[Serveur] \in {"type", "content"} =>
            messages[reg[Serveur]] \in [type : 0 .. 3, content : Names \cup {NoName}]
    BY <1>1 DEF Base, IndexOK, DataType
  <2>3. CASE ServeurType
    BY <1>1, <2>1, <2>2, <2>3 DEF ServeurType, Goto, DataType
  <2>4. CASE ServeurContent
    BY <1>1, <2>1, <2>2, <2>4 DEF ServeurContent, Goto, DataType
  <2>5. CASE ServeurStore
    BY <1>1, <2>1, <2>5 DEF ServeurStore, Empty, DataType
  <2>6. CASE UNCHANGED mess
    BY <1>1, <2>1, <2>6 DEF DataType
  <2> QED BY <1>2, <2>3, <2>4, <2>5, <2>6 DEF ServeurMain, ServeurWait, ServeurTest, ServeurPost,
        ServeurIndex, ServeurTable, ServeurLoad, Diffusion, ServeurDiffusion, ServeurOpen, DeliverWait,
        DeliverMessage, DeliverCount, DeliverPost, private
<1>3. ASSUME NEW t \in Posters, Post(t) PROVE DataType'
  <2>1. Outgoing(t) \in [type : 1 .. 3, content : Names]
    BY OutgoingOK
  <2>2. UNCHANGED <<mess, sent, status, linked>>
    BY <1>3, PostFrame DEF Base
  <2> QED BY <1>1, <1>3, <2>1, <2>2 DEF Post, PostIndex, PostType, PostContent, PostLoad, PostStore,
        private, DataType
<1>4. ASSUME NEW c \in Clients, Demarre(c) PROVE DataType'
  BY <1>1, <1>4 DEF Demarre, DataType
<1>5. ASSUME NEW c \in Clients, Ecriture(c) PROVE DataType'
  <2>1. UNCHANGED <<messages, mess, status, linked>>
    BY <1>5, EcritureFrame DEF Base
  <2> QED BY <1>1, <1>5, <2>1 DEF DataType, Ecriture, EcritureWait, EcriturePost, EcritureScanf,
        EcritureOwn, EcritureRelease, private
<1>6. ASSUME NEW c \in Clients, Lecture(c) PROVE DataType'
  BY <1>1, <1>6, LectureFrame DEF Base, DataType
<1>7. ASSUME NEW c \in Clients, SigIntTrt(c) PROVE DataType'
  <2>1. UNCHANGED <<messages, mess, sent>>
    BY <1>7, SigIntFrame DEF Base
  <2> QED BY <1>1, <1>7, <2>1 DEF DataType, SigIntTrt, Sigint, SigintWait, SigintPost, SigintExit, private
<1> QED BY <1>2, <1>3, <1>4, <1>5, <1>6, <1>7 DEF Next

(* and the private registers numbers.                                      *)
LEMMA RegTypeStep == ASSUME Base, Next PROVE RegType'
<1> USE ThreadNames
<1>1. RegType /\ ShmType /\ MAX_USERS \in Nat
  BY TableAssumption DEF Base, TypeOK, RegType, ShmType
<1>2. CASE ServeurMain
  <2>1. CASE ServeurIndex
    <3>1. shm[Serveur].write > 0
      BY <2>1 DEF Base, ServeurOK, ServeurIndex, Goto
    <3> QED BY <1>1, <2>1, <3>1 DEF RegType, ShmType, ServeurIndex, private
  <2>2. CASE ServeurLoad
    BY <1>1, <2>2 DEF RegType, ShmType, ServeurLoad, private
  <2>3. CASE ServeurStore
    BY <1>1, <2>3 DEF RegType, ServeurStore
  <2>4. CASE ServeurDiffusion
    BY <1>1, <2>4 DEF RegType, ServeurDiffusion
  <2>5. CASE ServeurOpen
    BY <1>1, <2>5 DEF RegType, ServeurOpen, Holes, Used, Slots
  <2>6. CASE DeliverMessage
    <3>1. tabClient[i] \in Clients
      BY <2>6 DEF Base, ServeurOK, DeliverMessage, Goto
    <3> QED BY <1>1, <2>6, <3>1 DEF RegType, ShmType, DeliverMessage, private
  <2>7. CASE DeliverPost
    <3>1. i \in Used
      BY <2>7 DEF Base, ServeurOK, DeliverPost, Goto
    <3> QED BY <1>1, <2>7, <3>1 DEF RegType, DeliverPost, Used, Slots
  <2>8. CASE UNCHANGED <<reg, i>>
    BY <1>1, <2>8 DEF RegType
  <2> QED BY <1>2, <2>1, <2>2, <2>3, <2>4, <2>5, <2>6, <2>7, <2>8 DEF ServeurMain, ServeurWait, ServeurTest,
        ServeurPost, ServeurType, ServeurContent, ServeurTable, Diffusion, DeliverWait, DeliverCount, private
<1>3. ASSUME NEW t \in Posters, Post(t) PROVE RegType'
  BY <1>1, <1>3 DEF RegType, ShmType, Post, PostIndex, PostType, PostContent, PostLoad, PostStore, private
<1>4. ASSUME NEW c \in Clients, Demarre(c) PROVE RegType'
  BY <1>1, <1>4 DEF Demarre, RegType
<1>5. ASSUME NEW c \in Clients, Ecriture(c) PROVE RegType'
  BY <1>1, <1>5, EcritureFrame DEF Base, RegType
<1>6. ASSUME NEW c \in Clients, Lecture(c) PROVE RegType'
  <2>1. i' = i
    BY <1>6, LectureFrame DEF Base
  <2> QED BY <1>1, <1>6, <2>1 DEF RegType, ShmType, Lecture, LectureWait, LectureLoad, LectureStore,
        LecturePost, private
<1>7. ASSUME NEW c \in Clients, SigIntTrt(c) PROVE RegType'
  BY <1>1, <1>7, SigIntFrame DEF Base, RegType
<1> QED BY <1>2, <1>3, <1>4, <1>5, <1>6, <1>7 DEF Next

(* Every step keeps the types. *)
LEMMA TypeStep == ASSUME Base, Next PROVE TypeOK' /\ TableIInv'
<1>1. TableIInv'
  BY TableRefines, TableStepOK DEF Base
<1> QED BY <1>1, PcTypeStep, ShmTypeStep, DataTypeStep, RegTypeStep
      DEF Base, TypeOK, TableIInv, PcType, ShmType, DataType, RegType, Points

(* Every step keeps StatusOK.                                              *)
LEMMA StatusStep == ASSUME Base, Next PROVE \A c \in Clients : StatusOK(c)'
<1> USE ThreadNames DEF StatusOK
<1>1. TypeOK /\ \A c \in Clients : StatusOK(c)
  BY DEF Base
<1>2. CASE ServeurMain
  BY <1>1, <1>2, ServeurFrame
<1>3. ASSUME NEW t \in Posters, Post(t) PROVE \A c \in Clients : StatusOK(c)'
  <2>1. PICK d \in Clients : t = W(d) \/ t = H(d)
    OBVIOUS
  <2> QED BY <1>1, <1>3, <2>1, PostFrame DEF Runs
<1>4. ASSUME NEW d \in Clients, Demarre(d) PROVE \A c \in Clients : StatusOK(c)'
  BY <1>1, <1>4 DEF TypeOK, Demarre
<1>5. ASSUME NEW d \in Clients, Ecriture(d) PROVE \A c \in Clients : StatusOK(c)'
  <2>1. /\ \A t \in Threads \ {W(d)} : pc'[t] = pc[t]
        /\ UNCHANGED <<status, linked>>
        /\ \A c \in Clients \ {d} : sent'[c] = sent[c]
        /\ status[d] # "off"
    BY <1>1, <1>5, EcritureFrame DEF Runs
  <2>2. pc'[W(d)] # "wait" /\ (pc'[W(d)] \in {"own", "last"} => sent'[d] > 0)
    <3> USE <1>1 DEF TypeOK, Goto, WPoints, Section
    <3>1. CASE EcritureWait(d)
      BY <3>1 DEF EcritureWait
    <3>2. CASE EcriturePost(d)
      BY <3>2 DEF EcriturePost
    <3>3. CASE EcritureScanf(d)
      BY <3>3 DEF EcritureScanf
    <3>4. CASE EcritureOwn(d)
      BY <3>4 DEF EcritureOwn
    <3>5. CASE EcritureRelease(d)
      BY <3>5 DEF EcritureRelease, private
    <3> QED BY <1>5, <3>1, <3>2, <3>3, <3>4, <3>5 DEF Ecriture
  <2> QED BY <1>1, <2>1, <2>2
<1>6. ASSUME NEW d \in Clients, Lecture(d) PROVE \A c \in Clients : StatusOK(c)'
  BY <1>1, <1>6, LectureFrame DEF Runs
<1>7. ASSUME NEW d \in Clients, SigIntTrt(d) PROVE \A c \in Clients : StatusOK(c)'
  <2>1. /\ \A t \in Threads \ {H(d)} : pc'[t] = pc[t]
        /\ sent' = sent
        /\ \A c \in Clients \ {d} : status'[c] = status[c] /\ (c \in linked' <=> c \in linked)
    BY <1>1, <1>7, SigIntFrame
  <2>2. StatusOK(d)'
    <3> USE <1>1, <2>1 DEF TypeOK, Goto
    <3>1. CASE Sigint(d)
      BY <3>1 DEF Sigint
    <3>2. CASE SigintWait(d)
      BY <3>2 DEF SigintWait, Handles, private
    <3>3. CASE SigintPost(d)
      BY <3>3 DEF SigintPost, private
    <3>4. CASE SigintExit(d)
      BY <3>4 DEF SigintExit
    <3> QED BY <1>7, <3>1, <3>2, <3>3, <3>4 DEF SigIntTrt
  <2> QED BY <1>1, <2>1, <2>2
<1> QED BY <1>2, <1>3, <1>4, <1>5, <1>6, <1>7 DEF Next

(* Every step keeps ServeurOK: only the server changes the table, and      *)
(* nobody but the server decreases the write of its segment.               *)
LEMMA ServeurStep == ASSUME Base, Next PROVE ServeurOK'
<1> USE ThreadNames DEF ServeurOK
<1>1. TypeOK /\ ServeurOK /\ MAX_USERS \in Nat
  BY TableAssumption DEF Base
<1>2. CASE ServeurMain
  <2> USE <1>1 DEF TypeOK, Goto, private, SemWait, SemPost
  <2>1. CASE ServeurWait
    BY <2>1 DEF ServeurWait
  <2>2. CASE ServeurTest
    BY <2>2 DEF ServeurTest
  <2>3. CASE ServeurPost
    BY <2>3 DEF ServeurPost
  <2>4. CASE ServeurIndex
    BY <2>4 DEF ServeurIndex
  <2>5. CASE ServeurType
    BY <2>5 DEF ServeurType
  <2>6. CASE ServeurContent
    BY <2>6 DEF ServeurContent
  <2>7. CASE ServeurTable
    BY <2>7 DEF ServeurTable
  <2>8. CASE ServeurDiffusion
    BY <2>8 DEF ServeurDiffusion
  <2>9. CASE ServeurOpen
    <3>1. pc'[Serveur] = "sem" => i' \in Used' /\ tabClient'[i'] \in Clients
      BY <2>9 DEF ServeurOpen, Used, tables
    <3>2. pc'[Serveur] \in {"load", "open", "sem", "exited"} /\ shm' = shm /\ pc[Serveur] = "open"
      BY <2>9 DEF ServeurOpen
    <3> QED BY <3>1, <3>2
  <2>10. CASE DeliverWait
    BY <2>10 DEF DeliverWait, tables, Used
  <2>11. CASE DeliverMessage
    BY <2>11 DEF DeliverMessage, tables, Used
  <2>12. CASE DeliverCount
    BY <2>12 DEF DeliverCount, tables, Used
  <2>13. CASE DeliverPost
    BY <2>13 DEF DeliverPost
  <2>14. CASE ServeurLoad
    BY <2>14 DEF ServeurLoad
  <2>15. CASE ServeurStore
    BY <2>15 DEF ServeurStore
  <2> QED BY <1>2, <2>1, <2>2, <2>3, <2>4, <2>5, <2>6, <2>7, <2>8, <2>9, <2>10, <2>11, <2>12, <2>13,
        <2>14, <2>15 DEF ServeurMain, Diffusion
<1>3. ASSUME NEW t \in Posters, Post(t) PROVE ServeurOK'
  <2>1. /\ pc'[Serveur] = pc[Serveur] /\ reg'[Serveur] = reg[Serveur]
        /\ UNCHANGED <<tables, i>>
    BY <1>1, <1>3, PostFrame
  <2>2. shm[Serveur].write > 0 => shm'[Serveur].write > 0
    BY <1>1, <1>3 DEF TypeOK, Post, PostIndex, PostType, PostContent, PostLoad, PostStore
  <2> QED BY <1>1, <2>1, <2>2 DEF tables, Used
<1>4. ASSUME NEW c \in Clients, Demarre(c) PROVE ServeurOK'
  BY <1>1, <1>4 DEF Demarre, tables, Used
<1>5. ASSUME NEW c \in Clients, Ecriture(c) PROVE ServeurOK'
  BY <1>1, <1>5, EcritureFrame DEF tables, Used
<1>6. ASSUME NEW c \in Clients, Lecture(c) PROVE ServeurOK'
  BY <1>1, <1>6, LectureFrame DEF tables, Used
<1>7. ASSUME NEW c \in Clients, SigIntTrt(c) PROVE ServeurOK'
  BY <1>1, <1>7, SigIntFrame DEF tables, Used
<1> QED BY <1>2, <1>3, <1>4, <1>5, <1>6, <1>7 DEF Next

(* An event happens once, and the message it announces is posted once.     *)
LEMMA DemarreCounts ==
  ASSUME Base, NEW c \in Clients, Demarre(c)
  PROVE  /\ Events' = Events \cup {<<c, 0>>} /\ <<c, 0>> \notin Events
         /\ Pending' = Pending \cup {W(c)}
<1> USE ThreadNames
<1>1. /\ status' = [status EXCEPT ![c] = "run"] /\ status[c] = "off"
      /\ UNCHANGED <<pc, sent>>
  BY DEF Demarre
<1>2. status \in [Clients -> {"off", "run", "main", "ecriture", "lecture", "exited"}]
  BY DEF Base, TypeOK
<1>3. pc[W(c)] = "wait" /\ sent \in [Clients -> Nat] /\ MaxEvents \in Nat
  BY <1>1, ChatAssumption DEF Base, StatusOK, TypeOK
<1>4. Events' = Events \cup {<<c, 0>>} /\ <<c, 0>> \notin Events
  BY <1>1, <1>2, <1>3 DEF Events, Event
<1>5. Pending' = Pending \cup {W(c)}
  BY <1>1, <1>2, <1>3 DEF Pending
<1> QED BY <1>4, <1>5

(* So does a SIGINT,                                                       *)
LEMMA SigintCounts ==
  ASSUME Base, NEW c \in Clients, Sigint(c)
  PROVE  /\ Events' = Events \cup {<<c, -1>>} /\ <<c, -1>> \notin Events
         /\ Pending' = Pending \cup {H(c)}
<1> USE ThreadNames
<1>1. /\ status[c] = "run" /\ UNCHANGED <<pc, sent>>
      /\ \A d \in Clients \ {c} : status'[d] = status[d]
      /\ status'[c] \in {"main", "ecriture", "lecture"}
  BY DEF Sigint, Base, TypeOK
<1>2. pc[H(c)] = "wait" /\ sent \in [Clients -> Nat] /\ MaxEvents \in Nat
  BY <1>1, ChatAssumption DEF Base, StatusOK, TypeOK
<1>4. Events' = Events \cup {<<c, -1>>} /\ <<c, -1>> \notin Events
  BY <1>1, <1>2 DEF Events, Event
<1>5. Pending' = Pending \cup {H(c)}
  BY <1>1, <1>2 DEF Pending
<1> QED BY <1>4, <1>5

(* and a text typed.                                                       *)
LEMMA ScanfCounts ==
  ASSUME Base, NEW c \in Clients, EcritureScanf(c)
  PROVE  /\ Events' = Events \cup {<<c, sent[c] + 1>>} /\ <<c, sent[c] + 1>> \notin Events
         /\ Pending' = Pending \cup {W(c)}
<1> USE ThreadNames
<1>1. /\ status' = status /\ status[c] # "off" 
      /\ sent' = [sent EXCEPT ![c] = @ + 1]
      /\ pc[W(c)] = "scanf" /\ pc' = [pc EXCEPT ![W(c)] = "own"]
      /\ sent \in [Clients -> Nat]
      /\ DOMAIN pc = Threads
  BY DEF EcritureScanf, Runs, Goto, Base, TypeOK
<1>2. sent[c] + 1 \in 1 .. MaxEvents
  <2>1. /\ Cardinality(Events) \in Nat /\ MaxEvents \in Nat /\ Cardinality(Events) < MaxEvents
        /\ sent[c] <= Cardinality(Events)
    BY ChatAssumption, FS_CardinalityType DEF EcritureScanf, Bound, Base, Bounded
  <2> QED BY <1>1, <2>1
<1>3. \A d \in Clients, k \in -1 .. MaxEvents :
          Event(d, k)' <=> Event(d, k) \/ (d = c /\ k = sent[c] + 1)
  <2> SUFFICES ASSUME NEW d \in Clients, NEW k \in -1 .. MaxEvents
               PROVE  Event(d, k)' <=> Event(d, k) \/ (d = c /\ k = sent[c] + 1)
    OBVIOUS
  <2> DEFINE n == sent[c]
  <2>0. n \in Nat /\ k \in Int /\ sent'[c] = n + 1
    BY <1>1, ChatAssumption
  <2>1. CASE d = c
    <3>1. k \in 1 .. n + 1 <=> k \in 1 .. n \/ k = n + 1
      BY <2>0
    <3> QED BY <1>1, <2>0, <2>1, <3>1 DEF Event
  <2>2. CASE d # c
    BY <1>1, <2>2 DEF Event
  <2> QED BY <2>1, <2>2
<1>4. Events' = Events \cup {<<c, sent[c] + 1>>} /\ <<c, sent[c] + 1>> \notin Events
  <2>1. <<c, sent[c] + 1>> \notin Events
    BY <1>1 DEF Events, Event
  <2>2. <<c, sent[c] + 1>> \in Clients \X (-1 .. MaxEvents)
    BY <1>2
  <2> QED BY <1>3, <2>1, <2>2 DEF Events
<1>5. Pending' = Pending \cup {W(c)}
  BY <1>1, <1>2 DEF Pending
<1> QED BY <1>4, <1>5

(* A message posted is no more to post.                                    *)
LEMMA StoreCounts ==
  ASSUME Base, NEW t \in Posters, PostStore(t)
  PROVE  /\ Events' = Events
         /\ Pending' = Pending \ {t} /\ t \in Pending
<1> USE ThreadNames
<1>1. /\ UNCHANGED <<status, sent>>
      /\ pc[t] = "store" /\ pc' = [pc EXCEPT ![t] = "posted"]
      /\ DOMAIN pc = Threads
  BY DEF PostStore, private, Goto, Base, TypeOK
<1>2. status[t[1]] # "off" /\ (t[2] = "sigint" => status[t[1]] # "run")
  <2>1. PICK c \in Clients : t = W(c) \/ t = H(c)
    OBVIOUS
  <2> QED BY <1>1, <2>1 DEF Base, StatusOK
<1>4. Events' = Events
  BY <1>1 DEF Events, Event
<1>5. Pending' = Pending \ {t} /\ t \in Pending
  BY <1>1, <1>2 DEF Pending
<1> QED BY <1>4, <1>5

(* Any other step neither counts an event nor posts a message.             *)
LEMMA OthersCount ==
  ASSUME Base, Next,
         \A c \in Clients : ~Demarre(c) /\ ~Sigint(c) /\ ~EcritureScanf(c),
         \A t \in Posters : ~PostStore(t)
  PROVE  Events' = Events /\ Pending' = Pending
<1> USE ThreadNames
<1>0. TypeOK /\ DOMAIN pc = Threads /\ \A c \in Clients : StatusOK(c)
  BY DEF Base, TypeOK
<1>1. UNCHANGED <<sent, status>> => Events' = Events
  BY DEF Events, Event
<1>2. ASSUME UNCHANGED status, \A t \in Posters : pc'[t] = pc[t]
      PROVE  Pending' = Pending
  BY <1>2 DEF Pending
<1>3. CASE ServeurMain
  BY <1>0, <1>1, <1>2, <1>3, ServeurFrame
<1>4. ASSUME NEW t \in Posters, Post(t) PROVE Events' = Events /\ Pending' = Pending
  <2>1. UNCHANGED <<sent, status>> /\ \A u \in Threads \ {t} : pc'[u] = pc[u]
    BY <1>0, <1>4, PostFrame
  <2>2. /\ pc[t] \in {"index", "type", "content", "load"}
        /\ pc'[t] \in {"type", "content", "load", "store"}
    BY <1>0, <1>4 DEF Post, PostIndex, PostType, PostContent, PostLoad, Goto
  <2> QED BY <1>1, <2>1, <2>2 DEF Pending
<1>5. ASSUME NEW c \in Clients, Ecriture(c) PROVE Events' = Events /\ Pending' = Pending
  <2>1. UNCHANGED status /\ \A u \in Threads \ {W(c)} : pc'[u] = pc[u]
    BY <1>0, <1>5, EcritureFrame
  <2>2. /\ UNCHANGED sent
        /\ \/ pc[W(c)] \in {"wait", "own"} /\ pc'[W(c)] = "index"
           \/ pc[W(c)] \in {"posted", "last"} /\ pc'[W(c)] \in {"scanf", "last"}
    BY <1>0, <1>5 DEF Ecriture, EcritureWait, EcriturePost, EcritureOwn, EcritureRelease, Goto, private
  <2> QED BY <1>1, <2>1, <2>2 DEF Pending
<1>6. ASSUME NEW c \in Clients, Lecture(c) PROVE Events' = Events /\ Pending' = Pending
  BY <1>0, <1>1, <1>2, <1>6, LectureFrame
<1>7. ASSUME NEW c \in Clients, SigIntTrt(c) PROVE Events' = Events /\ Pending' = Pending
  <2>1. UNCHANGED sent /\ \A u \in Threads \ {H(c)} : pc'[u] = pc[u]
    BY <1>0, <1>7, SigIntFrame
  <2>2. CASE SigintWait(c)
    <3>1. pc[H(c)] = "wait" /\ pc'[H(c)] = "index" /\ UNCHANGED status
      BY <1>0, <2>2 DEF SigintWait, Goto, private
    <3> QED BY <1>1, <2>1, <3>1 DEF Pending
  <2>3. CASE SigintPost(c)
    <3>1. pc[H(c)] = "posted" /\ pc'[H(c)] = "unlink" /\ UNCHANGED status
      BY <1>0, <2>3 DEF SigintPost, Goto, private
    <3> QED BY <1>1, <2>1, <3>1 DEF Pending
  <2>4. CASE SigintExit(c)
    <3>1. /\ pc[H(c)] = "unlink" /\ pc'[H(c)] = "exited"
          /\ status' = [status EXCEPT ![c] = "exited"]
          /\ status[c] \notin {"off", "run", "exited"} /\ DOMAIN status = Clients
      BY <1>0, <2>4 DEF SigintExit, Goto, StatusOK, TypeOK
    <3>2. \A d \in Clients, k \in -1 .. MaxEvents : Event(d, k)' <=> Event(d, k)
      BY <2>1, <3>1 DEF Event
    <3>3. Events' = Events
      BY <3>2 DEF Events
    <3>4. \A u \in Posters : u \in Pending' <=> u \in Pending
      BY <2>1, <3>1 DEF Pending
    <3> QED BY <3>3, <3>4 DEF Pending
  <2> QED BY <1>7, <2>2, <2>3, <2>4 DEF SigIntTrt
<1> QED BY <1>3, <1>4, <1>5, <1>6, <1>7 DEF Next

(* What is posted and not treated, with what is still to be posted, never  *)
(* exceeds the events.                                                     *)
LEMMA BoundedStep == ASSUME Base, Next PROVE Bounded'
<1> USE ThreadNames DEF Bounded
<1> DEFINE E == Cardinality(Events)
           P == Cardinality(Pending)
<1>0. TypeOK /\ TypeOK' /\ Bounded /\ ServeurOK
  BY TypeStep DEF Base
<1>1. E \in Nat /\ P \in Nat /\ MaxEvents \in Nat
  BY <1>0, FS_CardinalityType, ChatAssumption
<1> DEFINE OneMore == /\ IsFiniteSet(Events') /\ E' = E + 1
                      /\ IsFiniteSet(Pending') /\ P' \in Nat /\ P' <= P + 1
<1>a. ASSUME NEW e, NEW t, Events' = Events \cup {e}, e \notin Events, Pending' = Pending \cup {t}
      PROVE  OneMore
  <2>1. IsFiniteSet(Events') /\ E' = E + 1
    BY <1>0, <1>a, FS_AddElement
  <2>2. IsFiniteSet(Pending') /\ (P' = P \/ P' = P + 1)
    BY <1>0, <1>a, FS_AddElement
  <2> QED BY <1>1, <2>1, <2>2
<1>2. ASSUME OneMore, Bound, UNCHANGED <<shm, reg>>,
             \A u \in Threads : pc'[u] = "store" => pc[u] = "store",
             \A c \in Clients : sent'[c] <= E + 1
      PROVE  Bounded'
  <2>1. E < MaxEvents
    BY <1>2 DEF Bound
  <2>2. ASSUME NEW u \in Posters \cup {Serveur}, pc'[u] = "store" PROVE reg'[u] + P' <= E'
    <3>1. u \in Threads /\ reg'[u] = reg[u] /\ reg[u] \in Nat /\ pc[u] = "store"
      BY <1>0, <1>2, <2>2 DEF TypeOK
    <3>2. reg[u] + P <= E
      BY <1>0, <3>1
    <3> QED BY <1>1, <1>2, <3>1, <3>2
  <2>3. shm'[Serveur].write + P' <= E'
    BY <1>0, <1>1, <1>2 DEF TypeOK
  <2> QED BY <1>1, <1>2, <2>1, <2>2, <2>3
<1>3. ASSUME NEW c \in Clients, Demarre(c) PROVE Bounded'
  <2>1. Bound /\ UNCHANGED <<shm, reg, pc, sent>>
    BY <1>3 DEF Demarre
  <2>2. \A d \in Clients : sent'[d] <= E + 1
    BY <1>0, <1>1, <2>1 DEF TypeOK
  <2>3. OneMore
    BY <1>3, <1>a, DemarreCounts
  <2> QED BY <1>2, <2>1, <2>2, <2>3
<1>4. ASSUME NEW c \in Clients, Sigint(c) PROVE Bounded'
  <2>1. Bound /\ UNCHANGED <<shm, reg, pc, sent>>
    BY <1>4 DEF Sigint
  <2>2. \A d \in Clients : sent'[d] <= E + 1
    BY <1>0, <1>1, <2>1 DEF TypeOK
  <2>3. OneMore
    BY <1>4, <1>a, SigintCounts
  <2> QED BY <1>2, <2>1, <2>2, <2>3
<1>5. ASSUME NEW c \in Clients, EcritureScanf(c) PROVE Bounded'
  <2>1. /\ Bound /\ UNCHANGED <<shm, reg>>
        /\ pc' = [pc EXCEPT ![W(c)] = "own"] /\ sent' = [sent EXCEPT ![c] = @ + 1]
    BY <1>5 DEF EcritureScanf, Goto
  <2>2. \A d \in Clients : sent'[d] <= E + 1
    BY <1>0, <1>1, <2>1 DEF TypeOK
  <2>3. \A u \in Threads : pc'[u] = "store" => pc[u] = "store"
    BY <1>0, <2>1 DEF TypeOK
  <2>4. OneMore
    BY <1>5, <1>a, ScanfCounts
  <2> QED BY <1>2, <2>1, <2>2, <2>3, <2>4
<1>6. ASSUME NEW t \in Posters, PostStore(t) PROVE Bounded'
  <2>1. /\ pc[t] = "store" /\ pc' = [pc EXCEPT ![t] = "posted"]
        /\ shm' = [shm EXCEPT ![Serveur].write = reg[t] + 1]
        /\ reg' = [reg EXCEPT ![t] = 0] /\ UNCHANGED sent
    BY <1>6 DEF PostStore, Goto, private
  <2>2. Events' = Events /\ IsFiniteSet(Pending') /\ P' = P - 1
    BY <1>0, <1>6, StoreCounts, FS_RemoveElement
  <2>3. shm'[Serveur].write = reg[t] + 1 /\ reg[t] + P <= E /\ reg[t] \in Nat
    BY <1>0, <2>1 DEF TypeOK
  <2>4. ASSUME NEW u \in Posters \cup {Serveur}, pc'[u] = "store" PROVE reg'[u] + P' <= E
    <3>1. u \in Threads /\ reg'[u] = reg[u] /\ reg[u] \in Nat /\ pc[u] = "store"
      BY <1>0, <2>1, <2>4 DEF TypeOK
    <3>2. reg[u] + P <= E
      BY <1>0, <3>1
    <3> QED BY <1>1, <2>2, <3>1, <3>2
  <2> QED BY <1>0, <1>1, <2>1, <2>2, <2>3, <2>4 DEF TypeOK
<1>7. ASSUME \A c \in Clients : ~Demarre(c) /\ ~Sigint(c) /\ ~EcritureScanf(c),
             \A t \in Posters : ~PostStore(t)
      PROVE  Bounded'
  <2>1. Events' = Events /\ Pending' = Pending
    BY <1>7, OthersCount
  <2>2. UNCHANGED sent
    <3>1. ASSUME NEW c \in Clients, Ecriture(c) PROVE UNCHANGED sent
      BY <1>7, <3>1 DEF Ecriture, EcritureWait, EcriturePost, EcritureOwn, EcritureRelease, private
    <3> QED BY <1>0, <1>7, <3>1, ServeurFrame, PostFrame, LectureFrame, SigIntFrame DEF Next
  <2>3. \/ shm'[Serveur].write = shm[Serveur].write
        \/ pc[Serveur] = "store" /\ shm'[Serveur].write = reg[Serveur] - 1
    <3> USE <1>0
    <3>1. CASE ServeurMain
      <4>1. CASE ServeurStore
        BY <4>1 DEF ServeurStore, Goto, TypeOK
      <4>2. CASE DeliverWait \/ DeliverCount \/ DeliverPost
        <5>1. tabClient[i] \in Clients
          BY <4>2 DEF ServeurOK, DeliverWait, DeliverCount, DeliverPost, Goto
        <5> QED BY <4>2, <5>1 DEF DeliverWait, DeliverCount, DeliverPost, SemWait, TypeOK
      <4>3. CASE ServeurWait \/ ServeurPost
        BY <4>3 DEF ServeurWait, ServeurPost, SemWait, SemPost, TypeOK
      <4> QED BY <3>1, <4>1, <4>2, <4>3 DEF ServeurMain, Diffusion, ServeurTest, ServeurIndex, ServeurType,
            ServeurContent, ServeurTable, ServeurDiffusion, ServeurOpen, DeliverMessage, ServeurLoad
    <3>2. ASSUME NEW t \in Posters, Post(t) PROVE UNCHANGED shm
      BY <1>7, <3>2 DEF Post, PostIndex, PostType, PostContent, PostLoad
    <3>3. ASSUME NEW c \in Clients, Lecture(c) PROVE shm'[Serveur] = shm[Serveur]
      BY <3>3, LectureFrame
    <3> QED BY <1>7, <3>1, <3>2, <3>3, EcritureFrame, SigIntFrame DEF Next
  <2>4. ASSUME NEW t \in Posters \cup {Serveur}, pc'[t] = "store"
        PROVE  reg'[t] = shm[Serveur].write \/ (pc[t] = "store" /\ reg'[t] = reg[t])
    <3> USE <1>0
    <3>1. CASE ServeurMain
      <4>1. CASE t = Serveur
        <5>1. ServeurLoad
          BY <2>4, <3>1, <4>1 DEF ServeurMain, Diffusion, ServeurWait, ServeurTest, ServeurPost, ServeurIndex,
            ServeurType, ServeurContent, ServeurTable, ServeurDiffusion, ServeurOpen, DeliverWait,
            DeliverMessage, DeliverCount, DeliverPost, ServeurStore, Goto, TypeOK
        <5> QED BY <4>1, <5>1 DEF ServeurLoad, TypeOK
      <4>2. CASE t # Serveur
        BY <2>4, <3>1, <4>2, ServeurFrame
      <4> QED BY <4>1, <4>2
    <3>2. ASSUME NEW u \in Posters, Post(u)
          PROVE  reg'[t] = shm[Serveur].write \/ (pc[t] = "store" /\ reg'[t] = reg[t])
      <4>1. CASE u = t
        BY <2>4, <3>2, <4>1 DEF Post, PostIndex, PostType, PostContent, PostLoad, PostStore, Goto, TypeOK
      <4>2. CASE u # t
        BY <2>4, <3>2, <4>2, PostFrame
      <4> QED BY <4>1, <4>2
    <3>3. ASSUME NEW c \in Clients, Demarre(c) PROVE UNCHANGED <<pc, reg>>
      BY <3>3 DEF Demarre
    <3>4. ASSUME NEW c \in Clients, Ecriture(c) PROVE pc[t] = "store" /\ reg' = reg
      <4>1. pc'[W(c)] # "store"
        BY <3>4 DEF Ecriture, EcritureWait, EcriturePost, EcritureScanf, EcritureOwn, EcritureRelease, Goto, TypeOK
      <4> QED BY <2>4, <3>4, <4>1, EcritureFrame
    <3>5. ASSUME NEW c \in Clients, Lecture(c) PROVE pc[t] = "store" /\ reg'[t] = reg[t]
      <4>1. t # R(c)
        OBVIOUS
      <4> QED BY <2>4, <3>5, <4>1, LectureFrame
    <3>6. ASSUME NEW c \in Clients, SigIntTrt(c) PROVE pc[t] = "store" /\ reg' = reg
      <4>1. pc'[H(c)] # "store"
        BY <3>6, SigIntFrame DEF SigIntTrt, Sigint, SigintWait, SigintPost, SigintExit, Goto, TypeOK, HPoints,
          StatusOK, Base
      <4> QED BY <2>4, <3>6, <4>1, SigIntFrame
    <3> QED BY <2>4, <3>1, <3>2, <3>3, <3>4, <3>5, <3>6 DEF Next
  <2>5. shm'[Serveur].write + P <= E
    <3>1. shm[Serveur].write \in Nat /\ reg[Serveur] \in Nat
      BY <1>0 DEF TypeOK
    <3> QED BY <1>0, <1>1, <2>3, <3>1
  <2>6. ASSUME NEW t \in Posters \cup {Serveur}, pc'[t] = "store" PROVE reg'[t] + P <= E
    BY <1>0, <1>1, <2>4, <2>6
  <2> QED BY <1>0, <2>1, <2>2, <2>5, <2>6
<1> QED BY <1>3, <1>4, <1>5, <1>6, <1>7

(* Every step keeps the indices inside messages, by Bounded.               *)
LEMMA IndexStep == ASSUME Base, Next PROVE IndexOK'
<1> USE ThreadNames DEF IndexOK
<1>0. TypeOK /\ IndexOK /\ Bounded /\ ServeurOK
  BY DEF Base
<1>1. shm[Serveur].write \in Index
  <2>1. shm[Serveur].write \in Nat /\ MaxEvents \in Nat
    BY <1>0, ChatAssumption DEF TypeOK
  <2>2. Cardinality(Events) \in Nat /\ Cardinality(Pending) \in Nat
    BY <1>0, FS_CardinalityType DEF Bounded
  <2> QED BY <1>0, <2>1, <2>2 DEF Bounded, Index, MaxMess
<1>2. CASE ServeurMain
  <2>1. pc'[Serveur] \in {"type", "content"} => reg'[Serveur] \in Index
    <3>1. CASE ServeurIndex
      <4>1. shm[Serveur].write > 0 /\ MaxEvents \in Nat
        BY <1>0, <3>1, ChatAssumption DEF ServeurIndex, Goto, ServeurOK
      <4> QED BY <1>0, <1>1, <3>1, <4>1 DEF ServeurIndex, TypeOK, Index, MaxMess
    <3>2. CASE ServeurType
      BY <1>0, <3>2 DEF ServeurType, Goto
    <3> QED BY <1>0, <1>2, <3>1, <3>2 DEF ServeurMain, Diffusion, ServeurWait, ServeurTest, ServeurPost,
            ServeurContent, ServeurTable, ServeurDiffusion, ServeurOpen, DeliverWait,
            DeliverMessage, DeliverCount, DeliverPost, ServeurLoad, ServeurStore, Goto, TypeOK
  <2> QED BY <1>0, <1>2, <2>1, ServeurFrame
<1>3. ASSUME NEW t \in Posters, Post(t) PROVE IndexOK'
  <2>1. pc'[t] \in {"type", "content"} => reg'[t] \in Index
    BY <1>0, <1>1, <1>3 DEF Post, PostIndex, PostType, PostContent, PostLoad, PostStore, Goto, TypeOK
  <2> QED BY <1>0, <1>3, <2>1, PostFrame
<1>4. ASSUME NEW c \in Clients, Demarre(c) PROVE IndexOK'
  BY <1>0, <1>4 DEF Demarre
<1>5. ASSUME NEW c \in Clients, Ecriture(c) PROVE IndexOK'
  <2>1. pc'[W(c)] \notin {"type", "content"}
    BY <1>0, <1>5 DEF Ecriture, EcritureWait, EcriturePost, EcritureScanf, EcritureOwn, EcritureRelease, Goto, TypeOK
  <2> QED BY <1>0, <1>5, <2>1, EcritureFrame
<1>6. ASSUME NEW c \in Clients, Lecture(c) PROVE IndexOK'
  BY <1>0, <1>6, LectureFrame
<1>7. ASSUME NEW c \in Clients, SigIntTrt(c) PROVE IndexOK'
  <2>1. pc'[H(c)] \notin {"type", "content"} \/ pc'[H(c)] = pc[H(c)]
    BY <1>0, <1>7 DEF SigIntTrt, Sigint, SigintWait, SigintPost, SigintExit, Goto, TypeOK
  <2> QED BY <1>0, <1>7, <2>1, SigIntFrame
<1> QED BY <1>2, <1>3, <1>4, <1>5, <1>6, <1>7 DEF Next

(* BoxExclusion, said of one client by the places of its threads.          *)
WIn(c) == sent[c] > 0 /\ pc[W(c)] \in Section
RIn(c) == pc[R(c)] \in {"load", "store", "post"}
SIn(c) == pc[Serveur] \in {"deliver", "count", "delivered"} /\ tabClient[i] = c
OneIn(c) ==
    /\ shm[c].sem \in {0, 1}
    /\ shm[c].sem = 0 <=> WIn(c) \/ RIn(c) \/ SIn(c)
    /\ ~(WIn(c) /\ RIn(c)) /\ ~(WIn(c) /\ SIn(c)) /\ ~(RIn(c) /\ SIn(c))

(* OneIn says the same as BoxExclusion.                                    *)
LEMMA OneInIsExclusion == BoxExclusion <=> \A c \in Clients : OneIn(c)
<1> USE ThreadNames
<1>1. ASSUME NEW c \in Clients
      PROVE  /\ W(c) \in Inside(c) <=> WIn(c)
             /\ R(c) \in Inside(c) <=> RIn(c)
             /\ Serveur \in Inside(c) <=> SIn(c)
             /\ \A t \in Inside(c) : t \in {W(c), R(c), Serveur}
  BY DEF Inside, WIn, RIn, SIn
<1>2. ASSUME NEW c \in Clients
      PROVE  OneIn(c) <=> /\ shm[c].sem \in {0, 1}
                          /\ shm[c].sem = 0 <=> Inside(c) # {}
                          /\ \A s, t \in Inside(c) : s = t
  <2>1. Inside(c) # {} <=> WIn(c) \/ RIn(c) \/ SIn(c)
    BY <1>1
  <2>2. (\A s, t \in Inside(c) : s = t) <=>
           ~(WIn(c) /\ RIn(c)) /\ ~(WIn(c) /\ SIn(c)) /\ ~(RIn(c) /\ SIn(c))
    BY <1>1
  <2> QED BY <2>1, <2>2 DEF OneIn
<1> QED BY <1>2 DEF BoxExclusion

(* Every step keeps the exclusion on the segments of the clients.          *)
LEMMA ExclusionStep == ASSUME Base, Next PROVE BoxExclusion'
<1> USE ThreadNames
<1>0. TypeOK /\ ServeurOK /\ BoxReg /\ \A c \in Clients : StatusOK(c) /\ OneIn(c)
  BY OneInIsExclusion DEF Base
<1>s. (\A c \in Clients : OneIn(c))' => BoxExclusion'
  BY OneInIsExclusion, PTL
<1> SUFFICES ASSUME NEW c \in Clients PROVE OneIn(c)'
  BY <1>s
<1>1. CASE ServeurMain
  <2>1. (WIn(c)' <=> WIn(c)) /\ (RIn(c)' <=> RIn(c))
    BY <1>0, <1>1, ServeurFrame DEF WIn, RIn
  <2>2. CASE DeliverWait
    <3>1. tabClient[i] \in Clients
      BY <1>0, <2>2 DEF ServeurOK, DeliverWait, Goto
    <3> QED BY <1>0, <2>1, <2>2, <3>1 DEF DeliverWait, Goto, SemWait, private, tables, OneIn, SIn, TypeOK
  <2>3. CASE DeliverMessage
    BY <1>0, <2>1, <2>3 DEF DeliverMessage, Goto, private, tables, OneIn, SIn, TypeOK
  <2>4. CASE DeliverCount
    <3>1. tabClient[i] \in Clients
      BY <1>0, <2>4 DEF ServeurOK, DeliverCount, Goto
    <3> QED BY <1>0, <2>1, <2>4, <3>1 DEF DeliverCount, Goto, private, tables, OneIn, SIn, TypeOK
  <2>5. CASE DeliverPost
    <3>1. tabClient[i] \in Clients
      BY <1>0, <2>5 DEF ServeurOK, DeliverPost, Goto
    <3> QED BY <1>0, <2>1, <2>5, <3>1 DEF DeliverPost, Goto, private, tables, OneIn, SIn, TypeOK
  <2>6. CASE ~(DeliverWait \/ DeliverMessage \/ DeliverCount \/ DeliverPost)
    <3>1. shm'[c].sem = shm[c].sem
      BY <1>0, <1>1, <2>6 DEF ServeurMain, Diffusion, ServeurWait, ServeurTest, ServeurPost, ServeurIndex,
            ServeurType, ServeurContent, ServeurTable, ServeurDiffusion, ServeurOpen, ServeurLoad,
            ServeurStore, SemWait, SemPost, TypeOK
    <3>2. ~SIn(c) /\ ~SIn(c)'
      BY <1>0, <1>1, <2>6 DEF ServeurMain, Diffusion, ServeurWait, ServeurTest, ServeurPost, ServeurIndex,
            ServeurType, ServeurContent, ServeurTable, ServeurDiffusion, ServeurOpen, ServeurLoad,
            ServeurStore, Goto, TypeOK, SIn
    <3> QED BY <1>0, <2>1, <3>1, <3>2 DEF OneIn
  <2> QED BY <2>2, <2>3, <2>4, <2>5, <2>6
<1>2. ASSUME NEW t \in Posters, Post(t) PROVE OneIn(c)'
  <2>1. RIn(c)' <=> RIn(c)
    BY <1>0, <1>2, PostFrame DEF RIn
  <2>2. (SIn(c)' <=> SIn(c)) /\ shm'[c] = shm[c]
    BY <1>0, <1>2, PostFrame DEF SIn, tables
  <2>3. WIn(c)' <=> WIn(c)
    BY <1>0, <1>2, PostFrame DEF WIn, Section
  <2> QED BY <1>0, <2>1, <2>2, <2>3 DEF OneIn
<1>3. ASSUME NEW d \in Clients, Demarre(d) PROVE OneIn(c)'
  BY <1>0, <1>3 DEF Demarre, tables, OneIn, WIn, RIn, SIn
<1>4. ASSUME NEW d \in Clients, Ecriture(d) PROVE OneIn(c)'
  <2>1. (RIn(c)' <=> RIn(c)) /\ (SIn(c)' <=> SIn(c))
    BY <1>0, <1>4, EcritureFrame DEF RIn, SIn, tables
  <2>2. CASE c # d
    BY <1>0, <1>4, <2>1, <2>2, EcritureFrame DEF OneIn, WIn
  <2>3. CASE c = d
    <3> USE <1>0, <2>1, <2>3 DEF Goto, TypeOK, OneIn, WIn, Section
    <3>1. CASE EcritureWait(c)
      BY <3>1 DEF EcritureWait, SemWait, private, StatusOK
    <3>2. CASE EcriturePost(c)
      <4>1. pc[W(c)] \in {"posted", "last"} /\ pc'[W(c)] = "scanf" /\ (pc[W(c)] = "posted" => sent[c] = 0)
        BY <3>2 DEF EcriturePost
      <4>2. shm'[c] = shm[c] /\ sent' = sent
        BY <3>2 DEF EcriturePost, SemPost, private
      <4> QED BY <4>1, <4>2
    <3>3. CASE EcritureScanf(c)
      BY <3>3 DEF EcritureScanf
    <3>4. CASE EcritureOwn(c)
      BY <3>4 DEF EcritureOwn, SemWait, private, StatusOK
    <3>5. CASE EcritureRelease(c)
      BY <3>5 DEF EcritureRelease, private
    <3> QED BY <1>4, <3>1, <3>2, <3>3, <3>4, <3>5 DEF Ecriture
  <2> QED BY <2>2, <2>3
<1>5. ASSUME NEW d \in Clients, Lecture(d) PROVE OneIn(c)'
  <2>1. (WIn(c)' <=> WIn(c)) /\ (SIn(c)' <=> SIn(c))
    BY <1>0, <1>5, LectureFrame DEF WIn, SIn, tables
  <2>2. CASE c # d
    BY <1>0, <1>5, <2>1, <2>2, LectureFrame DEF OneIn, RIn
  <2>3. CASE c = d
    <3> USE <1>0, <2>1, <2>3 DEF Goto, TypeOK, OneIn, RIn
    <3>1. CASE LectureWait(c)
      BY <3>1 DEF LectureWait, SemWait
    <3>2. CASE LectureLoad(c)
      BY <3>2 DEF LectureLoad
    <3>3. CASE LectureStore(c)
      BY <3>3 DEF LectureStore
    <3>4. CASE LecturePost(c)
      BY <3>4 DEF LecturePost, SemPost
    <3> QED BY <1>5, <3>1, <3>2, <3>3, <3>4 DEF Lecture
  <2> QED BY <2>2, <2>3
<1>6. ASSUME NEW d \in Clients, SigIntTrt(d) PROVE OneIn(c)'
  BY <1>0, <1>6, SigIntFrame DEF OneIn, WIn, RIn, SIn, tables
<1> QED BY <1>1, <1>2, <1>3, <1>4, <1>5, <1>6 DEF Next

(* What was loaded from a segment of a client is not changed before the    *)
(* store, since the one that loaded it is alone inside.                    *)
LEMMA BoxRegStep == ASSUME Base, Next PROVE BoxReg'
<1> USE ThreadNames
<1>0. TypeOK /\ ServeurOK /\ BoxReg /\ \A c \in Clients : OneIn(c)
  BY OneInIsExclusion DEF Base
<1>1. CASE ServeurMain
  <2>1. \A c \in Clients : pc'[R(c)] = pc[R(c)] /\ reg'[R(c)] = reg[R(c)]
    BY <1>0, <1>1, ServeurFrame
  <2>2. CASE DeliverMessage
    <3>1. tabClient[i] \in Clients
      BY <1>0, <2>2 DEF ServeurOK, DeliverMessage, Goto
    <3> QED BY <1>0, <2>1, <2>2, <3>1 DEF DeliverMessage, Goto, private, tables, BoxReg, TypeOK
  <2>3. CASE DeliverCount
    <3>1. tabClient[i] \in Clients /\ pc[Serveur] = "count"
      BY <1>0, <2>3 DEF ServeurOK, DeliverCount, Goto
    <3>2. ASSUME NEW c \in Clients, pc[R(c)] = "store" PROVE shm'[c] = shm[c]
      <4>1. c # tabClient[i]
        BY <1>0, <3>1, <3>2 DEF OneIn, RIn, SIn
      <4> QED BY <1>0, <2>3, <4>1 DEF DeliverCount, TypeOK
    <3>3. pc'[Serveur] # "count"
      BY <1>0, <2>3 DEF DeliverCount, Goto, TypeOK
    <3> QED BY <1>0, <2>1, <3>2, <3>3 DEF BoxReg
  <2>4. CASE ~(DeliverMessage \/ DeliverCount)
    <3>1. pc'[Serveur] # "count"
      BY <1>0, <1>1, <2>4 DEF ServeurMain, Diffusion, ServeurWait, ServeurTest, ServeurPost, ServeurIndex,
            ServeurType, ServeurContent, ServeurTable, ServeurDiffusion, ServeurOpen, ServeurLoad,
            ServeurStore, DeliverWait, DeliverPost, Goto, TypeOK
    <3>2. CASE DeliverWait \/ DeliverPost
      <4>1. tabClient[i] \in Clients
        BY <1>0, <3>2 DEF ServeurOK, DeliverWait, DeliverPost, Goto
      <4>2. \A c \in Clients : shm'[c].write = shm[c].write
        BY <1>0, <3>2, <4>1 DEF DeliverWait, DeliverPost, SemWait, TypeOK
      <4> QED BY <1>0, <2>1, <3>1, <4>2 DEF BoxReg
    <3>3. CASE ~(DeliverWait \/ DeliverPost)
      <4>1. \A c \in Clients : shm'[c].write = shm[c].write
        BY <1>0, <1>1, <2>4, <3>3 DEF ServeurMain, Diffusion, ServeurWait, ServeurTest, ServeurPost,
            ServeurIndex, ServeurType, ServeurContent, ServeurTable, ServeurDiffusion, ServeurOpen,
            ServeurLoad, ServeurStore, SemWait, SemPost, TypeOK
      <4> QED BY <1>0, <2>1, <3>1, <4>1 DEF BoxReg
    <3> QED BY <3>2, <3>3
  <2> QED BY <2>2, <2>3, <2>4
<1>2. ASSUME NEW t \in Posters, Post(t) PROVE BoxReg'
  <2>1. /\ \A c \in Clients : pc'[R(c)] = pc[R(c)] /\ reg'[R(c)] = reg[R(c)] /\ shm'[c] = shm[c]
        /\ pc'[Serveur] = pc[Serveur] /\ reg'[Serveur] = reg[Serveur] /\ UNCHANGED <<tables, i>>
    BY <1>0, <1>2, PostFrame
  <2>2. pc[Serveur] = "count" => tabClient[i] \in Clients
    BY <1>0 DEF ServeurOK
  <2> QED BY <1>0, <2>1, <2>2 DEF BoxReg, tables
<1>3. ASSUME NEW c \in Clients, Demarre(c) PROVE BoxReg'
  BY <1>0, <1>3 DEF Demarre, tables, BoxReg
<1>4. ASSUME NEW d \in Clients, Ecriture(d) PROVE BoxReg'
  <2>1. \A p \in Clients : shm'[p].write = shm[p].write
    <3>1. shm'[d].write = shm[d].write
      BY <1>0, <1>4 DEF Ecriture, EcritureWait, EcriturePost, EcritureScanf, EcritureOwn, EcritureRelease,
          SemWait, SemPost, TypeOK
    <3> QED BY <1>0, <1>4, <3>1, EcritureFrame
  <2>2. pc[Serveur] = "count" => tabClient[i] \in Clients
    BY <1>0 DEF ServeurOK
  <2> QED BY <1>0, <1>4, <2>1, <2>2, EcritureFrame DEF BoxReg, tables
<1>5. ASSUME NEW d \in Clients, Lecture(d) PROVE BoxReg'
  <2>1. /\ \A t \in Threads \ {R(d)} : pc'[t] = pc[t] /\ reg'[t] = reg[t]
        /\ UNCHANGED <<tables, i>>
        /\ \A p \in Clients \ {d} : shm'[p] = shm[p]
    BY <1>0, <1>5, LectureFrame
  <2>2. pc'[R(d)] = "store" => reg'[R(d)] = shm'[d].write /\ reg'[R(d)] > 0
    BY <1>0, <1>5 DEF Lecture, LectureWait, LectureLoad, LectureStore, LecturePost, Goto, TypeOK
  <2>3. ASSUME pc[Serveur] = "count" PROVE shm'[tabClient[i]].write = shm[tabClient[i]].write
    <3>1. tabClient[i] \in Clients
      BY <1>0, <2>3 DEF ServeurOK
    <3>2. CASE LectureStore(d)
      <4>1. d # tabClient[i]
        <5>1. RIn(d) /\ SIn(tabClient[i])
          BY <2>3, <3>2 DEF LectureStore, Goto, RIn, SIn
        <5> QED BY <1>0, <3>1, <5>1 DEF OneIn
      <4> QED BY <2>1, <3>1, <4>1
    <3>3. CASE ~LectureStore(d)
      <4>1. shm'[d].write = shm[d].write
        BY <1>0, <1>5, <3>3 DEF Lecture, LectureWait, LectureLoad, LecturePost, SemWait, SemPost, TypeOK
      <4> QED BY <2>1, <3>1, <4>1
    <3> QED BY <3>2, <3>3
  <2> QED BY <1>0, <2>1, <2>2, <2>3 DEF BoxReg, tables
<1>6. ASSUME NEW d \in Clients, SigIntTrt(d) PROVE BoxReg'
  <2>1. pc[Serveur] = "count" => tabClient[i] \in Clients
    BY <1>0 DEF ServeurOK
  <2> QED BY <1>0, <1>6, <2>1, SigIntFrame DEF BoxReg, tables
<1> QED BY <1>1, <1>2, <1>3, <1>4, <1>5, <1>6 DEF Next

(* A reception changes the three counters of the segment by one.           *)
LEMMA ReceptionCounts ==
  ASSUME TypeOK, NEW c \in Clients, LectureStore(c), R(c) \in Threads, reg[R(c)] = shm[c].write
  PROVE  /\ shm'[c].write = shm[c].write - 1
         /\ shm'[c].read = shm[c].read + 1
         /\ shm'[c].nb = shm[c].nb + 1
<1>1. shm' = [shm EXCEPT ![c].read = @ + 1, ![c].nb = @ + 1, ![c].write = reg[R(c)] - 1]
  BY DEF LectureStore
<1>2. shm \in [Clients \cup {Serveur} -> [read : Nat, write : Nat, nb : Nat, sem : Nat]]
  BY DEF TypeOK
<1>3. shm'[c] = [shm[c] EXCEPT !.read = @ + 1, !.nb = @ + 1, !.write = reg[R(c)] - 1]
  BY <1>1, <1>2, Zenon
<1>4. reg[R(c)] \in Nat /\ shm[c] \in [read : Nat, write : Nat, nb : Nat, sem : Nat]
  BY <1>2 DEF TypeOK
<1> QED BY <1>3, <1>4

(* Every step keeps the accounts of the segments of the clients.           *)
LEMMA AccountStep == ASSUME Base, Next PROVE BoxAccount'
<1> USE ThreadNames
<1>0. TypeOK /\ ServeurOK /\ BoxReg /\ BoxAccount /\ \A c \in Clients : StatusOK(c)
  BY DEF Base
<1> SUFFICES ASSUME NEW c \in Clients
             PROVE  (shm'[c].read - shm'[c].write = 2 * (shm'[c].nb - Counted(c)'))
  BY DEF BoxAccount
<1>a. /\ shm[c].read \in Nat /\ shm[c].write \in Nat /\ shm[c].nb \in Nat
      /\ Counted(c) \in Int
      /\ shm[c].read - shm[c].write = 2 * (shm[c].nb - Counted(c))
  BY <1>0 DEF TypeOK, BoxAccount, Counted
<1>b. ASSUME shm'[c].read = shm[c].read, shm'[c].write = shm[c].write, shm'[c].nb = shm[c].nb,
             Counted(c)' = Counted(c)
      PROVE  shm'[c].read - shm'[c].write = 2 * (shm'[c].nb - Counted(c)')
  BY <1>a, <1>b
<1>1. CASE ServeurMain
  <2>1. Counted(c)' = Counted(c)
    BY <1>0, <1>1, ServeurFrame DEF Counted
  <2>2. CASE DeliverCount
    <3>1. tabClient[i] \in Clients /\ reg[Serveur] = shm[tabClient[i]].write
      BY <1>0, <2>2 DEF ServeurOK, BoxReg, DeliverCount, Goto
    <3>2. CASE c = tabClient[i]
      <4>1. shm'[c].write = shm[c].write + 1 /\ shm'[c].read = shm[c].read + 1 /\ shm'[c].nb = shm[c].nb
        BY <1>0, <2>2, <3>1, <3>2 DEF DeliverCount, TypeOK
      <4> QED BY <1>a, <2>1, <4>1
    <3>3. CASE c # tabClient[i]
      <4>1. shm'[c] = shm[c]
        BY <1>0, <2>2, <3>1, <3>3 DEF DeliverCount, TypeOK
      <4> QED BY <1>b, <2>1, <4>1
    <3> QED BY <3>2, <3>3
  <2>3. CASE ~DeliverCount
    <3>1. shm'[c].read = shm[c].read /\ shm'[c].write = shm[c].write /\ shm'[c].nb = shm[c].nb
      <4>1. CASE DeliverWait \/ DeliverPost
        <5>1. tabClient[i] \in Clients
          BY <1>0, <4>1 DEF ServeurOK, DeliverWait, DeliverPost, Goto
        <5>2. CASE DeliverWait
          BY <1>0, <5>1, <5>2 DEF DeliverWait, SemWait, TypeOK
        <5>3. CASE DeliverPost
          BY <1>0, <5>1, <5>3 DEF DeliverPost, TypeOK
        <5> QED BY <4>1, <5>2, <5>3
      <4>2. CASE ~(DeliverWait \/ DeliverPost)
        BY <1>0, <1>1, <2>3, <4>2 DEF ServeurMain, Diffusion, ServeurWait, ServeurTest, ServeurPost,
            ServeurIndex, ServeurType, ServeurContent, ServeurTable, ServeurDiffusion, ServeurOpen,
            DeliverMessage, ServeurLoad, ServeurStore, SemWait, SemPost, TypeOK
      <4> QED BY <4>1, <4>2
    <3> QED BY <1>b, <2>1, <3>1
  <2> QED BY <2>2, <2>3
<1>2. ASSUME NEW t \in Posters, Post(t)
      PROVE  shm'[c].read - shm'[c].write = 2 * (shm'[c].nb - Counted(c)')
  <2>1. shm'[c] = shm[c] /\ sent' = sent
    BY <1>0, <1>2, PostFrame
  <2>2. pc'[W(c)] \in {"scanf", "last"} <=> pc[W(c)] \in {"scanf", "last"}
    BY <1>0, <1>2, PostFrame
  <2> QED BY <1>b, <2>1, <2>2 DEF Counted
<1>3. ASSUME NEW d \in Clients, Demarre(d)
      PROVE  shm'[c].read - shm'[c].write = 2 * (shm'[c].nb - Counted(c)')
  BY <1>b, <1>3 DEF Demarre, Counted
<1>4. ASSUME NEW d \in Clients, Ecriture(d)
      PROVE  shm'[c].read - shm'[c].write = 2 * (shm'[c].nb - Counted(c)')
  <2>1. CASE c # d
    BY <1>0, <1>b, <1>4, <2>1, EcritureFrame DEF Counted
  <2>2. CASE c = d
    <3>1. CASE EcritureRelease(c)
      <4>1. shm'[c].write = shm[c].write /\ shm'[c].read = shm[c].read /\ shm'[c].nb = shm[c].nb + 1
        BY <1>0, <3>1 DEF EcritureRelease, TypeOK
      <4>2. Counted(c)' = Counted(c) + 1
        BY <1>0, <3>1 DEF EcritureRelease, Goto, Counted, TypeOK, private
      <4> QED BY <1>a, <4>1, <4>2
    <3>2. CASE ~EcritureRelease(c)
      <4>1. shm'[c].read = shm[c].read /\ shm'[c].write = shm[c].write /\ shm'[c].nb = shm[c].nb
        BY <1>0, <1>4, <2>2, <3>2 DEF Ecriture, EcritureWait, EcriturePost, EcritureScanf, EcritureOwn,
          SemWait, SemPost, TypeOK
      <4>2. Counted(c)' = Counted(c)
        <5> USE <1>0 DEF Goto, Counted, TypeOK, private
        <5>1. CASE EcritureWait(c)
          BY <5>1 DEF EcritureWait, StatusOK
        <5>2. CASE EcriturePost(c)
          BY <5>2 DEF EcriturePost
        <5>3. CASE EcritureScanf(c)
          BY <5>3 DEF EcritureScanf
        <5>4. CASE EcritureOwn(c)
          BY <5>4 DEF EcritureOwn, StatusOK
        <5> QED BY <1>4, <2>2, <3>2, <5>1, <5>2, <5>3, <5>4 DEF Ecriture
      <4> QED BY <1>b, <4>1, <4>2
    <3> QED BY <3>1, <3>2
  <2> QED BY <2>1, <2>2
<1>5. ASSUME NEW d \in Clients, Lecture(d)
      PROVE  shm'[c].read - shm'[c].write = 2 * (shm'[c].nb - Counted(c)')
  <2>1. Counted(c)' = Counted(c)
    BY <1>0, <1>5, LectureFrame DEF Counted
  <2>2. CASE c # d
    BY <1>0, <1>b, <1>5, <2>1, <2>2, LectureFrame
  <2>3. CASE c = d
    <3>1. CASE LectureStore(c)
      <4>1. reg[R(c)] = shm[c].write /\ reg[R(c)] > 0
        BY <1>0, <3>1 DEF LectureStore, Goto, BoxReg
      <4>2. shm'[c].write = shm[c].write - 1 /\ shm'[c].read = shm[c].read + 1 /\ shm'[c].nb = shm[c].nb + 1
        BY <1>0, <3>1, <4>1, ReceptionCounts
      <4> DEFINE a == shm[c].read
                 b == shm[c].write
                 n == shm[c].nb
                 k == Counted(c)
      <4>3. a \in Nat /\ b \in Nat /\ n \in Nat /\ k \in Int /\ a - b = 2 * (n - k)
        BY <1>a
      <4>4. shm'[c].read = a + 1 /\ shm'[c].write = b - 1 /\ shm'[c].nb = n + 1 /\ Counted(c)' = k
        BY <2>1, <4>2
      <4> HIDE DEF a, b, n, k
      <4>5. (a + 1) - (b - 1) = 2 * ((n + 1) - k)
        BY <4>3
      <4> QED BY <4>4, <4>5
    <3>2. CASE ~LectureStore(c)
      <4>1. shm'[c].read = shm[c].read /\ shm'[c].write = shm[c].write /\ shm'[c].nb = shm[c].nb
        BY <1>0, <1>5, <2>3, <3>2 DEF Lecture, LectureWait, LectureLoad, LecturePost, SemWait, SemPost, TypeOK
      <4> QED BY <1>b, <2>1, <4>1
    <3> QED BY <3>1, <3>2
  <2> QED BY <2>2, <2>3
<1>6. ASSUME NEW d \in Clients, SigIntTrt(d)
      PROVE  shm'[c].read - shm'[c].write = 2 * (shm'[c].nb - Counted(c)')
  BY <1>0, <1>b, <1>6, SigIntFrame DEF Counted
<1> QED BY <1>1, <1>2, <1>3, <1>4, <1>5, <1>6 DEF Next
-----------------------------------------------------------------------------
(* Base holds at the start,                                                *)
LEMMA BaseInit == Init => Base
<1> SUFFICES ASSUME Init PROVE Base
  OBVIOUS
<1> USE ThreadNames DEF Init
<1>1. TableIInv /\ TableTypeOK
  BY TableInitOK DEF TableIInv
<1>2. TypeOK
  <2>1. DataType
    BY DEF DataType, Empty
  <2>2. ShmType /\ RegType
    BY TableAssumption DEF ShmType, RegType
  <2>3. PcType
    BY DEF PcType, Points, WPoints, RPoints, HPoints, SPoints
  <2> QED BY <1>1, <2>1, <2>2, <2>3 DEF TypeOK, DataType, ShmType, RegType, PcType, Points
<1>3. \A c \in Clients : StatusOK(c)
  BY DEF StatusOK
<1>4. ServeurOK /\ IndexOK /\ BoxReg
  BY DEF ServeurOK, IndexOK, BoxReg
<1>5. Bounded
  <2>1. Events = {} /\ Pending = {}
    BY DEF Events, Event, Pending
  <2>2. IsFiniteSet(Events) /\ IsFiniteSet(Pending) /\ Cardinality(Events) = 0 /\ Cardinality(Pending) = 0
    BY <2>1, FS_EmptySet
  <2> QED BY <2>2, ChatAssumption DEF Bounded
<1>6. BoxExclusion
  <2>1. \A c \in Clients : OneIn(c)
    BY DEF OneIn, WIn, RIn, SIn, Section
  <2> QED BY <2>1, OneInIsExclusion
<1>7. BoxAccount
  BY DEF BoxAccount, Counted
<1> QED BY <1>1, <1>2, <1>3, <1>4, <1>5, <1>6, <1>7 DEF Base

(* in a step of nobody,                                                    *)
LEMMA BaseStutter == ASSUME Base, UNCHANGED vars PROVE Base'
<1> USE DEF vars, tables
<1>1. TypeOK' /\ TableIInv'
  BY DEF Base, TypeOK, TableIInv, TableTypeOK, HolesAtEnd
<1>2. (\A c \in Clients : StatusOK(c))' /\ ServeurOK' /\ IndexOK' /\ BoxReg'
  BY DEF Base, StatusOK, ServeurOK, Used, IndexOK, BoxReg
<1>3. Bounded'
  BY DEF Base, Bounded, Events, Event, Pending
<1>4. BoxExclusion'
  BY DEF Base, BoxExclusion, Inside
<1>5. BoxAccount'
  BY DEF Base, BoxAccount, Counted
<1> QED BY <1>1, <1>2, <1>3, <1>4, <1>5 DEF Base

(* and after every step.                                                   *)
LEMMA BaseStep == Base /\ [Next]_vars => Base'
<1> SUFFICES ASSUME Base, [Next]_vars PROVE Base'
  OBVIOUS
<1>1. CASE Next
  BY <1>1, TypeStep, StatusStep, ServeurStep, IndexStep, BoundedStep, BoxRegStep, ExclusionStep, AccountStep
    DEF Base
<1>2. CASE UNCHANGED vars
  BY <1>2, BaseStutter
<1> QED BY <1>1, <1>2

(* In every state the threads are at their places, the indices inside      *)
(* messages, and the segments of the clients kept: whatever the number of  *)
(* clients, of texts and of events.                                        *)
THEOREM BaseInvariant == Spec => []Base
  BY BaseInit, BaseStep, PTL DEF Spec

(* The segments of the clients keep their types, exclusion and accounts:   *)
(* ecritureThread, lectureThread and the server's diffusion lose no        *)
(* delivery.                                                               *)
THEOREM SegmentsKept == Spec => []ClientSegments
<1>1. Base => ClientSegments
  BY DEF Base, ClientSegments
<1> QED BY <1>1, BaseInvariant, PTL

(* Nothing the clients do puts a name after a hole of the table, which     *)
(* serveur.c changes by the two treatments only.                           *)
THEOREM ChatHolesAtEnd == Spec => []HolesAtEnd
<1>1. Base => HolesAtEnd
  BY DEF Base, TableIInv
<1> QED BY <1>1, BaseInvariant, PTL
-----------------------------------------------------------------------------
(* A message has the name, or the text, of a client that started, and the  *)
(* table only the contents of messages.                                    *)
LEMMA ContentsStep == ASSUME Base, ContentsOK, Next PROVE ContentsOK'
<1> USE ThreadNames DEF ContentsOK, Started
<1>0. TypeOK /\ TypeOK' /\ IndexOK /\ NoName \notin Clients
  BY TypeStep, TableAssumption, ChatAssumption DEF Base
<1>1. CASE ServeurMain
  <2>1. UNCHANGED <<messages, status>>
    BY <1>0, <1>1, ServeurFrame
  <2>2. Started(mess'.content)
    <3>1. CASE ServeurContent
      <4>1. reg[Serveur] \in Index
        BY <1>0, <3>1 DEF ServeurContent, Goto, IndexOK
      <4> QED BY <1>0, <3>1, <4>1 DEF ServeurContent, TypeOK
    <3>2. CASE ServeurType
      BY <1>0, <3>2 DEF ServeurType, TypeOK
    <3>3. CASE ServeurStore
      BY <1>0, <3>3 DEF ServeurStore, Empty
    <3>4. CASE UNCHANGED mess
      BY <3>4
    <3> QED BY <1>1, <3>1, <3>2, <3>3, <3>4 DEF ServeurMain, ServeurWait, ServeurTest, ServeurPost,
        ServeurIndex, ServeurTable, ServeurLoad, Diffusion, ServeurDiffusion, ServeurOpen, DeliverWait,
        DeliverMessage, DeliverCount, DeliverPost, private
  <2>3. \A j \in Slots : tabClient'[j] \in {mess.content, NoName} \cup {tabClient[k] : k \in Slots}
    <3>1. CASE ServeurTable
      <4>1. MAX_USERS \in Nat
        BY TableAssumption
      <4>2. CASE Connexion(mess.content)
        <5> DEFINE filled == [j \in Slots |-> IF j \in Holes THEN mess.content ELSE tabClient[j]]
        <5>1. \A j \in Slots : filled[j] \in {mess.content, NoName} \cup {tabClient[k] : k \in Slots}
          OBVIOUS
        <5>2. tabClient' = filled \/ tabClient' = [filled EXCEPT ![nbUserCourant] = mess.content]
          BY <4>2 DEF Connexion
        <5> HIDE DEF filled
        <5>3. DOMAIN filled = Slots
          BY DEF filled
        <5> QED BY <5>1, <5>2, <5>3
      <4>3. CASE Deconnexion(mess.content)
        <5>1. CASE UNCHANGED tvars
          BY <5>1 DEF tvars
        <5>2. ASSUME NEW k \in Used, Remove(k)
              PROVE  \A j \in Slots : tabClient'[j] \in {mess.content, NoName} \cup {tabClient[l] : l \in Slots}
          BY <1>0, <4>1, <5>2 DEF Remove, Slots, Used, TypeOK, TableTypeOK
        <5> QED BY <4>3, <5>1, <5>2 DEF Deconnexion
      <4> QED BY <3>1, <4>2, <4>3 DEF ServeurTable, tables
    <3>2. CASE ~ServeurTable
      <4>1. UNCHANGED tables
        BY <1>1, <3>2 DEF ServeurMain, Diffusion, ServeurWait, ServeurTest, ServeurPost, ServeurIndex,
            ServeurType, ServeurContent, ServeurDiffusion, ServeurOpen, DeliverWait, DeliverMessage,
            DeliverCount, DeliverPost, ServeurLoad, ServeurStore, private
      <4> QED BY <4>1 DEF tables
    <3> QED BY <3>1, <3>2
  <2> QED BY <1>0, <2>1, <2>2, <2>3
<1>2. ASSUME NEW t \in Posters, Post(t) PROVE ContentsOK'
  <2>1. UNCHANGED <<tables, mess, status>> /\ Runs(t)
    BY <1>0, <1>2, PostFrame
  <2>2. Started(Outgoing(t).content)
    <3>1. PICK c \in Clients : t = W(c) \/ t = H(c)
      OBVIOUS
    <3>2. CASE Outgoing(t).content = c
      BY <2>1, <3>1, <3>2 DEF Runs
    <3>3. CASE Outgoing(t).content = Text(c, sent[c]) /\ sent[c] # 0
      <4>1. sent[c] \in Nat /\ Cardinality(Events) \in Nat /\ sent[c] <= Cardinality(Events)
        BY FS_CardinalityType DEF Base, TypeOK, Bounded
      <4>2. sent[c] \in 1 .. MaxEvents
        BY <3>3, <4>1, ChatAssumption DEF Base, Bounded
      <4>3. Text(c, sent[c]) \notin Clients
        BY <4>2, ChatAssumption DEF Texts
      <4> QED BY <3>3, <4>3
    <3> QED BY <3>1, <3>2, <3>3 DEF Outgoing
  <2>3. \A j \in Index : messages'[j].content \in {messages[j].content, Outgoing(t).content}
    <3> DEFINE o == Outgoing(t)
    <3> HIDE DEF o
    <3>1. CASE PostType(t)
      <4>1. messages' = [messages EXCEPT ![reg[t]].type = o.type]
        BY <3>1 DEF PostType, o
      <4> QED BY <1>0, <4>1 DEF TypeOK
    <3>2. CASE PostContent(t)
      <4>1. messages' = [messages EXCEPT ![reg[t]].content = o.content]
        BY <3>2 DEF PostContent, o
      <4> QED BY <1>0, <4>1 DEF TypeOK, o
    <3>3. CASE UNCHANGED messages
      BY <3>3
    <3> QED BY <1>2, <3>1, <3>2, <3>3 DEF Post, PostIndex, PostLoad, PostStore, private
  <2> QED BY <2>1, <2>2, <2>3 DEF tables
<1>3. ASSUME NEW c \in Clients, Demarre(c) PROVE ContentsOK'
  BY <1>0, <1>3 DEF Demarre, tables, TypeOK
<1>4. ASSUME NEW d \in Clients, Ecriture(d) PROVE ContentsOK'
  BY <1>0, <1>4, EcritureFrame DEF tables
<1>5. ASSUME NEW d \in Clients, Lecture(d) PROVE ContentsOK'
  BY <1>0, <1>5, LectureFrame DEF tables
<1>6. ASSUME NEW d \in Clients, SigIntTrt(d) PROVE ContentsOK'
  <2>1. UNCHANGED <<tables, mess, messages>>
    BY <1>0, <1>6, SigIntFrame
  <2>2. \A c \in Clients : status[c] # "off" => status'[c] # "off"
    BY <1>0, <1>6 DEF SigIntTrt, Sigint, SigintWait, SigintPost, SigintExit, private, TypeOK
  <2> QED BY <2>1, <2>2 DEF tables
<1> QED BY <1>1, <1>2, <1>3, <1>4, <1>5, <1>6 DEF Next

(* The server exits for a user of the table whose segment is gone, and the *)
(* table is not touched after it.                                          *)
LEMMA ExitStep == ASSUME Base, ContentsOK, ExitCause, Next PROVE ExitCause'
<1> USE ThreadNames DEF ExitCause
<1>0. TypeOK /\ TypeOK'
  BY TypeStep DEF Base
<1>1. CASE ServeurMain
  <2>1. UNCHANGED status /\ pc[Serveur] # "exited"
    BY <1>0, <1>1, ServeurFrame DEF ServeurMain, Diffusion, ServeurWait, ServeurTest, ServeurPost, ServeurIndex,
            ServeurType, ServeurContent, ServeurTable, ServeurDiffusion, ServeurOpen, DeliverWait, DeliverMessage,
            DeliverCount, DeliverPost, ServeurLoad, ServeurStore, Goto
  <2>2. CASE ServeurOpen
    <3> SUFFICES ASSUME pc'[Serveur] = "exited", tabClient'[i'] \in Clients
                 PROVE  status'[tabClient'[i']] = "exited"
      OBVIOUS
    <3>1. i \in Used \ Holes /\ tabClient[i] \notin linked /\ UNCHANGED <<tables, i>>
      BY <1>0, <2>2 DEF ServeurOpen, Goto, TypeOK
    <3>2. tabClient[i] \in Clients /\ i \in Slots /\ tabClient' = tabClient
      BY <3>1 DEF tables, Used
    <3>3. status[tabClient[i]] # "off"
      BY <3>2 DEF ContentsOK, Started
    <3>4. status[tabClient[i]] \in {"off", "exited"}
      BY <3>1, <3>2 DEF Base, StatusOK
    <3> QED BY <2>1, <3>1, <3>2, <3>3, <3>4
  <2>3. CASE ~ServeurOpen
    <3>1. pc'[Serveur] # "exited"
      BY <1>0, <1>1, <2>3 DEF ServeurMain, Diffusion, ServeurWait, ServeurTest, ServeurPost, ServeurIndex,
            ServeurType, ServeurContent, ServeurTable, ServeurDiffusion, DeliverWait, DeliverMessage,
            DeliverCount, DeliverPost, ServeurLoad, ServeurStore, Goto, TypeOK
    <3> QED BY <3>1
  <2> QED BY <2>2, <2>3
<1>2. ASSUME NEW t \in Posters, Post(t) PROVE ExitCause'
  BY <1>0, <1>2, PostFrame DEF tables
<1>3. ASSUME NEW c \in Clients, Demarre(c) PROVE ExitCause'
  BY <1>0, <1>3 DEF Demarre, tables, TypeOK
<1>4. ASSUME NEW d \in Clients, Ecriture(d) PROVE ExitCause'
  BY <1>0, <1>4, EcritureFrame DEF tables
<1>5. ASSUME NEW d \in Clients, Lecture(d) PROVE ExitCause'
  BY <1>0, <1>5, LectureFrame DEF tables
<1>6. ASSUME NEW d \in Clients, SigIntTrt(d) PROVE ExitCause'
  <2>1. UNCHANGED <<tables, i>> /\ pc'[Serveur] = pc[Serveur]
    BY <1>0, <1>6, SigIntFrame
  <2>2. \A c \in Clients : status[c] = "exited" => status'[c] = "exited"
    BY <1>0, <1>6 DEF SigIntTrt, Sigint, SigintWait, SigintPost, SigintExit, private, TypeOK
  <2> QED BY <2>1, <2>2 DEF tables
<1> QED BY <1>1, <1>2, <1>3, <1>4, <1>5, <1>6 DEF Next

(* The server exits only for a text taken for a name, or for a user whose  *)
(* handler ran to its end.                                                 *)
THEOREM ExitExplained == Spec => []ExitCause
<1>1. Init => ContentsOK /\ ExitCause
  <2> SUFFICES ASSUME Init PROVE ContentsOK /\ ExitCause
    OBVIOUS
  <2>1. NoName \notin Clients
    BY TableAssumption, ChatAssumption
  <2> QED BY <2>1, ThreadNames, TableAssumption DEF Init, TableInit, Slots, Index, Empty, ContentsOK, Started, ExitCause
<1>2. Base /\ ContentsOK /\ ExitCause /\ [Next]_vars => (ContentsOK /\ ExitCause)'
  <2>1. CASE Next
    BY <2>1, ContentsStep, ExitStep
  <2>2. CASE UNCHANGED vars
    BY <2>2 DEF vars, tables, ContentsOK, Started, ExitCause
  <2> QED BY <2>1, <2>2
<1> QED BY <1>1, <1>2, BaseInvariant, PTL DEF Spec
-----------------------------------------------------------------------------
(* Who takes, holds and gives back the tokens of the server's semaphore.   *)
LEMMA TokensStep == ASSUME Base, Tokens, Next PROVE Tokens'
<1> USE ThreadNames
<1> DEFINE K == Cardinality(Holders)
           N == Cardinality(TextsPosted)
           S == shm[Serveur].sem
           SameTexts == TextsPosted' = TextsPosted
           Wakes == pc'[Serveur] # "exited" => pc[Serveur] # "exited"
<1>0. TypeOK /\ (\A c \in Clients : StatusOK(c)) /\ ServeurOK
  BY DEF Base
<1>1. K \in Nat /\ N \in Nat /\ S \in Nat
  BY <1>0, FS_CardinalityType DEF Tokens, TypeOK
<1>a. ASSUME NEW t, S' = S - 1, Holders' = Holders \cup {t}, t \notin Holders, SameTexts, Wakes
      PROVE  Tokens'
  <2>1. IsFiniteSet(Holders') /\ K' = K + 1
    BY <1>a, FS_AddElement DEF Tokens
  <2> QED BY <1>1, <1>a, <2>1 DEF Tokens, ServerTokens
<1>b. ASSUME NEW t, S' = S + 1, Holders' = Holders \ {t}, t \in Holders, SameTexts, Wakes
      PROVE  Tokens'
  <2>1. IsFiniteSet(Holders') /\ K' = K - 1
    BY <1>b, FS_RemoveElement DEF Tokens
  <2> QED BY <1>1, <1>b, <2>1 DEF Tokens, ServerTokens
<1>c. ASSUME NEW e, S' = S + 1, Holders' = Holders, TextsPosted' = TextsPosted \cup {e}, e \notin TextsPosted, Wakes
      PROVE  Tokens'
  <2>1. IsFiniteSet(TextsPosted') /\ N' = N + 1
    BY <1>c, FS_AddElement DEF Tokens
  <2> QED BY <1>1, <1>c, <2>1 DEF Tokens, ServerTokens
<1>d. ASSUME S' = S, Holders' = Holders, SameTexts, Wakes
      PROVE  Tokens'
  BY <1>d DEF Tokens, ServerTokens
<1>e. ASSUME pc'[Serveur] = "exited", Holders' = Holders \ {Serveur}, SameTexts
      PROVE  Tokens'
  BY <1>e, FS_RemoveElement DEF Tokens, ServerTokens
<1>t. (\A c \in Clients : Posted(c)' = Posted(c)) => SameTexts
  BY DEF TextsPosted
<1>2. CASE ServeurMain
  <2>1. /\ \A t \in Posters : pc'[t] = pc[t]
        /\ UNCHANGED sent
    BY <1>0, <1>2, ServeurFrame
  <2>2. SameTexts
    BY <1>t, <2>1 DEF Posted
  <2>3. CASE ServeurWait
    <3>1. S' = S - 1 /\ pc[Serveur] = "wait" /\ pc'[Serveur] = "test"
      BY <1>0, <2>3 DEF ServeurWait, SemWait, Goto, TypeOK
    <3>2. Holders' = Holders \cup {Serveur} /\ Serveur \notin Holders
      BY <2>1, <3>1 DEF Holders
    <3> QED BY <1>a, <2>2, <3>1, <3>2
  <2>4. CASE ServeurPost
    <3>1. S' = S + 1 /\ pc[Serveur] = "post" /\ pc'[Serveur] = "wait"
      BY <1>0, <2>4 DEF ServeurPost, SemPost, Goto, TypeOK
    <3>2. Holders' = Holders \ {Serveur} /\ Serveur \in Holders
      BY <2>1, <3>1 DEF Holders
    <3> QED BY <1>b, <2>2, <3>1, <3>2
  <2>5. CASE ServeurOpen /\ pc'[Serveur] = "exited"
    <3>1. Holders' = Holders \ {Serveur}
      BY <2>1, <2>5 DEF Holders
    <3> QED BY <1>e, <2>2, <2>5, <3>1
  <2>6. CASE ~(ServeurWait \/ ServeurPost \/ (ServeurOpen /\ pc'[Serveur] = "exited"))
    <3>1. pc[Serveur] \notin {"wait", "exited"} /\ pc'[Serveur] \notin {"wait", "exited"}
      BY <1>0, <1>2, <2>6 DEF ServeurMain, Diffusion, ServeurTest, ServeurIndex, ServeurType, ServeurContent,
            ServeurTable, ServeurDiffusion, ServeurOpen, DeliverWait, DeliverMessage, DeliverCount, DeliverPost,
            ServeurLoad, ServeurStore, Goto, TypeOK
    <3>2. S' = S
      <4>1. CASE DeliverWait \/ DeliverCount \/ DeliverPost
        <5>1. tabClient[i] \in Clients
          BY <1>0, <4>1 DEF ServeurOK, DeliverWait, DeliverCount, DeliverPost, Goto
        <5> QED BY <1>0, <4>1, <5>1 DEF DeliverWait, DeliverCount, DeliverPost, SemWait, TypeOK
      <4>2. CASE ~(DeliverWait \/ DeliverCount \/ DeliverPost)
        BY <1>0, <1>2, <2>6, <4>2 DEF ServeurMain, Diffusion, ServeurTest, ServeurIndex, ServeurType,
            ServeurContent, ServeurTable, ServeurDiffusion, ServeurOpen, DeliverMessage, ServeurLoad,
            ServeurStore, TypeOK
      <4> QED BY <4>1, <4>2
    <3>3. Holders' = Holders
      BY <2>1, <3>1 DEF Holders
    <3> QED BY <1>d, <2>2, <3>1, <3>2, <3>3
  <2> QED BY <2>3, <2>4, <2>5, <2>6
<1>3. ASSUME NEW t \in Posters, Post(t) PROVE Tokens'
  <2>1. /\ \A u \in Threads \ {t} : pc'[u] = pc[u]
        /\ UNCHANGED sent
        /\ pc[t] \in Section /\ pc'[t] \in Section /\ pc[t] # "scanf" /\ pc'[t] # "scanf"
    BY <1>0, <1>3, PostFrame DEF Section
  <2>2. SameTexts
    BY <1>t, <2>1 DEF Posted
  <2>3. Holders' = Holders
    BY <2>1 DEF Holders
  <2>4. S' = S
    BY <1>0, <1>3 DEF Post, PostIndex, PostType, PostContent, PostLoad, PostStore, private, TypeOK
  <2> QED BY <1>d, <2>1, <2>2, <2>3, <2>4
<1>4. ASSUME NEW c \in Clients, Demarre(c) PROVE Tokens'
  <2>1. UNCHANGED <<pc, shm, sent>>
    BY <1>4 DEF Demarre
  <2> QED BY <1>d, <1>t, <2>1 DEF Holders, Posted
<1>5. ASSUME NEW c \in Clients, Ecriture(c) PROVE Tokens'
  <2>1. /\ \A u \in Threads \ {W(c)} : pc'[u] = pc[u]
        /\ \A d \in Clients \ {c} : sent'[d] = sent[d]
        /\ DOMAIN pc = Threads
    BY <1>0, <1>5, EcritureFrame DEF TypeOK
  <2>2. \A d \in Clients \ {c} : Posted(d)' = Posted(d)
    BY <2>1 DEF Posted
  <2>3. \A u \in Threads \ {W(c)} : u \in Holders' <=> u \in Holders
    BY <2>1 DEF Holders
  <2>h. Holders \subseteq Threads /\ Holders' \subseteq Threads
    BY DEF Holders
  <2>4. CASE EcritureWait(c)
    <3>1. S' = S - 1 /\ pc[W(c)] = "wait" /\ pc'[W(c)] = "index" /\ sent' = sent /\ sent[c] = 0
      BY <1>0, <2>4 DEF EcritureWait, SemWait, Goto, private, TypeOK, StatusOK
    <3>2. W(c) \notin Holders /\ W(c) \in Holders'
      BY <3>1 DEF Holders, Section
    <3>3. Holders' = Holders \cup {W(c)}
      BY <2>3, <2>h, <3>2
    <3>4. SameTexts
      BY <1>t, <2>2, <3>1 DEF Posted
    <3> QED BY <1>a, <2>1, <3>1, <3>2, <3>3, <3>4
  <2>5. CASE EcriturePost(c) /\ sent[c] = 0
    <3>1. S' = S + 1 /\ pc[W(c)] = "posted" /\ pc'[W(c)] = "scanf" /\ sent' = sent
      BY <1>0, <2>5 DEF EcriturePost, SemPost, Goto, private, TypeOK, StatusOK
    <3>2. W(c) \in Holders /\ W(c) \notin Holders'
      BY <2>5, <3>1 DEF Holders, Section
    <3>3. Holders' = Holders \ {W(c)}
      BY <2>3, <2>h, <3>2
    <3>4. SameTexts
      BY <1>t, <2>2, <2>5, <3>1 DEF Posted
    <3> QED BY <1>b, <2>1, <3>1, <3>2, <3>3, <3>4
  <2>6. CASE EcriturePost(c) /\ sent[c] # 0
    <3>1. S' = S + 1 /\ pc[W(c)] = "last" /\ pc'[W(c)] = "scanf" /\ sent' = sent
      BY <1>0, <2>6 DEF EcriturePost, SemPost, Goto, private, TypeOK, StatusOK
    <3>2. W(c) \notin Holders /\ W(c) \notin Holders'
      BY <2>6, <3>1 DEF Holders, Section
    <3>3. Holders' = Holders
      BY <2>3, <2>h, <3>2
    <3>4. sent[c] \in 1 .. MaxEvents
      <4>1. sent[c] \in Nat /\ Cardinality(Events) \in Nat /\ sent[c] <= Cardinality(Events)
        BY FS_CardinalityType DEF Base, TypeOK, Bounded
      <4> QED BY <2>6, <4>1, ChatAssumption DEF Base, Bounded
    <3>5. Posted(c) = sent[c] - 1 /\ Posted(c)' = sent[c]
      BY <2>6, <3>1 DEF Posted
    <3>6. ASSUME NEW d \in Clients, NEW k \in 1 .. MaxEvents
          PROVE  k <= Posted(d)' <=> k <= Posted(d) \/ (d = c /\ k = sent[c])
      <4>1. CASE d = c
        BY <3>4, <3>5, <4>1, ChatAssumption
      <4>2. CASE d # c
        BY <2>2, <4>2
      <4> QED BY <4>1, <4>2
    <3>7. <<c, sent[c]>> \notin TextsPosted
      BY <3>4, <3>5, ChatAssumption DEF TextsPosted
    <3>8. TextsPosted' = TextsPosted \cup {<<c, sent[c]>>}
      BY <3>4, <3>6 DEF TextsPosted
    <3> QED BY <1>c, <2>1, <3>1, <3>3, <3>7, <3>8
  <2>7. CASE ~EcritureWait(c) /\ ~EcriturePost(c)
    <3>1. S' = S
      BY <1>0, <1>5, <2>7 DEF Ecriture, EcritureScanf, EcritureOwn, EcritureRelease, SemWait, TypeOK
    <3>2. (W(c) \in Holders' <=> W(c) \in Holders) /\ Posted(c)' = Posted(c)
      <4>1. CASE EcritureScanf(c)
        <5>1. /\ pc[W(c)] = "scanf" /\ pc'[W(c)] = "own"
              /\ sent'[c] = sent[c] + 1 /\ sent[c] \in Nat
          BY <1>0, <4>1 DEF EcritureScanf, Goto, TypeOK
        <5> QED BY <5>1 DEF Holders, Posted, Section
      <4>2. CASE EcritureOwn(c)
        <5>1. pc[W(c)] = "own" /\ pc'[W(c)] = "index" /\ sent' = sent /\ sent[c] # 0
          BY <1>0, <4>2 DEF EcritureOwn, Goto, private, TypeOK, StatusOK
        <5>2. W(c) \notin Holders /\ W(c) \notin Holders'
          BY <5>1 DEF Holders
        <5>3. Posted(c)' = Posted(c)
          BY <5>1 DEF Posted
        <5> QED BY <5>2, <5>3
      <4>3. CASE EcritureRelease(c)
        <5>1. pc[W(c)] = "posted" /\ pc'[W(c)] = "last" /\ sent' = sent /\ sent[c] # 0
          BY <1>0, <4>3 DEF EcritureRelease, Goto, private, TypeOK
        <5>2. W(c) \notin Holders /\ W(c) \notin Holders'
          BY <5>1 DEF Holders
        <5>3. Posted(c)' = Posted(c)
          BY <5>1 DEF Posted
        <5> QED BY <5>2, <5>3
      <4> QED BY <1>5, <2>7, <4>1, <4>2, <4>3 DEF Ecriture
    <3>3. Holders' = Holders
      <4>1. \A u \in Threads : u \in Holders' <=> u \in Holders
        BY <2>3, <3>2
      <4> QED BY <2>h, <4>1
    <3> QED BY <1>d, <1>t, <2>1, <2>2, <3>1, <3>2, <3>3
  <2> QED BY <2>4, <2>5, <2>6, <2>7
<1>6. ASSUME NEW c \in Clients, Lecture(c) PROVE Tokens'
  <2>1. /\ \A u \in Threads \ {R(c)} : pc'[u] = pc[u]
        /\ UNCHANGED sent /\ S' = S
    BY <1>0, <1>6, LectureFrame
  <2>2. Holders' = Holders
    BY <2>1 DEF Holders
  <2> QED BY <1>d, <1>t, <2>1, <2>2 DEF Posted
<1>7. ASSUME NEW c \in Clients, SigIntTrt(c) PROVE Tokens'
  <2>1. /\ \A u \in Threads \ {H(c)} : pc'[u] = pc[u]
        /\ UNCHANGED sent
    BY <1>0, <1>7, SigIntFrame
  <2>2. SameTexts /\ Wakes
    BY <1>t, <2>1 DEF Posted
  <2>3. CASE SigintWait(c)
    <3>1. S' = S - 1 /\ pc[H(c)] = "wait" /\ pc'[H(c)] = "index"
      BY <1>0, <2>3 DEF SigintWait, SemWait, Goto, TypeOK
    <3>2. Holders' = Holders \cup {H(c)} /\ H(c) \notin Holders
      BY <2>1, <3>1 DEF Holders, Section
    <3> QED BY <1>a, <2>2, <3>1, <3>2
  <2>4. CASE SigintPost(c)
    <3>1. S' = S + 1 /\ pc[H(c)] = "posted" /\ pc'[H(c)] = "unlink"
      BY <1>0, <2>4 DEF SigintPost, SemPost, Goto, TypeOK
    <3>2. Holders' = Holders \ {H(c)} /\ H(c) \in Holders
      BY <2>1, <3>1 DEF Holders, Section
    <3> QED BY <1>b, <2>2, <3>1, <3>2
  <2>5. CASE Sigint(c)
    <3>1. UNCHANGED <<pc, shm>>
      BY <2>5 DEF Sigint
    <3> QED BY <1>d, <2>1, <2>2, <3>1 DEF Holders
  <2>6. CASE SigintExit(c)
    <3>1. UNCHANGED shm /\ pc[H(c)] = "unlink" /\ pc'[H(c)] = "exited"
      BY <1>0, <2>6 DEF SigintExit, Goto, TypeOK
    <3>2. Holders' = Holders
      BY <2>1, <3>1 DEF Holders, Section
    <3> QED BY <1>d, <2>2, <3>1, <3>2
  <2> QED BY <1>7, <2>3, <2>4, <2>5, <2>6 DEF SigIntTrt
<1> QED BY <1>2, <1>3, <1>4, <1>5, <1>6, <1>7 DEF Next

(* The tokens are accounted for in every state.                            *)
LEMMA TokensInvariant == Spec => []Tokens
<1>1. Init => Tokens
  <2> SUFFICES ASSUME Init PROVE Tokens
    OBVIOUS
  <2>1. Holders = {}
    BY ThreadNames DEF Init, Holders, Section
  <2>2. TextsPosted = {}
    BY ChatAssumption DEF Init, TextsPosted, Posted
  <2>3. shm[Serveur].sem = 1
    BY DEF Init
  <2> QED BY <2>1, <2>2, <2>3, FS_EmptySet DEF Tokens, ServerTokens
<1>2. Base /\ Tokens /\ [Next]_vars => Tokens'
  <2>1. CASE UNCHANGED vars
    BY <2>1 DEF vars, tables, Tokens, ServerTokens, Holders, TextsPosted, Posted
  <2> QED BY <2>1, TokensStep
<1> QED BY <1>1, <1>2, BaseInvariant, PTL DEF Spec

(* The semaphore of the server has as many tokens too many as texts were   *)
(* posted, no more.                                                        *)
THEOREM TokensAccounted == Spec => []ServerTokens
<1>1. Tokens => ServerTokens
  BY DEF Tokens
<1> QED BY <1>1, TokensInvariant, PTL
-----------------------------------------------------------------------------
(* Without texts, the semaphore of the server excludes.                    *)
LEMMA Alone ==
  ASSUME Base, Tokens, Quiet, pc[Serveur] # "exited", NEW s \in Holders, NEW t \in Holders
  PROVE  s = t
<1>1. TextsPosted = {}
  BY ChatAssumption DEF Quiet, TextsPosted, Posted
<1>2. Cardinality(Holders) <= 1
  <2>1. Cardinality(TextsPosted) = 0
    BY <1>1, FS_EmptySet
  <2>2. Cardinality(Holders) \in Nat /\ shm[Serveur].sem \in Nat
    BY ThreadNames, FS_CardinalityType DEF Base, TypeOK, Tokens
  <2>3. shm[Serveur].sem + Cardinality(Holders) = 1 + Cardinality(TextsPosted)
    BY DEF Tokens, ServerTokens
  <2> QED BY <2>1, <2>2, <2>3
<1>3. ASSUME s # t PROVE FALSE
  <2>1. /\ IsFiniteSet(Holders \ {s})
        /\ Cardinality(Holders \ {s}) = Cardinality(Holders) - 1
    BY FS_RemoveElement DEF Tokens
  <2>2. t \in Holders \ {s}
    BY <1>3
  <2>3. /\ IsFiniteSet((Holders \ {s}) \ {t})
        /\ Cardinality((Holders \ {s}) \ {t}) = Cardinality(Holders \ {s}) - 1
    BY <2>1, <2>2, FS_RemoveElement
  <2>4. Cardinality((Holders \ {s}) \ {t}) \in Nat /\ Cardinality(Holders) \in Nat
    BY <2>3, FS_CardinalityType DEF Tokens
  <2> QED BY <1>2, <2>1, <2>3, <2>4
<1> QED BY <1>3

LEMMA QuietBefore ==
  ASSUME Base, Next, Quiet'
  PROVE  /\ Quiet /\ \A c \in Clients : sent'[c] = 0
         /\ emplacementVide => emplacementVide'
         /\ \A c \in Clients : pc[W(c)] # "wait" => pc'[W(c)] # "wait"
<1>1. TypeOK /\ TypeOK' /\ [TableNext]_tvars
  BY TypeStep, TableRefines DEF Base
<1>2. emplacementVide => emplacementVide'
  BY <1>1 DEF TableNext, Connexion, Deconnexion, Remove, tvars
<1>3. \A c \in Clients : sent[c] \in Nat /\ (sent'[c] = sent[c] \/ sent'[c] = sent[c] + 1)
  <2>1. sent \in [Clients -> Nat]
    BY <1>1 DEF TypeOK
  <2>2. ASSUME NEW c \in Clients, Demarre(c) PROVE UNCHANGED sent
    BY <2>2 DEF Demarre
  <2>3. ASSUME NEW c \in Clients, Ecriture(c)
        PROVE  UNCHANGED sent \/ sent' = [sent EXCEPT ![c] = @ + 1]
    BY <2>3 DEF Ecriture, EcritureWait, EcriturePost, EcritureScanf, EcritureOwn, EcritureRelease, private
  <2> QED BY <1>1, <2>1, <2>2, <2>3, ServeurFrame, PostFrame, LectureFrame, SigIntFrame DEF Next
<1>4. ASSUME NEW c \in Clients, pc[W(c)] # "wait" PROVE pc'[W(c)] # "wait"
  <2>1. /\ ServeurMain => pc'[W(c)] = pc[W(c)]
        /\ \A d \in Clients : Demarre(d) \/ Lecture(d) \/ SigIntTrt(d) => pc'[W(c)] = pc[W(c)]
    BY <1>1, ThreadNames, ServeurFrame, LectureFrame, SigIntFrame DEF Demarre
  <2>2. ASSUME NEW t \in Posters, Post(t) PROVE pc'[W(c)] # "wait"
    <3>1. W(c) # t => pc'[W(c)] = pc[W(c)]
      BY <1>1, <2>2, ThreadNames, PostFrame
    <3>2. pc'[t] # "wait"
      <4>1. t \in Threads
        BY ThreadNames
      <4> QED BY <1>1, <2>2, <4>1 DEF Post, PostIndex, PostType, PostContent, PostLoad, PostStore, Goto, TypeOK
    <3> QED BY <1>4, <3>1, <3>2
  <2>3. ASSUME NEW d \in Clients, Ecriture(d) PROVE pc'[W(c)] # "wait"
    <3>1. W(c) # W(d) => pc'[W(c)] = pc[W(c)]
      BY <1>1, <2>3, ThreadNames, EcritureFrame
    <3>2. pc'[W(d)] # "wait"
      BY <1>1, <2>3, ThreadNames DEF Ecriture, EcritureWait, EcriturePost, EcritureScanf, EcritureOwn,
        EcritureRelease, Goto, TypeOK
    <3> QED BY <1>4, <3>1, <3>2
  <2> QED BY <1>4, <2>1, <2>2, <2>3 DEF Next
<1> QED BY <1>2, <1>3, <1>4 DEF Quiet

(* A sender inside the section is alone, and the server waits.             *)
LEMMA SenderAlone ==
  ASSUME Base, Tokens, Quiet, Calm, NEW t \in Posters, pc[t] \in Section
  PROVE  /\ pc[Serveur] = "wait"
         /\ \A u \in Posters \ {t} : pc[u] \notin Section
<1> USE ThreadNames
<1>1. pc[Serveur] # "exited"
  BY DEF Calm, QServeur
<1>2. \A u \in Posters : pc[u] \in Section => u \in Holders
  BY DEF Quiet, Holders
<1>3. pc[Serveur] # "wait" => Serveur \in Holders
  BY <1>1 DEF Holders
<1> QED BY <1>1, <1>2, <1>3, Alone

(* When the server treats a message no sender is inside.                   *)
LEMMA ServeurAlone ==
  ASSUME Base, Tokens, Quiet, Calm, pc[Serveur] # "wait"
  PROVE  \A u \in Posters : pc[u] \notin Section
<1>1. \A u \in Posters : u # Serveur
  BY ThreadNames
<1> QED BY <1>1, SenderAlone

(* What goes out of a sender.                                              *)
LEMMA QuietOutgoing ==
  ASSUME Quiet, NEW c \in Clients
  PROVE  /\ Outgoing(W(c)).type = 1 /\ Outgoing(W(c)).content = c
         /\ Outgoing(H(c)).type = 3 /\ Outgoing(H(c)).content = c
  BY ThreadNames DEF Quiet, Outgoing

(* A connexion that finds no hole adds a name, a deconnexion takes away    *)
(* that name only.                                                         *)
LEMMA TreatedTable ==
  ASSUME Base, ~emplacementVide', mess.content \in Names \cup {NoName}, NEW c \in Clients
  PROVE  /\ Connexion(mess.content) => /\ c \in Present => c \in Present'
                                       /\ c = mess.content => c \in Present'
         /\ Deconnexion(mess.content) /\ c # mess.content /\ c \in Present => c \in Present'
<1>0. /\ c # NoName /\ MAX_USERS \in Nat
      /\ tabClient \in [Slots -> Names \cup {NoName}] /\ nbUserCourant \in 0 .. MAX_USERS
  BY TableAssumption, ChatAssumption DEF Base, TypeOK, TableTypeOK
<1>1. ASSUME Connexion(mess.content)
      PROVE  (c \in Present => c \in Present') /\ (c = mess.content => c \in Present')
  <2> DEFINE filled == [j \in Slots |-> IF j \in Holes THEN mess.content ELSE tabClient[j]]
  <2>1. /\ Holes = {} /\ nbUserCourant < MAX_USERS
        /\ tabClient' = [filled EXCEPT ![nbUserCourant] = mess.content]
        /\ nbUserCourant' = nbUserCourant + 1
    BY <1>1 DEF Connexion
  <2>2. tabClient' = [tabClient EXCEPT ![nbUserCourant] = mess.content]
    BY <1>0, <2>1
  <2>3. nbUserCourant \in Used' /\ tabClient'[nbUserCourant] = mess.content
    BY <1>0, <2>1, <2>2 DEF Used, Slots
  <2>4. \A j \in Used : j \in Used' /\ tabClient'[j] = tabClient[j]
    BY <1>0, <2>1, <2>2 DEF Used, Slots
  <2> QED BY <1>0, <2>3, <2>4 DEF Present
<1>2. ASSUME Deconnexion(mess.content), c # mess.content, c \in Present
      PROVE  c \in Present'
  <2>1. CASE UNCHANGED tvars
    BY <1>2, <2>1 DEF tvars, Present, Used
  <2>2. ASSUME NEW k \in Used, tabClient[k] = mess.content, Remove(k)
        PROVE  c \in Present'
    <3>1. PICK j \in Used : tabClient[j] = c
      BY <1>2 DEF Present
    <3>2. CASE j < k
      <4>1. j \in Used' /\ tabClient'[j] = c
        BY <1>0, <2>2, <3>1, <3>2 DEF Remove, Used, Slots
      <4> QED BY <1>0, <4>1 DEF Present
    <3>3. CASE j > k
      <4>1. j - 1 \in Used' /\ tabClient'[j - 1] = c
        BY <1>0, <2>2, <3>1, <3>3 DEF Remove, Used, Slots
      <4> QED BY <1>0, <4>1 DEF Present
    <3>4. j # k /\ j \in Int /\ k \in Int
      BY <1>0, <1>2, <2>2, <3>1 DEF Used, Slots
    <3> QED BY <3>2, <3>3, <3>4
  <2> QED BY <1>2, <2>1, <2>2 DEF Deconnexion
<1> QED BY <1>1, <1>2

(* The steps of the server keep Calm: the message it treats is the last    *)
(* one posted, and its name is added, or was of a user that leaves.        *)
LEMMA CalmServeur ==
  ASSUME Base, Tokens, Quiet, Quiet', Calm, ServeurMain
  PROVE  Calm'
<1> USE ThreadNames
<1>0. /\ TypeOK /\ ServeurOK /\ IndexOK
      /\ \A t \in Posters : pc'[t] = pc[t] /\ reg'[t] = reg[t]
      /\ UNCHANGED <<messages, sent, status, linked>>
      /\ shm[Serveur].write \in Nat
  BY ServeurFrame DEF Base, TypeOK
<1>1. QServeur /\ QPosters /\ QMessages /\ QConnected
  BY DEF Calm
<1>c. /\ emplacementVide => emplacementVide'
      /\ \A u : Came(u) => Came(u)'
  <2>1. Next
    BY DEF Next
  <2> QED BY <1>0, <2>1, QuietBefore DEF Came
<1>o. \A t \in Posters : Outgoing(t)' = Outgoing(t)
  BY <1>0 DEF Outgoing
<1>f. ASSUME shm'[Serveur].write = shm[Serveur].write \/ (\A t \in Posters : pc[t] \notin Section)
      PROVE  QPosters'
  BY <1>0, <1>1, <1>o, <1>f DEF QPosters, Section
<1>l. ASSUME Live' = Live
      PROVE  /\ \A j \in Index : messages'[j].type # 2
             /\ \A j \in Index : j < Live' /\ messages'[j].type = 1 => Came(messages[j].content)'
             /\ \A j \in Index : j < Live' /\ messages'[j].type = 3 => Left(messages[j].content)'
  BY <1>0, <1>1, <1>c, <1>l DEF QMessages, Came, Left
<1>p. ASSUME Live' = Live, UNCHANGED tables
      PROVE  QConnected'
  BY <1>0, <1>1, <1>p DEF QConnected, Present, Used, tables
<1>2. CASE ServeurWait \/ ServeurTest \/ ServeurPost
  <2>1. /\ UNCHANGED <<tables, mess>>
        /\ shm'[Serveur].write = shm[Serveur].write
        /\ pc[Serveur] \in {"wait", "test", "post"} /\ pc'[Serveur] \in {"wait", "test", "index", "post"}
    BY <1>0, <1>2 DEF ServeurWait, ServeurTest, ServeurPost, SemWait, SemPost, Goto, private, TypeOK
  <2>2. Live' = Live
    BY <2>1 DEF Live
  <2>3. QServeur'
    BY <2>1 DEF QServeur
  <2> QED BY <1>1, <1>f, <1>l, <1>p, <2>1, <2>2, <2>3 DEF Calm, QMessages
<1>3. CASE ServeurIndex
  <2>1. /\ UNCHANGED <<tables, mess, shm>>
        /\ pc[Serveur] = "index" /\ pc'[Serveur] = "type"
        /\ reg'[Serveur] = shm[Serveur].write - 1
    BY <1>0, <1>3 DEF ServeurIndex, Goto, private, TypeOK
  <2>2. Live' = Live
    BY <2>1 DEF Live
  <2>3. QServeur'
    BY <2>1 DEF QServeur
  <2> QED BY <1>1, <1>f, <1>l, <1>p, <2>1, <2>2, <2>3 DEF Calm, QMessages
<1>4. CASE ServeurType
  <2>1. /\ UNCHANGED <<tables, shm, reg>>
        /\ pc[Serveur] = "type" /\ pc'[Serveur] = "content"
        /\ mess'.type = messages[reg[Serveur]].type
    BY <1>0, <1>4 DEF ServeurType, Goto, private, TypeOK
  <2>2. Live' = Live
    BY <2>1 DEF Live
  <2>3. reg[Serveur] = shm[Serveur].write - 1 /\ reg[Serveur] \in Index
    BY <1>0, <1>1, <2>1 DEF QServeur, IndexOK
  <2>4. QServeur'
    BY <1>0, <2>1, <2>3 DEF QServeur
  <2>5. mess'.type # 2
    BY <1>1, <2>1, <2>3 DEF QMessages
  <2> QED BY <1>f, <1>l, <1>p, <2>1, <2>2, <2>4, <2>5 DEF Calm, QMessages
<1>5. CASE ServeurContent
  <2>1. /\ UNCHANGED <<tables, shm, reg>>
        /\ pc[Serveur] = "content" /\ pc'[Serveur] = "switch"
        /\ mess'.content = messages[reg[Serveur]].content /\ mess'.type = mess.type
    BY <1>0, <1>5 DEF ServeurContent, Goto, private, TypeOK
  <2>2. Live' = Live
    BY <2>1 DEF Live
  <2>3. reg[Serveur] = shm[Serveur].write - 1
    BY <1>1, <2>1 DEF QServeur
  <2>4. QServeur'
    BY <1>0, <1>1, <2>1, <2>3 DEF QServeur
  <2> QED BY <1>1, <1>f, <1>l, <1>p, <2>1, <2>2, <2>4 DEF Calm, QMessages
<1>6. CASE ServeurTable
  <2>1. /\ UNCHANGED <<mess, shm, reg>>
        /\ pc[Serveur] = "switch" /\ pc'[Serveur] = "load"
    BY <1>0, <1>6 DEF ServeurTable, Goto, TypeOK
  <2> DEFINE last == shm[Serveur].write - 1
  <2>2. Live = last + 1 /\ Live' = last /\ last \in Int
    BY <1>0, <2>1 DEF Live
  <2>3. mess.type = messages[last].type /\ mess.content = messages[last].content
    BY <1>1, <2>1 DEF QServeur
  <2>4. QServeur'
    BY <2>1 DEF QServeur
  <2>5. last \in Index
    <3>1. shm[Serveur].write > 0
      BY <1>0, <2>1 DEF ServeurOK
    <3>2. /\ shm[Serveur].write + Cardinality(Pending) <= Cardinality(Events)
          /\ Cardinality(Events) <= MaxEvents
          /\ Cardinality(Events) \in Nat /\ Cardinality(Pending) \in Nat /\ MaxEvents \in Nat
      BY FS_CardinalityType, ChatAssumption DEF Base, Bounded
    <3> QED BY <1>0, <3>1, <3>2 DEF Index, MaxMess
  <2>6. \A j \in Index : j < Live' => j < Live
    BY <2>2 DEF Index
  <2>7. QMessages'
    BY <1>0, <1>1, <1>c, <2>1, <2>6 DEF QMessages, Came, Left
  <2>8. ASSUME ~emplacementVide', NEW c \in Clients, pc'[W(c)] \in {"posted", "scanf"}, status'[c] = "run"
        PROVE  \/ c \in Present'
               \/ \E j \in Index : j < Live' /\ messages'[j].type = 1 /\ messages'[j].content = c
    <3> DEFINE Waits(n) == \E j \in Index : j < n /\ messages[j].type = 1 /\ messages[j].content = c
    <3>1. c \in Present \/ Waits(Live)
      BY <1>0, <1>1, <1>c, <2>8 DEF QConnected
    <3>2. mess.type = 3 => c # mess.content
      <4>1. last < Live
        BY <2>2
      <4>2. messages[last].type = 3 => Left(messages[last].content)
        BY <1>1, <2>5, <4>1 DEF QMessages
      <4> QED BY <1>0, <2>3, <2>8, <4>2 DEF Left
    <3>3. mess.content \in Names \cup {NoName}
      BY <1>0 DEF TypeOK
    <3>4. c \in Present => c \in Present'
      <4>1. CASE mess.type = 1 /\ Connexion(mess.content)
        BY <2>8, <3>3, <4>1, TreatedTable
      <4>2. CASE mess.type = 3 /\ Deconnexion(mess.content)
        BY <2>8, <3>2, <3>3, <4>2, TreatedTable
      <4>3. CASE UNCHANGED tables
        BY <4>3 DEF tables, Present, Used
      <4> QED BY <1>6, <4>1, <4>2, <4>3 DEF ServeurTable
    <3>5. Waits(Live) => Waits(Live') \/ (messages[last].type = 1 /\ messages[last].content = c)
      BY <2>2 DEF Index
    <3>6. ASSUME messages[last].type = 1, messages[last].content = c PROVE c \in Present'
      <4>1. Connexion(mess.content) /\ c = mess.content
        BY <1>6, <2>3, <3>6 DEF ServeurTable
      <4> QED BY <2>8, <3>3, <4>1, TreatedTable
    <3> QED BY <1>0, <3>1, <3>4, <3>5, <3>6
  <2>9. QConnected'
    BY <2>8 DEF QConnected
  <2> QED BY <1>f, <2>1, <2>4, <2>7, <2>9 DEF Calm
<1>7. CASE ServeurLoad
  <2>1. /\ UNCHANGED <<tables, mess, shm>>
        /\ pc[Serveur] = "load" /\ pc'[Serveur] = "store"
        /\ reg'[Serveur] = shm[Serveur].write
    BY <1>0, <1>7 DEF ServeurLoad, Goto, private, TypeOK
  <2>2. Live' = Live
    BY <2>1 DEF Live
  <2>3. QServeur'
    BY <2>1 DEF QServeur
  <2> QED BY <1>1, <1>f, <1>l, <1>p, <2>1, <2>2, <2>3 DEF Calm, QMessages
<1>8. CASE ServeurStore
  <2>1. /\ UNCHANGED tables /\ mess' = Empty
        /\ pc[Serveur] = "store" /\ pc'[Serveur] = "test"
        /\ shm'[Serveur].write = reg[Serveur] - 1
    BY <1>0, <1>8 DEF ServeurStore, Goto, TypeOK
  <2>2. Live' = Live
    BY <1>1, <2>1 DEF Live, QServeur
  <2>3. QServeur'
    BY <2>1 DEF QServeur
  <2>4. \A t \in Posters : pc[t] \notin Section
    BY <2>1, ServeurAlone
  <2>5. mess'.type # 2
    BY <2>1 DEF Empty
  <2> QED BY <1>f, <1>l, <1>p, <2>1, <2>2, <2>3, <2>4, <2>5 DEF Calm, QMessages
<1>9. CASE Diffusion
  BY <1>1, <1>9 DEF QServeur, QMessages, Diffusion, ServeurDiffusion, ServeurOpen, DeliverWait, DeliverMessage,
    DeliverCount, DeliverPost, Goto
<1> QED BY <1>2, <1>3, <1>4, <1>5, <1>6, <1>7, <1>8, <1>9 DEF ServeurMain

(* So do those of a sender: it is alone, and writes above the messages     *)
(* posted until it counts its own.                                         *)
LEMMA CalmPost ==
  ASSUME Base, Tokens, Quiet, Quiet', Calm, NEW t \in Posters, Post(t)
  PROVE  Calm'
<1> USE ThreadNames
<1> DEFINE wr == shm[Serveur].write
           o == Outgoing(t)
<1>0. /\ TypeOK /\ t \in Threads
      /\ \A u \in Threads \ {t} : pc'[u] = pc[u] /\ reg'[u] = reg[u]
      /\ UNCHANGED <<tables, mess, i, sent, status, linked>>
      /\ pc[t] \in {"index", "type", "content", "load", "store"}
  BY PostFrame DEF Base
<1>1. QServeur /\ QPosters /\ QMessages /\ QConnected
  BY DEF Calm
<1>c. \A u : Came(u) => Came(u)'
  <2>1. Next
    BY DEF Next
  <2> QED BY <1>0, <2>1, QuietBefore DEF Came
<1>2. /\ pc[Serveur] = "wait" /\ pc'[Serveur] = "wait"
      /\ \A u \in Posters \ {t} : pc[u] \notin Section /\ pc'[u] \notin Section
  BY <1>0, SenderAlone DEF Section
<1>3. /\ QServeur' /\ Live = wr /\ Live' = shm'[Serveur].write
      /\ Outgoing(t)' = o
  BY <1>0, <1>2 DEF QServeur, Live, Outgoing
<1>4. wr \in Index /\ (pc[t] = "store" => wr + 1 \in Index) /\ MaxEvents \in Nat
  <2>1. /\ wr \in Nat /\ wr + Cardinality(Pending) <= Cardinality(Events)
        /\ Cardinality(Events) <= MaxEvents
        /\ Cardinality(Events) \in Nat /\ Cardinality(Pending) \in Nat /\ MaxEvents \in Nat
    BY FS_CardinalityType, ChatAssumption DEF Base, Bounded, TypeOK
  <2>2. ASSUME pc[t] = "store" PROVE Cardinality(Pending) # 0
    <3>1. PostStore(t)
      BY <2>2 DEF Post, PostIndex, PostType, PostContent, PostLoad, PostStore, Goto
    <3>2. t \in Pending
      BY <3>1, StoreCounts
    <3> QED BY <3>2, FS_EmptySet DEF Base, Bounded
  <2>3. wr \in Index
    BY <2>1 DEF Index, MaxMess
  <2>4. ASSUME pc[t] = "store" PROVE wr + 1 \in Index
    <3>1. Cardinality(Pending) # 0
      BY <2>2, <2>4
    <3>2. wr + 1 \in 0 .. MaxEvents
      BY <2>1, <3>1
    <3> QED BY <3>2 DEF Index, MaxMess
  <2> QED BY <2>1, <2>3, <2>4
<1>q. ASSUME pc'[t] \in {"type", "content", "store"} => reg'[t] = shm'[Serveur].write,
             pc'[t] \in {"content", "load", "store"} => messages'[shm'[Serveur].write].type = o.type,
             pc'[t] \in {"load", "store"} => messages'[shm'[Serveur].write].content = o.content
      PROVE  QPosters'
  BY <1>2, <1>3, <1>q DEF QPosters, Section
<1>m. ASSUME \A j \in Index : messages'[j].type # 2,
             \A j \in Index : j < wr => messages'[j] = messages[j],
             UNCHANGED shm, pc'[t] \in {"type", "content", "load", "store"}
      PROVE  QMessages' /\ QConnected'
  <2>1. Live' = Live
    BY <1>3, <1>m
  <2>2. QMessages'
    BY <1>0, <1>1, <1>3, <1>c, <1>m, <2>1 DEF QMessages, Came, Left
  <2>3. \A c \in Clients : pc'[W(c)] \in {"posted", "scanf"} => pc[W(c)] \in {"posted", "scanf"}
    BY <1>0, <1>2, <1>m DEF Section, TypeOK
  <2>4. QConnected'
    BY <1>0, <1>1, <1>3, <1>m, <2>1, <2>3 DEF QConnected, Present, Used, tables
  <2> QED BY <2>2, <2>4
<1>o. \E c \in Clients : \/ t = W(c) /\ o.type = 1 /\ o.content = c
                         \/ t = H(c) /\ o.type = 3 /\ o.content = c
  <2>1. PICK c \in Clients : t = W(c) \/ t = H(c)
    OBVIOUS
  <2> QED BY <2>1, QuietOutgoing
<1> HIDE DEF o
<1>5. CASE PostIndex(t)
  <2>1. /\ UNCHANGED <<shm, messages>> /\ pc[t] = "index" /\ pc'[t] = "type"
        /\ reg'[t] = wr
    BY <1>0, <1>5 DEF PostIndex, Goto, private, TypeOK
  <2>2. QPosters'
    BY <1>q, <2>1
  <2> QED BY <1>1, <1>3, <1>m, <2>1, <2>2 DEF Calm, QMessages
<1>6. CASE PostType(t)
  <2>1. /\ UNCHANGED <<shm, reg>> /\ pc[t] = "type" /\ pc'[t] = "content"
        /\ messages' = [messages EXCEPT ![reg[t]].type = o.type]
    BY <1>0, <1>6 DEF PostType, Goto, TypeOK, o
  <2>2. reg[t] = wr
    BY <1>1, <2>1 DEF QPosters
  <2>3. /\ messages'[wr].type = o.type
        /\ \A j \in Index : j # wr => messages'[j] = messages[j]
    BY <1>0, <1>4, <2>1, <2>2 DEF TypeOK
  <2>4. QPosters'
    BY <1>q, <2>1, <2>2, <2>3
  <2>5. o.type # 2
    BY <1>o
  <2>6. \A j \in Index : messages'[j].type # 2
    BY <1>1, <2>3, <2>5 DEF QMessages
  <2>7. \A j \in Index : j < wr => messages'[j] = messages[j]
    BY <1>4, <2>3 DEF Index
  <2> QED BY <1>3, <1>m, <2>1, <2>4, <2>6, <2>7 DEF Calm
<1>7. CASE PostContent(t)
  <2>1. /\ UNCHANGED <<shm, reg>> /\ pc[t] = "content" /\ pc'[t] = "load"
        /\ messages' = [messages EXCEPT ![reg[t]].content = o.content]
    BY <1>0, <1>7 DEF PostContent, Goto, TypeOK, o
  <2>2. reg[t] = wr /\ messages[wr].type = o.type
    BY <1>1, <2>1 DEF QPosters, o
  <2>3. /\ messages'[wr].content = o.content
        /\ \A j \in Index : messages'[j].type = messages[j].type
        /\ \A j \in Index : j # wr => messages'[j] = messages[j]
    BY <1>0, <1>4, <2>1, <2>2 DEF TypeOK
  <2>4. QPosters'
    BY <1>4, <1>q, <2>1, <2>2, <2>3
  <2>6. \A j \in Index : messages'[j].type # 2
    BY <1>1, <2>3 DEF QMessages
  <2>7. \A j \in Index : j < wr => messages'[j] = messages[j]
    BY <1>4, <2>3 DEF Index
  <2> QED BY <1>3, <1>m, <2>1, <2>4, <2>6, <2>7 DEF Calm
<1>8. CASE PostLoad(t)
  <2>1. /\ UNCHANGED <<shm, messages>> /\ pc[t] = "load" /\ pc'[t] = "store"
        /\ reg'[t] = wr
    BY <1>0, <1>8 DEF PostLoad, Goto, private, TypeOK
  <2>2. messages[wr].type = o.type /\ messages[wr].content = o.content
    BY <1>1, <2>1 DEF QPosters, o
  <2>3. QPosters'
    BY <1>q, <2>1, <2>2
  <2> QED BY <1>1, <1>3, <1>m, <2>1, <2>3 DEF Calm, QMessages
<1>9. CASE PostStore(t)
  <2>1. /\ UNCHANGED messages /\ pc[t] = "store" /\ pc'[t] = "posted"
        /\ shm'[Serveur].write = reg[t] + 1
    BY <1>0, <1>9 DEF PostStore, Goto, private, TypeOK
  <2>2. reg[t] = wr /\ messages[wr].type = o.type /\ messages[wr].content = o.content
    BY <1>1, <2>1 DEF QPosters, o
  <2>3. Live' = wr + 1 /\ wr \in Int
    BY <1>3, <1>4, <2>1, <2>2 DEF Index
  <2>4. QPosters'
    BY <1>q, <2>1
  <2>5. QMessages'
    <3>1. ASSUME NEW j \in Index, j < Live', messages'[j].type = 3
          PROVE  Left(messages[j].content)'
      <4>1. CASE j = wr
        <5>1. PICK c \in Clients : t = H(c) /\ o.content = c
          BY <1>o, <2>1, <2>2, <3>1, <4>1
        <5>2. status[c] \notin {"off", "run"}
          BY <2>1, <5>1 DEF Base, StatusOK
        <5> QED BY <1>0, <2>1, <2>2, <4>1, <5>1, <5>2 DEF Left
      <4>2. CASE j # wr
        <5>1. j < Live
          BY <1>3, <2>3, <3>1, <4>2 DEF Index
        <5> QED BY <1>0, <1>1, <2>1, <3>1, <5>1 DEF QMessages, Left
      <4> QED BY <4>1, <4>2
    <3>2. ASSUME NEW j \in Index, j < Live', messages'[j].type = 1
          PROVE  Came(messages[j].content)'
      <4>1. CASE j = wr
        <5>1. PICK c \in Clients : t = W(c) /\ o.content = c
          BY <1>o, <2>1, <2>2, <3>2, <4>1
        <5>2. pc'[W(c)] # "wait"
          BY <2>1, <5>1
        <5> QED BY <1>0, <2>1, <2>2, <4>1, <5>1, <5>2 DEF Came
      <4>2. CASE j # wr
        <5>1. j < Live
          BY <1>3, <2>3, <3>2, <4>2 DEF Index
        <5> QED BY <1>0, <1>1, <1>c, <2>1, <3>2, <5>1 DEF QMessages, Came
      <4> QED BY <4>1, <4>2
    <3> QED BY <1>0, <1>1, <2>1, <3>1, <3>2 DEF QMessages
  <2>6. QConnected'
    <3> SUFFICES ASSUME ~emplacementVide, NEW c \in Clients, pc'[W(c)] \in {"posted", "scanf"}, status'[c] = "run"
                 PROVE  \/ c \in Present'
                        \/ \E j \in Index : j < Live' /\ messages'[j].type = 1 /\ messages'[j].content = c
      BY <1>0 DEF QConnected, tables
    <3>1. CASE t = W(c)
      <4>1. o.type = 1 /\ o.content = c
        BY <3>1, QuietOutgoing DEF o
      <4>2. wr < Live'
        BY <2>3
      <4> QED BY <1>4, <2>1, <2>2, <4>1, <4>2
    <3>2. CASE t # W(c)
      <4>1. \/ c \in Present
            \/ \E j \in Index : j < Live /\ messages[j].type = 1 /\ messages[j].content = c
        BY <1>0, <1>1, <3>2 DEF QConnected
      <4>2. \A j \in Index : j < Live => j < Live'
        BY <1>3, <2>3 DEF Index
      <4> QED BY <1>0, <2>1, <4>1, <4>2 DEF Present, Used, tables
    <3> QED BY <3>1, <3>2
  <2> QED BY <1>3, <2>4, <2>5, <2>6 DEF Calm
<1> QED BY <1>5, <1>6, <1>7, <1>8, <1>9 DEF Post

(* So do the others: they touch neither the messages nor the table.        *)
LEMMA CalmClients ==
  ASSUME Base, Tokens, Quiet, Quiet', Calm, NEW c \in Clients,
         Demarre(c) \/ Ecriture(c) \/ Lecture(c) \/ SigIntTrt(c)
  PROVE  Calm'
<1> USE ThreadNames
<1>0. TypeOK /\ TypeOK' /\ (\A d \in Clients : StatusOK(d) /\ sent[d] = 0 /\ sent'[d] = 0)
  BY TypeStep DEF Base, Next, Quiet
<1>1. QServeur /\ QPosters /\ QMessages /\ QConnected
  BY DEF Calm
<1>c. \A u : Came(u) => Came(u)'
  <2>1. Next
    BY DEF Next
  <2> QED BY <1>0, <2>1, QuietBefore DEF Came
<1>2. /\ UNCHANGED <<tables, messages, mess, sent>>
      /\ pc'[Serveur] = pc[Serveur] /\ reg'[Serveur] = reg[Serveur]
      /\ shm'[Serveur].write = shm[Serveur].write
      /\ \A t \in Posters : reg'[t] = reg[t]
  <2>1. sent' = sent
    BY <1>0 DEF TypeOK
  <2> QED BY <1>0, <2>1, EcritureFrame, LectureFrame, SigIntFrame DEF Demarre
<1>3. \A t \in Posters : \/ pc'[t] = pc[t]
                         \/ pc'[t] \notin {"type", "content", "load", "store", "posted", "scanf"}
                         \/ pc[t] = "posted" /\ pc'[t] = "scanf"
  <2>1. CASE Demarre(c)
    BY <2>1 DEF Demarre
  <2>2. CASE Ecriture(c)
    <3>1. \A t \in Threads \ {W(c)} : pc'[t] = pc[t]
      BY <1>0, <2>2, EcritureFrame
    <3>2. pc'[W(c)] = "index" \/ (pc[W(c)] = "posted" /\ pc'[W(c)] = "scanf")
      BY <1>0, <2>2 DEF Ecriture, EcritureWait, EcriturePost, EcritureScanf, EcritureOwn, EcritureRelease,
        Goto, TypeOK, StatusOK
    <3> QED BY <3>1, <3>2
  <2>3. CASE Lecture(c)
    BY <1>0, <2>3, LectureFrame
  <2>4. CASE SigIntTrt(c)
    <3>1. \A t \in Threads \ {H(c)} : pc'[t] = pc[t]
      BY <1>0, <2>4, SigIntFrame
    <3>2. pc'[H(c)] = pc[H(c)] \/ pc'[H(c)] \in {"index", "unlink", "exited"}
      BY <1>0, <2>4 DEF SigIntTrt, Sigint, SigintWait, SigintPost, SigintExit, Goto, TypeOK
    <3> QED BY <3>1, <3>2
  <2> QED BY <2>1, <2>2, <2>3, <2>4
<1>4. /\ \A d \in Clients : status[d] \notin {"off", "run"} => status'[d] \notin {"off", "run"}
      /\ \A d \in Clients : status'[d] = "run" => status[d] = "run" \/ pc[W(d)] = "wait"
  <2>1. CASE Demarre(c)
    BY <1>0, <2>1 DEF Demarre, TypeOK, StatusOK
  <2>2. CASE Ecriture(c) \/ Lecture(c)
    BY <1>0, <2>2, EcritureFrame, LectureFrame
  <2>3. CASE SigIntTrt(c)
    BY <1>0, <2>3 DEF SigIntTrt, Sigint, SigintWait, SigintPost, SigintExit, private, TypeOK
  <2> QED BY <2>1, <2>2, <2>3
<1>5. Live' = Live /\ QServeur'
  BY <1>1, <1>2 DEF Live, QServeur
<1>6. QPosters'
  <2>1. \A t \in Posters : Outgoing(t)' = Outgoing(t)
    BY <1>2 DEF Outgoing
  <2>2. \A t \in Posters : pc'[t] \in {"type", "content", "load", "store"} => pc'[t] = pc[t]
    BY <1>3
  <2> QED BY <1>1, <1>2, <2>1, <2>2 DEF QPosters
<1>7. QMessages'
  BY <1>1, <1>2, <1>4, <1>5, <1>c DEF QMessages, Came, Left
<1>8. QConnected'
  <2>1. \A d \in Clients : pc'[W(d)] \in {"posted", "scanf"} /\ status'[d] = "run" =>
                              pc[W(d)] \in {"posted", "scanf"} /\ status[d] = "run"
    <3>1. \A d \in Clients : pc'[W(d)] \in {"posted", "scanf"} => pc[W(d)] \in {"posted", "scanf"}
      BY <1>3
    <3> QED BY <1>4, <3>1
  <2> QED BY <1>1, <1>2, <1>5, <2>1 DEF QConnected, Present, Used, tables
<1> QED BY <1>5, <1>6, <1>7, <1>8 DEF Calm

(* While no text was sent, all this holds.                                 *)
LEMMA CalmInvariant == Spec => [](Base /\ Tokens /\ (Quiet => Calm))
<1> DEFINE CalmIfQuiet == Quiet => Calm
<1>1. Init => CalmIfQuiet
  <2> SUFFICES ASSUME Init PROVE Calm
    OBVIOUS
  <2>1. QServeur /\ QPosters /\ QMessages
    BY ThreadNames DEF Init, QServeur, QPosters, QMessages, Empty
  <2>2. QConnected
    BY ThreadNames DEF Init, QConnected
  <2> QED BY <2>1, <2>2 DEF Calm
<1>2. Base /\ Tokens /\ CalmIfQuiet /\ [Next]_vars => CalmIfQuiet'
  <2> SUFFICES ASSUME Base, Tokens, Quiet => Calm, [Next]_vars, Quiet'
               PROVE  Calm'
    OBVIOUS
  <2>1. CASE Next
    <3>1. Quiet /\ Calm
      BY <2>1, QuietBefore
    <3> QED BY <2>1, <3>1, CalmServeur, CalmPost, CalmClients DEF Next
  <2>2. CASE UNCHANGED vars
    BY <2>2 DEF vars, tables, Quiet, Calm, QServeur, QPosters, Outgoing, QMessages, Live, Came, Left, QConnected,
      Present, Used
  <2> QED BY <2>1, <2>2
<1> QED BY <1>1, <1>2, BaseInvariant, TokensInvariant, PTL DEF Spec

(* While no text was sent and no hole filled, a connected user is in the   *)
(* table once the server has treated every message.                        *)
THEOREM ConnectedStay == Spec => []ConnectedInTable
<1>1. Base /\ (Quiet => Calm) => ConnectedInTable
  <2> SUFFICES ASSUME Base, Calm, ~emplacementVide, Idle, NEW c \in Clients, Connecte(c)
               PROVE  c \in Present
    BY DEF ConnectedInTable, Quiet
  <2>1. Live = 0
    BY DEF Idle, Live
  <2>2. \A j \in Index : ~(j < 0)
    BY DEF Index
  <2> QED BY <2>1, <2>2 DEF Calm, QConnected, Connecte
<1> QED BY <1>1, CalmInvariant, PTL

(* A connexion adds its name or nothing, whatever holes it fills; a        *)
(* deconnexion takes its name away or nothing, wherever it stands.         *)
LEMMA TreatedPresent ==
  ASSUME TableIInv, NEW u \in Names
  PROVE  /\ Connexion(u) => Present' \in {Present, Present \cup {u}}
         /\ Deconnexion(u) => Present' \in {Present, Present \ {u}}
<1> USE TableAssumption DEF TableIInv, TableTypeOK, Slots, Used, Present
<1>1. ASSUME Connexion(u) PROVE Present' \in {Present, Present \cup {u}}
  <2> DEFINE filled == [j \in Slots |-> IF j \in Holes THEN u ELSE tabClient[j]]
  <2>1. CASE tabClient' = filled /\ nbUserCourant' = nbUserCourant
    <3>1. CASE Holes = {}
      <4>1. \A j \in Used : tabClient'[j] = tabClient[j]
        BY <2>1, <3>1
      <4> QED BY <2>1, <4>1
    <3>2. CASE Holes # {}
      <4>1. PICK k \in Used : tabClient[k] = NoName
        BY <3>2 DEF Holes
      <4>2. tabClient'[k] = u
        BY <2>1, <4>1 DEF Holes
      <4>3. \A j \in Used : tabClient'[j] = IF tabClient[j] = NoName THEN u ELSE tabClient[j]
        BY <2>1 DEF Holes
      <4> QED BY <2>1, <4>2, <4>3
    <3> QED BY <3>1, <3>2
  <2>2. CASE /\ Holes = {} /\ nbUserCourant < MAX_USERS
             /\ tabClient' = [filled EXCEPT ![nbUserCourant] = u]
             /\ nbUserCourant' = nbUserCourant + 1
    <3>1. \A j \in Used : j \in Used' /\ tabClient'[j] = tabClient[j]
      BY <2>2
    <3>2. nbUserCourant \in Used' /\ tabClient'[nbUserCourant] = u
      BY <2>2
    <3>3. \A j \in Used' : j \in Used \/ j = nbUserCourant
      BY <2>2
    <3> QED BY <3>1, <3>2, <3>3
  <2>3. \/ tabClient' = filled /\ nbUserCourant' = nbUserCourant
        \/ /\ Holes = {} /\ nbUserCourant < MAX_USERS
           /\ tabClient' = [filled EXCEPT ![nbUserCourant] = u]
           /\ nbUserCourant' = nbUserCourant + 1
    BY <1>1 DEF Connexion
  <2> QED BY <2>1, <2>2, <2>3
<1>2. ASSUME Deconnexion(u) PROVE Present' \in {Present, Present \ {u}}
  <2>1. CASE UNCHANGED tvars
    BY <2>1 DEF tvars
  <2>2. ASSUME NEW k \in Used, tabClient[k] = u, Remove(k)
        PROVE  Present' \in {Present, Present \ {u}}
    <3>1. ASSUME NEW v \in Present' PROVE v \in Present
      <4>1. PICK j \in Used' : tabClient'[j] = v /\ v # NoName
        OBVIOUS
      <4>2. tabClient'[j] = tabClient[j] \/ (j + 1 \in Used /\ tabClient'[j] = tabClient[j + 1])
        BY <2>2, <4>1 DEF Remove
      <4>3. j \in Used
        BY <2>2 DEF Remove
      <4> QED BY <4>1, <4>2, <4>3
    <3>2. ASSUME NEW v \in Present, v # u PROVE v \in Present'
      <4>1. PICK j \in Used : tabClient[j] = v
        OBVIOUS
      <4>2. j # k /\ v # NoName
        BY <2>2, <3>2, <4>1
      <4>3. CASE j < k
        <5>1. j \in Used' /\ tabClient'[j] = v
          BY <2>2, <4>1, <4>3 DEF Remove
        <5> QED BY <4>2, <5>1
      <4>4. CASE j > k
        <5>1. j - 1 \in Used' /\ tabClient'[j - 1] = v
          BY <2>2, <4>1, <4>4 DEF Remove
        <5> QED BY <4>2, <5>1
      <4> QED BY <4>2, <4>3, <4>4
    <3> QED BY <3>1, <3>2
  <2> QED BY <1>2, <2>1, <2>2 DEF Deconnexion
<1> QED BY <1>1, <1>2

(* Without texts, the table is the directory: it gains the name of a       *)
(* client that came and loses that of a client that leaves, whatever the   *)
(* senders and the server do at the same time.                             *)
THEOREM TableIsDirectory == Spec => TableOfUsers
<1>1. Init => A!Init
  <2> SUFFICES ASSUME Init PROVE A!Init
    OBVIOUS
  <2>1. Used = {}
    BY TableAssumption DEF Init, TableInit, Used, Slots
  <2>2. \A c \in Clients : pc[W(c)] = "wait" /\ status[c] = "off"
    BY ThreadNames DEF Init
  <2> QED BY <2>1, <2>2 DEF A!Init, Present
<1>2. Base /\ Tokens /\ (Quiet => Calm) /\ [Next]_vars => [SansTexte' => A!Next]_A!vars
  <2> DEFINE V == {c \in Clients : pc[W(c)] # "wait"}
             P == {c \in Clients : status[c] \notin {"off", "run"}}
  <2> SUFFICES ASSUME Base, Tokens, Quiet => Calm, [Next]_vars, SansTexte', ~UNCHANGED A!vars
               PROVE  A!Next
    OBVIOUS
  <2>0. TypeOK /\ TableIInv
    BY DEF Base
  <2>1. CASE UNCHANGED vars
    BY <2>1 DEF vars, tables, A!vars, Present, Used
  <2>2. CASE ServeurMain
    <3>1. Next
      BY <2>2 DEF Next
    <3>2. Quiet /\ Calm
      BY <3>1, QuietBefore DEF SansTexte, Quiet
    <3>3. V' = V /\ P' = P
      BY <2>0, <2>2, ServeurFrame, ThreadNames
    <3>4. CASE ~ServeurTable
      <4>1. UNCHANGED tvars
        BY <2>2, <3>4 DEF ServeurMain, ServeurWait, ServeurTest, ServeurPost, ServeurIndex, ServeurType,
          ServeurContent, ServeurLoad, ServeurStore, Diffusion, ServeurDiffusion, ServeurOpen, DeliverWait,
          DeliverMessage, DeliverCount, DeliverPost, private, tables, tvars
      <4> QED BY <3>3, <4>1 DEF A!vars, Present, Used, tvars
    <3>5. CASE ServeurTable
      <4> DEFINE last == shm[Serveur].write - 1
      <4>1. /\ pc[Serveur] = "switch" /\ last \in Index /\ last < Live
            /\ mess.type = messages[last].type /\ mess.content = messages[last].content
        <5>1. pc[Serveur] = "switch"
          BY <3>5 DEF ServeurTable, Goto
        <5>2. shm[Serveur].write > 0 /\ shm[Serveur].write \in Nat
          BY <5>1 DEF Base, ServeurOK, TypeOK
        <5>3. last \in Index
          <6>1. /\ shm[Serveur].write + Cardinality(Pending) <= Cardinality(Events)
                /\ Cardinality(Events) <= MaxEvents
                /\ Cardinality(Events) \in Nat /\ Cardinality(Pending) \in Nat /\ MaxEvents \in Nat
            BY FS_CardinalityType, ChatAssumption DEF Base, Bounded
          <6> QED BY <5>2, <6>1 DEF Index, MaxMess
        <5> QED BY <3>2, <5>1, <5>2, <5>3 DEF Calm, QServeur, Live
      <4>2. CASE mess.type = 1 /\ Connexion(mess.content)
        <5>1. Came(mess.content)
          BY <3>2, <4>1, <4>2 DEF Calm, QMessages
        <5>2. mess.content \in Names
          BY <5>1, ChatAssumption DEF Came
        <5>3. Present' \in {Present, Present \cup {mess.content}}
          BY <2>0, <4>2, <5>2, TreatedPresent
        <5>4. Present' # Present
          BY <3>3, <5>3 DEF A!vars
        <5>5. A!Inscrit(mess.content)
          BY <3>3, <5>1, <5>3, <5>4 DEF A!Inscrit, Came
        <5> QED BY <5>1, <5>5 DEF A!Next, Came
      <4>3. CASE mess.type = 3 /\ Deconnexion(mess.content)
        <5>1. Left(mess.content)
          BY <3>2, <4>1, <4>3 DEF Calm, QMessages
        <5>2. mess.content \in Names
          BY <5>1, ChatAssumption DEF Left
        <5>3. Present' \in {Present, Present \ {mess.content}}
          BY <2>0, <4>3, <5>2, TreatedPresent
        <5>4. Present' # Present
          BY <3>3, <5>3 DEF A!vars
        <5>5. A!Raye(mess.content)
          BY <3>3, <5>1, <5>3, <5>4 DEF A!Raye, Left
        <5> QED BY <5>1, <5>5 DEF A!Next, Left
      <4>4. CASE UNCHANGED tables
        BY <3>3, <4>4 DEF A!vars, Present, Used, tables
      <4> QED BY <3>5, <4>2, <4>3, <4>4 DEF ServeurTable
    <3> QED BY <3>4, <3>5
  <2>3. ASSUME NEW t \in Posters, Post(t) PROVE A!Next
    <3>1. V' = V
      <4>1. \A c \in Clients : pc[W(c)] = "wait" <=> pc'[W(c)] = "wait"
        BY <2>0, <2>3, PostFrame, ThreadNames
      <4> QED BY <4>1
    <3>2. P' = P /\ Present' = Present
      BY <2>0, <2>3, PostFrame DEF tables, Present, Used
    <3> QED BY <3>1, <3>2 DEF A!vars
  <2>4. ASSUME NEW c \in Clients, Demarre(c) \/ Ecriture(c) \/ Lecture(c) \/ SigIntTrt(c)
        PROVE  A!Next
    <3>1. Present' = Present
      <4>1. UNCHANGED tables
        BY <2>0, <2>4, EcritureFrame, LectureFrame, SigIntFrame DEF Demarre
      <4> QED BY <4>1 DEF tables, Present, Used
    <3>2. CASE Demarre(c)
      <4>1. P' = P /\ V' = V
        BY <2>0, <3>2 DEF Demarre, TypeOK
      <4> QED BY <3>1, <4>1 DEF A!vars
    <3>3. CASE Ecriture(c)
      <4>1. P' = P
        BY <2>0, <3>3, EcritureFrame
      <4>2. \A d \in Clients \ {c} : pc'[W(d)] = pc[W(d)]
        BY <2>0, <3>3, EcritureFrame, ThreadNames
      <4>3. pc'[W(c)] # "wait"
        BY <2>0, <3>3, ThreadNames DEF Ecriture, EcritureWait, EcriturePost, EcritureScanf, EcritureOwn,
          EcritureRelease, Goto, TypeOK
      <4>4. V' = V \cup {c}
        BY <4>2, <4>3
      <4>5. A!Vient(c)
        BY <3>1, <4>1, <4>4 DEF A!Vient
      <4> QED BY <4>5 DEF A!Next
    <3>4. CASE Lecture(c)
      <4>1. P' = P /\ V' = V
        BY <2>0, <3>4, LectureFrame, ThreadNames
      <4> QED BY <3>1, <4>1 DEF A!vars
    <3>5. CASE SigIntTrt(c)
      <4>1. V' = V
        BY <2>0, <3>5, SigIntFrame, ThreadNames
      <4>2. P' = P \/ P' = P \cup {c}
        <5>1. \A d \in Clients \ {c} : status'[d] = status[d]
          BY <2>0, <3>5, SigIntFrame
        <5>2. status[c] \notin {"off", "run"} => status'[c] \notin {"off", "run"}
          BY <2>0, <3>5 DEF SigIntTrt, Sigint, SigintWait, SigintPost, SigintExit, private, TypeOK
        <5> QED BY <5>1, <5>2
      <4>3. CASE P' = P
        BY <3>1, <4>1, <4>3 DEF A!vars
      <4>4. CASE P' = P \cup {c}
        <5>1. A!Part(c)
          BY <3>1, <4>1, <4>4 DEF A!Part
        <5> QED BY <5>1 DEF A!Next
      <4> QED BY <4>2, <4>3, <4>4
    <3> QED BY <2>4, <3>2, <3>3, <3>4, <3>5
  <2> QED BY <2>1, <2>2, <2>3, <2>4 DEF Next
<1> QED BY <1>1, <1>2, CalmInvariant, PTL DEF Spec, TableOfUsers
=============================================================================

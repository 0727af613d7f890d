-------------------------------- MODULE Chat --------------------------------
(***************************************************************************)
(* The chat of TME7: one server process (serveur.c), client processes      *)
(* (client.c) of two threads each plus a SIGINT handler, and the shared    *)
(* segments (struct myshm) they exchange messages through.                 *)
(*                                                                         *)
(* A step is one access to memory that another thread may touch at the     *)
(* same time.  A client that sends a text holds the semaphore of its own   *)
(* segment and not the server's, so an increment of the server's write is  *)
(* a load then a store, and the copy of a struct message two stores.       *)
(***************************************************************************)
EXTENDS ChatTable, Integers, FiniteSets

CONSTANTS
    Clients,    \* the names of the clients, which are those of their segments
    Serveur,    \* the name of the server's segment
    MaxEvents   \* bound: the clients started, texts typed and SIGINTs sent

(* The k-th text of c.  Contents are told apart by where they come from: a *)
(* text is never the name of a client.                                     *)
Text(c, k) == <<c, k>>
Texts == {Text(c, k) : c \in Clients, k \in 1 .. MaxEvents}

ASSUME ChatAssumption ==
    /\ Serveur \notin Clients \cup Clients \X {"ecriture", "lecture", "sigint"}
    /\ MaxEvents \in Nat
    /\ Clients \cup Texts \subseteq Names
    /\ Clients \cap Texts = {}

(* Bound on the messages of a segment, MAX_MESS in the code, which never   *)
(* compares with it: every post of a run has an index of its own.          *)
MaxMess == MaxEvents
Index == 0 .. MaxMess

VARIABLES
    shm,        \* the segments: read, write, nb, sem
    messages,   \* the messages of the server's segment; those of a client's
                \* are only printed, and are told by its write alone
    pc,         \* where each thread is
    reg,        \* the register of each thread: an index, or a loaded write
    mess,       \* messageClient of the server
    i,          \* index of the server's loop over the table
    sent,       \* the texts a client has read from its input
    status,     \* of each client process: off, run, exited, or which of its
                \* threads runs the handler
    linked      \* the segments that shm_open finds

tables == <<tabClient, nbUserCourant, emplacementVide>>
vars == <<tables, shm, messages, pc, reg, mess, i, sent, status, linked>>

W(c) == <<c, "ecriture">>
R(c) == <<c, "lecture">>
H(c) == <<c, "sigint">>
Posters == Clients \X {"ecriture", "sigint"}
Threads == Clients \X {"ecriture", "lecture", "sigint"} \cup {Serveur}

Empty == [type |-> 0, content |-> NoName]

Init ==
    /\ TableInit
    /\ shm = [p \in Clients \cup {Serveur} |->
                [read |-> 0, write |-> 0, nb |-> 0, sem |-> 1]]
    /\ messages = [j \in Index |-> Empty]
    /\ pc = [t \in Threads |-> "wait"]
    /\ reg = [t \in Threads |-> 0]
    /\ mess = Empty
    /\ i = 0
    /\ sent = [c \in Clients |-> 0]
    /\ status = [c \in Clients |-> "off"]
    /\ linked = {}

-----------------------------------------------------------------------------
(* A thread of c runs until exit, except the one the handler borrowed.     *)
Runs(t) == status[t[1]] \notin {"off", t[2], "exited"}
Handles(t) == status[t[1]] \in {"main", "ecriture", "lecture"}

(* The events of a run: c is started (0), types its k-th text (k), takes   *)
(* SIGINT (-1).                                                            *)
Event(c, k) ==
    \/ k = 0 /\ status[c] # "off"
    \/ k \in 1 .. sent[c]
    \/ k = -1 /\ status[c] \notin {"off", "run"}
Events == {e \in Clients \X (-1 .. MaxEvents) : Event(e[1], e[2])}
Bound == Cardinality(Events) < MaxEvents

Goto(t, from, to) == pc[t] = from /\ pc' = [pc EXCEPT ![t] = to]

SemWait(p) == shm[p].sem > 0 /\ shm' = [shm EXCEPT ![p].sem = @ - 1]
SemPost(p) == shm' = [shm EXCEPT ![p].sem = @ + 1]

private == <<tables, messages, mess, i, sent, status, linked>>

(* What the thread posts: a connexion, then texts; a deconnexion.          *)
Outgoing(t) ==
    IF t[2] = "sigint" THEN [type |-> 3, content |-> t[1]]
    ELSE IF sent[t[1]] = 0 THEN [type |-> 1, content |-> t[1]]
    ELSE [type |-> 2, content |-> Text(t[1], sent[t[1]])]

(* shmServeur->messages[shmServeur->write] = messageClient; write++ : the  *)
(* same statements, and the same five accesses, in the three senders.      *)
PostIndex(t) ==
    /\ Runs(t)
    /\ Goto(t, "index", "type")
    /\ reg' = [reg EXCEPT ![t] = shm[Serveur].write]
    /\ UNCHANGED <<private, shm>>

PostType(t) ==
    /\ Runs(t)
    /\ Goto(t, "type", "content")
    /\ messages' = [messages EXCEPT ![reg[t]].type = Outgoing(t).type]
    /\ UNCHANGED <<tables, shm, reg, mess, i, sent, status, linked>>

PostContent(t) ==
    /\ Runs(t)
    /\ Goto(t, "content", "load")
    /\ messages' = [messages EXCEPT ![reg[t]].content = Outgoing(t).content]
    /\ UNCHANGED <<tables, shm, reg, mess, i, sent, status, linked>>

PostLoad(t) ==
    /\ Runs(t)
    /\ Goto(t, "load", "store")
    /\ reg' = [reg EXCEPT ![t] = shm[Serveur].write]
    /\ UNCHANGED <<private, shm>>

PostStore(t) ==
    /\ Runs(t)
    /\ Goto(t, "store", "posted")
    /\ shm' = [shm EXCEPT ![Serveur].write = reg[t] + 1]
    /\ reg' = [reg EXCEPT ![t] = 0]
    /\ UNCHANGED private

Post(t) == PostIndex(t) \/ PostType(t) \/ PostContent(t) \/ PostLoad(t) \/ PostStore(t)

-----------------------------------------------------------------------------
(* Mutant of EcritureWait: the semaphore of the server is not waited for.  *)
EcritureSansAttendre(c) ==
    /\ Runs(W(c))
    /\ Goto(W(c), "wait", "index")
    /\ UNCHANGED <<private, shm, reg>>

(* funcThreadEcriture: the connexion, under the server's semaphore...      *)
EcritureWait(c) ==
    /\ Runs(W(c))
    /\ Goto(W(c), "wait", "index")
    /\ SemWait(Serveur)
    /\ UNCHANGED <<private, reg>>

(* ... which every later turn posts too, without having waited for it.     *)
EcriturePost(c) ==
    /\ Runs(W(c))
    /\ \/ Goto(W(c), "posted", "scanf") /\ sent[c] = 0
       \/ Goto(W(c), "last", "scanf")
    /\ SemPost(Serveur)
    /\ UNCHANGED <<private, reg>>

EcritureScanf(c) ==
    /\ Runs(W(c))
    /\ Goto(W(c), "scanf", "own")
    /\ Bound
    /\ sent' = [sent EXCEPT ![c] = @ + 1]
    /\ UNCHANGED <<tables, messages, shm, reg, mess, i, status, linked>>

EcritureOwn(c) ==
    /\ Runs(W(c))
    /\ Goto(W(c), "own", "index")
    /\ SemWait(c)
    /\ UNCHANGED <<private, reg>>

EcritureRelease(c) ==
    /\ Runs(W(c))
    /\ Goto(W(c), "posted", "last")
    /\ sent[c] > 0
    /\ shm' = [shm EXCEPT ![c].nb = @ + 1, ![c].sem = @ + 1]
    /\ UNCHANGED <<private, reg>>

Ecriture(c) ==
    \/ EcritureWait(c) \/ EcriturePost(c) \/ EcritureScanf(c)
    \/ EcritureOwn(c) \/ EcritureRelease(c)

(* funcThreadLecture: pops the last message of the client's own segment.   *)
LectureWait(c) ==
    /\ Runs(R(c))
    /\ Goto(R(c), "wait", "load")
    /\ SemWait(c)
    /\ UNCHANGED <<private, reg>>

LectureLoad(c) ==
    /\ Runs(R(c))
    /\ Goto(R(c), "load", IF shm[c].write # 0 THEN "store" ELSE "post")
    /\ reg' = [reg EXCEPT ![R(c)] = shm[c].write]
    /\ UNCHANGED <<private, shm>>

(* Mutant of LectureStore: nb is not incremented.                          *)
LectureSansCompter(c) ==
    /\ Runs(R(c))
    /\ Goto(R(c), "store", "post")
    /\ shm' = [shm EXCEPT ![c].read = @ + 1, ![c].write = reg[R(c)] - 1]
    /\ reg' = [reg EXCEPT ![R(c)] = 0]
    /\ UNCHANGED private

LectureStore(c) ==
    /\ Runs(R(c))
    /\ Goto(R(c), "store", "post")
    /\ shm' = [shm EXCEPT ![c].read = @ + 1, ![c].nb = @ + 1, ![c].write = reg[R(c)] - 1]
    /\ reg' = [reg EXCEPT ![R(c)] = 0]
    /\ UNCHANGED private

LecturePost(c) ==
    /\ Runs(R(c))
    /\ Goto(R(c), "post", "wait")
    /\ SemPost(c)
    /\ UNCHANGED <<private, reg>>

Lecture(c) == LectureWait(c) \/ LectureLoad(c) \/ LectureStore(c) \/ LecturePost(c)

(* main creates the segment of the client, then its threads.               *)
Demarre(c) ==
    /\ status[c] = "off" /\ Bound
    /\ status' = [status EXCEPT ![c] = "run"]
    /\ linked' = linked \cup {c}
    /\ UNCHANGED <<tables, messages, shm, pc, reg, mess, i, sent>>

(* Mutant of Sigint: the segment is unlinked first.                        *)
SigintDelie(c) ==
    /\ status[c] = "run" /\ Bound
    /\ \E host \in {"main", "ecriture", "lecture"} : status' = [status EXCEPT ![c] = host]
    /\ linked' = linked \ {c}
    /\ UNCHANGED <<tables, messages, shm, pc, reg, mess, i, sent>>

(* SIGINT runs sigIntTrt on whichever thread takes it, main included.      *)
Sigint(c) ==
    /\ status[c] = "run" /\ Bound
    /\ \E host \in {"main", "ecriture", "lecture"} : status' = [status EXCEPT ![c] = host]
    /\ UNCHANGED <<tables, messages, shm, pc, reg, mess, i, sent, linked>>

SigintWait(c) ==
    /\ Handles(H(c))
    /\ Goto(H(c), "wait", "index")
    /\ SemWait(Serveur)
    /\ UNCHANGED <<private, reg>>

SigintPost(c) ==
    /\ Goto(H(c), "posted", "unlink")
    /\ SemPost(Serveur)
    /\ UNCHANGED <<private, reg>>

(* shm_unlink, then exit: the threads of c stop wherever they are.         *)
SigintExit(c) ==
    /\ Goto(H(c), "unlink", "exited")
    /\ linked' = linked \ {c}
    /\ status' = [status EXCEPT ![c] = "exited"]
    /\ UNCHANGED <<tables, messages, shm, reg, mess, i, sent>>

SigIntTrt(c) == Sigint(c) \/ SigintWait(c) \/ SigintPost(c) \/ SigintExit(c)

-----------------------------------------------------------------------------
(* main of serveur.c                                                       *)
ServeurWait ==
    /\ Goto(Serveur, "wait", "test")
    /\ SemWait(Serveur)
    /\ UNCHANGED <<private, reg>>

ServeurTest ==
    /\ Goto(Serveur, "test", IF shm[Serveur].write # 0 THEN "index" ELSE "post")
    /\ UNCHANGED <<private, shm, reg>>

(* Mutant of ServeurPost: the turn ends without sem_post.                  *)
ServeurSansPost ==
    /\ Goto(Serveur, "post", "wait")
    /\ UNCHANGED <<private, shm, reg>>

ServeurPost ==
    /\ Goto(Serveur, "post", "wait")
    /\ SemPost(Serveur)
    /\ UNCHANGED <<private, reg>>

ServeurIndex ==
    /\ Goto(Serveur, "index", "type")
    /\ reg' = [reg EXCEPT ![Serveur] = shm[Serveur].write - 1]
    /\ UNCHANGED <<private, shm>>

ServeurType ==
    /\ Goto(Serveur, "type", "content")
    /\ mess' = [mess EXCEPT !.type = messages[reg[Serveur]].type]
    /\ UNCHANGED <<tables, messages, shm, reg, i, sent, status, linked>>

ServeurContent ==
    /\ Goto(Serveur, "content", "switch")
    /\ mess' = [mess EXCEPT !.content = messages[reg[Serveur]].content]
    /\ UNCHANGED <<tables, messages, shm, reg, i, sent, status, linked>>

ServeurTable ==
    /\ Goto(Serveur, "switch", "load")
    /\ \/ mess.type = 1 /\ Connexion(mess.content)
       \/ mess.type = 3 /\ Deconnexion(mess.content)
       \/ mess.type = 0 /\ UNCHANGED tables
    /\ UNCHANGED <<shm, messages, reg, mess, i, sent, status, linked>>

ServeurDiffusion ==
    /\ Goto(Serveur, "switch", "open")
    /\ mess.type = 2
    /\ i' = 0
    /\ UNCHANGED <<tables, messages, shm, reg, mess, sent, status, linked>>

(* One turn of the loop up to sem_wait: a hole is skipped, and a user      *)
(* whose segment is gone ends the server.                                  *)
ServeurOpen ==
    /\ \/ /\ i \notin Used
          /\ Goto(Serveur, "open", "load")
          /\ UNCHANGED i
       \/ /\ i \in Holes
          /\ Goto(Serveur, "open", "open")
          /\ i' = i + 1
       \/ /\ i \in Used \ Holes
          /\ Goto(Serveur, "open", IF tabClient[i] \in linked THEN "sem" ELSE "exited")
          /\ UNCHANGED i
    /\ UNCHANGED <<tables, messages, shm, reg, mess, sent, status, linked>>

DeliverWait ==
    /\ Goto(Serveur, "sem", "deliver")
    /\ SemWait(tabClient[i])
    /\ UNCHANGED <<private, reg>>

DeliverMessage ==
    /\ Goto(Serveur, "deliver", "count")
    /\ reg' = [reg EXCEPT ![Serveur] = shm[tabClient[i]].write]
    /\ UNCHANGED <<private, shm>>

DeliverCount ==
    /\ Goto(Serveur, "count", "delivered")
    /\ shm' = [shm EXCEPT ![tabClient[i]].write = reg[Serveur] + 1,
                          ![tabClient[i]].read = @ + 1]
    /\ UNCHANGED <<private, reg>>

DeliverPost ==
    /\ Goto(Serveur, "delivered", "open")
    /\ shm' = [shm EXCEPT ![tabClient[i]].sem = @ + 1,
                          ![Serveur].read = @ + 1, ![Serveur].nb = @ + 1]
    /\ i' = i + 1
    /\ UNCHANGED <<tables, messages, reg, mess, sent, status, linked>>

Diffusion ==
    \/ ServeurDiffusion \/ ServeurOpen
    \/ DeliverWait \/ DeliverMessage \/ DeliverCount \/ DeliverPost

(* shmServeur->write--; the locals are dead from there on.                 *)
ServeurLoad ==
    /\ Goto(Serveur, "load", "store")
    /\ reg' = [reg EXCEPT ![Serveur] = shm[Serveur].write]
    /\ UNCHANGED <<private, shm>>

ServeurStore ==
    /\ Goto(Serveur, "store", "test")
    /\ shm' = [shm EXCEPT ![Serveur].write = reg[Serveur] - 1]
    /\ reg' = [reg EXCEPT ![Serveur] = 0]
    /\ mess' = Empty
    /\ i' = 0
    /\ UNCHANGED <<tables, messages, sent, status, linked>>

ServeurMain ==
    \/ ServeurWait \/ ServeurTest \/ ServeurPost
    \/ ServeurIndex \/ ServeurType \/ ServeurContent
    \/ ServeurTable \/ Diffusion \/ ServeurLoad \/ ServeurStore

Next ==
    \/ ServeurMain
    \/ \E t \in Posters : Post(t)
    \/ \E c \in Clients : Demarre(c) \/ Ecriture(c) \/ Lecture(c) \/ SigIntTrt(c)

Spec == Init /\ [][Next]_vars
-----------------------------------------------------------------------------
(* Where a writer, a reader, a handler and the server may be.              *)
Section == {"index", "type", "content", "load", "store", "posted"}
WPoints == Section \cup {"wait", "scanf", "own", "last"}
RPoints == {"wait", "load", "store", "post"}
HPoints == Section \cup {"wait", "unlink", "exited"}
SPoints == {"wait", "test", "index", "type", "content", "switch", "open", "sem", "deliver",
            "count", "delivered", "load", "store", "post", "exited"}

TypeOK ==
    /\ TableTypeOK
    /\ pc \in [Threads -> WPoints \cup RPoints \cup HPoints \cup SPoints]
    /\ \A c \in Clients : pc[W(c)] \in WPoints /\ pc[R(c)] \in RPoints /\ pc[H(c)] \in HPoints
    /\ pc[Serveur] \in SPoints
    /\ shm \in [Clients \cup {Serveur} ->
                  [read : Nat, write : Nat, nb : Nat, sem : Nat]]
    /\ messages \in [Index -> [type : 0 .. 3, content : Names \cup {NoName}]]
    /\ reg \in [Threads -> Nat]
    /\ mess \in [type : 0 .. 3, content : Names \cup {NoName}]
    /\ i \in 0 .. MAX_USERS
    /\ sent \in [Clients -> Nat]
    /\ status \in [Clients -> {"off", "run", "main", "ecriture", "lecture", "exited"}]
    /\ linked \subseteq Clients

(* The threads inside a section guarded by the semaphore of c's segment.   *)
Inside(c) ==
    {t \in {W(c)} : sent[c] > 0 /\ pc[t] \in Section}
    \cup {t \in {R(c)} : pc[t] \in {"load", "store", "post"}}
    \cup {t \in {Serveur} : pc[t] \in {"deliver", "count", "delivered"} /\ tabClient[i] = c}

(* The semaphore of a client's segment excludes: its reader, its writer    *)
(* and the server are never two inside, whatever becomes of the server's   *)
(* semaphore, and it is 0 only while one is inside (for ever, when exit    *)
(* killed the reader or the writer there).                                 *)
BoxExclusion ==
    \A c \in Clients : /\ shm[c].sem \in {0, 1}
                       /\ shm[c].sem = 0 <=> Inside(c) # {}
                       /\ \A s, t \in Inside(c) : s = t

(* The texts of c that its nb counts.                                      *)
Counted(c) ==
    IF sent[c] = 0 \/ pc[W(c)] \in {"scanf", "last"} THEN sent[c] ELSE sent[c] - 1

(* No message is lost or received twice once the server has put it in a    *)
(* segment. The counters have the meaning the statements give them, which  *)
(* is not the one chat_common.h announces (35-37: read, the messages       *)
(* retransmitted by the server; nb, those sent): read is raised by         *)
(* deliveries and by receptions, nb by the texts sent and by receptions,   *)
(* and write is the deliveries not received yet.                           *)
BoxAccount ==
    \A c \in Clients : shm[c].read - shm[c].write = 2 * (shm[c].nb - Counted(c))

(* The segments of the clients keep their types, their exclusion and their *)
(* accounts, whatever the races on the segment of the server do to it.     *)
ClientSegments == TypeOK /\ BoxExclusion /\ BoxAccount

(* The texts c has posted to the server, the closing sem_post included.    *)
Posted(c) == IF sent[c] = 0 \/ pc[W(c)] = "scanf" THEN sent[c] ELSE sent[c] - 1
TextsPosted == {e \in Clients \X (1 .. MaxEvents) : e[2] <= Posted(e[1])}

(* Who holds a token of the server's semaphore.                            *)
Holders ==
    {t \in {Serveur} : pc[t] \notin {"wait", "exited"}}
    \cup {t \in Posters : /\ pc[t] \in Section
                          /\ t[2] = "ecriture" => sent[t[1]] = 0}

(* A text leaves one token too many in the server's semaphore, for ever:   *)
(* tokens and holders are one more than the texts posted.  Until the first *)
(* text the server and the connecting clients exclude one another; after   *)
(* it they do not.                                                         *)
ServerTokens ==
    pc[Serveur] # "exited" =>
        shm[Serveur].sem + Cardinality(Holders) = 1 + Cardinality(TextsPosted)

(* Once the server has treated every message, a client that runs and whose *)
(* connexion is posted is in the table: no connexion overwrites another    *)
(* one, and no deconnexion, in whatever order they are treated, takes away *)
(* the name of somebody else.  This needs that no text was ever sent (a    *)
(* text may overwrite a connexion, or its count) and that no hole was ever *)
(* filled (emplacementVide then forbids the append).                       *)
Idle == pc[Serveur] = "wait" /\ shm[Serveur].write = 0
Connecte(c) == status[c] = "run" /\ pc[W(c)] = "scanf"
ConnectedInTable ==
    Idle /\ ~emplacementVide /\ (\A c \in Clients : sent[c] = 0) =>
        \A c \in Clients : Connecte(c) => c \in Present

(* Without texts, which tear other messages, the table is the directory    *)
(* of Annuaire: whatever connexions and deconnexions are posted at the     *)
(* same time, and in whatever order they are treated, a message is read    *)
(* whole, so that one name enters the table at a time, of a client that    *)
(* began its connexion, and one leaves it, of a client that got SIGINT.    *)
A == INSTANCE Annuaire WITH
        Users <- Clients,
        membres <- Present,
        venus <- {c \in Clients : pc[W(c)] # "wait"},
        partis <- {c \in Clients : status[c] \notin {"off", "run"}}
SansTexte == \A c \in Clients : sent[c] = 0
TableOfUsers == A!Init /\ [][SansTexte' => A!Next]_A!vars

(* The server gives a broadcast up, and ends, only for a text that was     *)
(* taken for a name, or for a user whose handler ran to its end: never for *)
(* one that still runs, connected or about to leave.                       *)
ExitCause ==
    pc[Serveur] = "exited" /\ tabClient[i] \in Clients => status[tabClient[i]] = "exited"

-----------------------------------------------------------------------------
(* What a comment of the program says, and the code does not do.           *)

(* serveur.c "Ajout de l'utilisateur": what is added is the name of one.   *)
OnlyUsersInTable == Present \subseteq Clients
=============================================================================

# TLA+ development for Programmation-R-partie

The repository holds the programs of a course on concurrent programming in C:
about sixty small programs in directories `TME1` to `TME10` and `TMEExam`.
Each is a process, or a few, that synchronise by threads (mutexes, conditions),
named semaphores and shared memory, signals, pipes or sockets. This directory
models those whose difficulty is concurrency, checks the models with TLC and
proves the main results with TLAPS. The largest program is the chat of TME7.

Names of variables, functions and states are those of the C source (so they
are often French); comments are in English. A directory is named by its first word
(`TME7` is `src/TME7 - ...`).

## 1. Inventory

| Part | Source | State it keeps | Operations | Status |
|---|---|---|---|---|
| Chat server, table of users | `TME7/serveur.c` 19-21, 56-76, 106-121 | `tabClient`, `nbUserCourant`, `emplacementVide` | connexion, deconnexion | modelled, proved |
| Chat server, message loop | `TME7/serveur.c` 45-126 | its segment (`read`, `write`, `nb`, `sem`, `messages`) | take a message, treat it, broadcast, `write--` | partly, proved |
| Chat client | `TME7/client.c` | its segment, its two threads, SIGINT handler | connect, type, receive, leave | partly, proved |
| Bounded stack of threads, four programs | `TME5/producteur*.c` | `stack_size`, `pile`, a mutex, two conditions | `push`, `pop` | modelled, proved |
| Bounded stack of processes | `TME7/ex3.c` | the same in shared memory, four semaphores | `push`, `pop` | partly, proved |
| Barrier of threads | `TME4/pthread_barriere_implement.c` | a counter, a flag, a condition | `wait_barrier` | modelled, proved |
| Barriers of processes, two programs | `TME7/ex1shm.c`, `ex1CompteurClassiqueAméliorer.c` | three semaphores, a counter | the chain of forks, `wait_barrier` | partly, proved |
| Sum by threads, three programs | `TME4/detach.c`, `pthread_attr_setdetachstate.c`, `thread_cond_wait_affichage_final.c` | `valThread`, `val`, `condition` | `funcThread`, `funcAttente`, `main` | modelled, proved |
| Ordered display, two programs | `TMEExam/ex4.c`, `ex4c.c` | a turn, or a flag per thread | `funcThread`; `thread_cond`, `main` | modelled, proved |
| File servers over TCP, three pairs of programs | `TME8/ex4` to `ex7`, `TME9/ex1.c` | connexions, buffers, descriptors; sons or threads that serve; SIGCHLD | accept, LIST, UPLOAD, DOWNLOAD, `finFils` | modelled, proved |
| Environment server over UDP | `TME8/ex2-server.c`, `ex3-client.c` | one variable of the environment | S, G, Q | modelled, proved |
| Server on several ports | `TME9/ex2.c` | `readfds`, `str`, `cx.log` | select, accept, write a line | modelled, proved |
| Pipes | `TME6/ex2client.c`, `ex2server.c`, `pipe_annonyme.c` | the pipe and its name, `ecoute` | open, read, write, SIGINT | modelled, proved |
| Processes that fork, wait, signal and share files: nineteen programs | `TME1`, `TME3`, `TME6`, `TME7/ex4.c`, `TME8/ex1.c`, `TMEExam/ex1` to `ex3c` | sons, masks, pending signals, one file, one shared cell, one datagram | fork, wait, kill, sigsuspend, read, write, exit | modelled, proved |
| Chain of thread creations | `TME5/thread_chaine_reveil_user_.c` | two flags, a mutex, a condition, a table of threads | `funcThread`, `main` with `sigwait` | modelled, proved |
| Tree of threads | `TME5/thread_n+1.c` | `cond`, a mutex, a condition | `thread_func`, `main` | modelled, proved |
| Threads that convert files | `TME5/thread_lect_fic*.c`, `libupper.c` | `nbFichierRestant`, the results | `funcThread`, `main` | modelled, proved |
| Files, asynchronous I/O, multicast, message queues, drafts | `TME2`, `TME10`, rest of `TME6` and `TME9` | | | not modelled |

The components do not call one another: each program stands alone. What
interacts is inside a program. In the chat, clients post into the server's
segment and the server delivers into the clients' segments; the servers and clients
of TME6, TME8 and TME9 exchange through the kernel; in the others threads
or processes share one structure. `PROJECT.json` lists every component
with its files, and every hazard at its line.

### What is hard in each

* **Chat.** A client posts a connexion under the server's semaphore, but a text
  under its own semaphore only (the other `sem_wait` is commented out), and still
  posts the server's at the end. Copies of messages and `write++` therefore
  interleave with those of other clients and with `write--` of the server. The server
  takes the *last* message. SIGINT runs a handler on any thread of the client,
  inside any section, and exits. Correctness is therefore stated of what
  survives: the table, the segments of the clients, the count of tokens; and
  of the whole as long as nobody types a text.
* **Bounded stack.** A wakeup is sent only at one value of `stack_size`, although
  several threads may wait: is one ever lost? The four programs disagree on
  where the stack starts, is empty, is full, and on broadcast or signal.
* **Bounded stack of processes.** Pushes and pops have a mutex *each*, so
  `stack_size++` and `stack_size--` race.
* **Barriers.** Does nobody pass early, and does everybody pass?
* **Sum, ordered display.** One wakeup, a count taken inside or outside of the
  mutex, a main that may return too early, slots initialised late.
* **File servers.** Reads cut the stream anywhere, writes are always of a whole
  buffer; SIGCHLD merges when several sons end; either side may be gone; the
  threads of TME9 share the count and the descriptor that each is using.
* **UDP.** Nothing numbers the datagrams: is the answer that a client takes its own?
* **Signals.** Those of one kind merge, may come before `sigsuspend`, and carry
  the order of the ends of processes.
* **Chain, tree, files.** A flag tested under the mutex and lowered without it; a
  broadcast before the flag; an index computed again after the unlock.

## 2. Modules

| Module | Models | Uses |
|---|---|---|
| `ChatTable` | the table of users and the two messages that change it | |
| `Annuaire` | what the table promises: a directory that one user at a time enters or leaves | |
| `Chat` | server, clients, handlers, segments, one memory access a step; without texts it implements `Annuaire` | `ChatTable`, `Annuaire` |
| `MCChat` | instances for TLC | `Chat` |
| `ChatProofs` | proofs about the table, the server and the clients | `Chat` |
| `Moniteur` | a mutex and conditions of pthread (external) | |
| `Pile` | push and pop of TME5, for a record `prog` of the tests a program makes | `Moniteur` |
| `PileProgrammes` | the four programs as values of `prog`, and the instances | `Pile` |
| `PileProofs` | proofs about `Pile` | `Pile` |
| `PileSem` | push and pop of TME7, one access to the segment a step | |
| `PileSemProofs` | proofs about it | `PileSem` |
| `Barriere` | what a barrier promises | |
| `BarriereCond` | the barrier of threads; implements `Barriere` | `Moniteur`, `Barriere` |
| `BarriereSem` | the two barriers of processes; implement `Barriere` | `Barriere` |
| `MCBarriere` | the instance of both | `BarriereCond`, `BarriereSem` |
| `SommeThreads` | the three programs of the sum | `Moniteur` |
| `Ordre` | the ordered display with one condition | `Moniteur` |
| `OrdreFlags` | the ordered display with a flag per thread | |
| `MCAffichage` | the instance of the three | `SommeThreads`, `Ordre`, `OrdreFlags` |
| `AffichageProofs` | proofs about the three | `MCAffichage` |
| `Transfert`, `MCTransfert` | the file servers and their clients, each connexion two streams of units; fork, threads, SIGCHLD, resets | |
| `TransfertProofs` | proofs about it, and about the data of a stream | `Transfert` |
| `ProcessusProgrammes` | the nineteen programs, each the list of the calls its processes make | |
| `Processus` | what the calls do: processes, zombies, masks, pending signals, semaphores, one file, one socket | `ProcessusProgrammes` |
| `MCProcessus` | the instance of it | `Processus` |
| `ArbresProofs` | proofs about it, and about the barriers | `MCBarriere`, `MCProcessus` |
| `Chaine` | the chain of thread creations | `Moniteur` |
| `Arbre` | the tree of threads | `Moniteur` |
| `LectureFichiers` | the threads that convert files | |
| `MCTme5` | the instance of the three | `Chaine`, `Arbre`, `LectureFichiers` |
| `ChaineProofs` | proofs about the three | `MCTme5` |
| `Tube` | the named pipe, its client and server, their `open` and its failures; the pipe of a father and its son | |
| `Datagrammes` | the environment server and its clients over a network that loses, reorders and duplicates | |
| `Select` | the server on several ports, with calls that fail | |
| `MCEchanges` | the instance of the three | `Datagrammes`, `Tube`, `Select` |
| `DatagrammesProofs` | proofs about the three | `MCEchanges` |

An MC module that holds several components has a variable `exo` that says which
one runs; the others stay in an initial state. The components do not interact there:
they share a run and its bounds only. The assumptions of a module that is
instantiated rather than extended are a definition, which the MC module assumes, so
that TLC evaluates it with the values of the run. The proofs about such a component are
made over the specification of the MC module (`MCSpec`), whose runs are those of the
components one by one: its bounds stay constants there.

Programs that differ by a few lines are one module; which one runs is a variable
(`prog`, `version`) that `Init` chooses and nothing changes, so that one run
checks them all.

A definition that carries the name of another one with a suffix (`PushSansReveil`
for `Push`) and stands just before it is a deliberately wrong version, used to
see that the properties can tell.

### How state and steps correspond to the code

* **Grain.** In a section that a mutex really protects, a step is the whole
  section, up to the unlock or `pthread_cond_wait` (modules over `Moniteur`):
  nothing else reads or writes those variables without the mutex. Where the
  code accesses shared memory without an exclusive right, a step is one access:
  `x++` is a load (`reg`) and a store, the copy of a `struct message` two stores.
  `detach.c` counts outside of the mutex, so `Charge` and `Range` are apart there.
* **`pthread_cond_wait`** releases the mutex and sleeps in one step, is left by a
  signal, a broadcast or for no reason (`ReveilIntempestif`), and takes the mutex
  again before it returns; the loop around it is then tested again. `ex4c.c` tests
  with an `if`, and in `OrdreFlags` the thread goes on.
* **Semaphores** are naturals; `sem_wait` is a step with a guard.
* **The segments of the clients** are told by `write` alone: the messages in them are
  only printed. The server's messages are kept, since the server acts on them.
* **SIGINT** may come at any step and takes one of the three threads of the
  client, which stops; the others go on until `exit`.
* **Characters** are ranks in the input, so that a loss or a duplicate shows.
* **The network and the kernel.** A TCP connexion is two sequences of units, bounded towards the
  reader; it has an end once nobody holds its other side, or a reset, which is an error once,
  when it was closed with units unread. Writing to a connexion that is gone is answered by a
  reset first and by SIGPIPE afterwards. UDP is a set of datagrams. What is not data of the file
  (the rest of a buffer) is `Nul`.
* **Signals.** `pendants` is a set, since signals of one kind merge; a handler runs at a step of
  its own when its signal is not blocked, and `sigsuspend` changes the mask and waits in one
  step.
* **Past the arrays.** The stacks of TME5 called "2" and that of TME7 are full at
  `STACK_SIZE`, one cell past the array: it is padding in their
  builds (the array is followed by 24 unused bytes, and `char ptr[2]` by two), so the model has
  that cell. An index of -1 is read (`producteur_consommateur.c`) or written (`ex3.c`) before the
  array; the write either kills the process or goes elsewhere, and the model allows both.
* **What is written besides the file.** UPLOAD and DOWNLOAD write a whole buffer whatever was
  read. `fichier` and `copie` keep the units of the file only, in their order.
* The programs are built without optimisation (there is no makefile and no
  option in the repository), so each mention of a shared variable is an access.

## 3. Runs

| Run | Instance and bounds | What it shows |
|---|---|---|
| `chat` | 2 clients, 3 slots, `MaxEvents` = 3 | `ClientSegments` (types, exclusion and accounts of the clients' segments), `ServerTokens`, `ConnectedInTable`, `HolesAtEnd`, `ExitCause`, and, without texts, that the table is the directory of `Annuaire` (`TableOfUsers`) |
| `pile` | the four programs; 2 producers, 2 consumers (1 and 1 where the program has so), stack of 2, 5 characters | `TypeOK` (the top between the values of the two tests), `NoLostWakeup`, `EachCarOnce`, `EveryCarServed`, the last three where the tests of a program agree |
| `pile_sem` | 2 producers, 2 consumers, stack of 1, 3 characters | `Bornes`; `EachCarOnce` and `PasPerdu` until a push and a pop have overlapped |
| `barriere` | 4 threads; `nbProcess` = 3, that is 4 processes | `Implements` and `ProcessusImplements` (the abstract `Barriere`), `PersonneNeDort`, `TousSortent` (every thread passes; with `ex1shm.c` every process, with `compteur` exactly `nbProcess`) |
| `affichage` | 3 adding threads, the three programs; `ex4.c` with 5 threads, `ex4c.c` with 4 | `PasPerdu`, `SommeComplete`, `SommeAffichee`; `EnOrdre`, `SonTourEveille`, `FlagsJustes` (order without spurious wakeups, a flag raised for the next only), `Finissent` |
| `transfert` | 2 connexions, of one client or two, eleven choices of programs and commands; buffer of 2 units, 3 kept by the kernel, files of 3 and 1 | `Transferts` (the units of the file are all in the copy, in order, among what else the buffers hold), `HandlerRevient`, `FinDite`, `ServiceFini` |
| `processus` | nineteen programs, 2 to 5 processes (`N` = 3); files of 3 characters, values 2 and 7 | `Ordres` and `Resultats` (what the programs keep of the order and compute), `Fin` |
| `tme5` | chain of 4 threads; 3 threads and 4 files, any of them unreadable; tree of up to 3 levels | `Annonces`, `Conversions`, `UnPassageParPose`, `Finissent` |
| `echanges` | pipe of 2, 3 characters typed, 5 displayed; 2 clients, 2 requests each, 1 duplicate; 2 ports, addresses of lengths 2 and 4, 4 connexions, queues of 2, 1 interruption of `accept` | `Transcription`, `ReponseSienne`, `LecturesFraiches`, `LigneJuste`, `Servis` |

The other runs each find the code against a comment of its source:

| Run | Instance and bounds | Property violated |
|---|---|---|
| `chat_torn` | as `chat` | `OnlyUsersInTable`: a text enters the table of users |
| `pile_bloque` | `producteurs_consommateurs.c`; 2 producers, 1 consumer, stack of 3 | `PushEnds`: producers wait for a wakeup that never comes |
| `tme5_fin` | tree of 2 levels | `ArbreTermine`: main joins for ever |

The type invariant of a module is a conjunct of one of the properties of its run
(`TypeOK`, `ClientSegments`, `ProcessusImplements`, `FlagsJustes`, `Bornes`,
`Transferts`, `Ordres`, `Annonces`, `Conversions`, `UnPassageParPose`, `Transcription`,
`LecturesFraiches`). Those of `SommeThreads` and `BarriereCond` are theorems instead,
and that of `Ordre` is in the invariant of its proof.

**Bounds.** `MaxEvents` counts the clients started, the texts typed and the SIGINTs sent; three
is enough for a text of one client to meet the connexion or the handler of another, for a client
to be interrupted in each of its sections, and for the server to meet a missing segment.
`MaxMess` is tied to it: each post of a run has an index of its own (the code never compares
`write` with `MAX_MESS`; an overrun has no meaning in the model). `MAX_USERS` = 3 is never
reached by two clients and one torn text. The stack of 2 and five characters fills the stack
with two producers waiting and empties it with two consumers waiting. In `pile_sem` a stack of 1
holds two characters and a third one waits, which meets both waits, both posts and both races;
four characters and a stack of 2 are beyond a few minutes. In the programs whose size is a
thread count, the hazards involve a last thread, one before it and one more. A file of 3 units
with a buffer of 2 is written in two parts, the second one incomplete, and 3 units kept by the
kernel do not hold two buffers, so that a writer waits; two connexions are enough for two
services at once and for two SIGCHLD that merge. The programs of `processus` have the number of
processes of their exercise, or, where it is a parameter, `N` = 3 sons, so that a process is
neither first nor last. Two
requests of each of two clients give a late duplicate something to be mistaken for, and a
reading a setting of somebody else. Two lengths of addresses leave the end of a longer one in
`str`. `MaxInterruptions` = 1 leaves a connexion for the next `select`; no property depends on
how many there are. `tme5_fin` needs a thread with two sons: two levels.

**Symmetry** is used in the chat runs only, which have no liveness: nothing tells a
client from another but its name.

**Deadlock** is not checked: every program ends, or waits for an input that the bound has cut
off, or (`pile_sem`, `chat`, the servers) really can block, as described below.

**Fairness.** Each thread and each process is weakly fair: the scheduler of the system runs all
that can run. `pthread_mutex_lock` and a `sem_wait` that others post again and again are
strongly fair: the systems the programs are written for hand a mutex on and do not starve a
waiter for ever; the threads of the chain and of the tree take a mutex in most of their
steps, and their whole action is strongly fair. `OrdreFlags` needs weak fairness only, each
mutex being asked for once by two threads. In `transfert` the father, each service and each
client are weakly fair: a read or a write that is possible is made. In `echanges` so are the
servers and the reception of an answer that has come. No fairness is put on spurious wakeups, on
SIGINT, on what is typed, on losses or on anything else that may never happen. The chat and
`pile_sem` are checked for safety only.

### What the programs do not do

Three disagreements between the code and its comments are runs of their own,
listed above and under `findings`. The others met while modelling are below, with the
comment that the code disagrees with where there is one. No property asserts them; where a
passing property excepts them, or takes the meaning of the code, its comment says so.

* `chat_common.h` 35-37 says that `read` is the "nombre de messages retransmis par le serveur" and
  `nb` the "nombre total de messages emis"; `client.c` 70-71 does `read++` and `nb++` at each
  reception. `nb` counts sendings and receptions, and `read` each delivery twice. `BoxAccount`,
  in `ClientSegments`, is an account of these statements, not of what the header says.
* `serveur.c`: after a hole has been filled, `emplacementVide` stays 1 and a new
  user is appended no more, against line 60, "Ajout de l'utilisateur" (`ConnectedInTable`
  excludes it); a deconnexion is treated before
  the connexion it follows when both wait, and the client stays in the
  table; `write--` races with the `write++` of a text, and messages are lost
  or treated twice. The server exits when the segment of a user of the table is gone
  (`ExitCause` says when that is). A handler that interrupts the connexion of its own client waits
  for a semaphore that its own thread holds: nobody goes on (`ServerTokens` holds there).
* `producteur_consommateur.c` and `producteurs_consommateurs.c` decrement before they
  read (the first one also reads index -1), so that they take the cell under
  the top, where the text says "désempiler une valeur du sommet de la pile" (line 9);
  `Coherent` excludes them from the properties on characters and wakeups, not from the run. The
  two called "2" test `stack_size == STACK_SIZE` under the comment "Si le tableau est plein"
  (line 29), one too many for `int pile[STACK_SIZE]`: the cell after the array is written.
  `TypeOK` bounds the top by the tests of the program, not by the array.
* `thread_cond_wait_affichage_final.c`: main joins every thread but the one
  that displays. `detach.c`: the count is ahead of the sum, and loses increments.
* `ex4c.c`: a spurious wakeup breaks the order; main may initialise a slot after
  its flag was raised, and the program then never ends.
* `ex1CompteurClassiqueAméliorer.c`: the process in excess stays blocked for ever.
* `TME7/ex3.c`: an increment lost to the race of push and pop loses or doubles a
  character, skips a post, and then producers and consumers wait for each other.
* File servers: LIST waits for `ls` before it reads the pipe, so that a long listing blocks for
  ever. What `open` returns for DOWNLOAD is not tested, and the loop on -1 ends by SIGPIPE only.
  A command or the end of the input gives `strcmp` or `strlen` a null pointer: the son dies, or
  the whole server with threads, or the client. `ex7-client.c` never closes its sockets. Merged
  SIGCHLD leave zombies. With two threads of TME9 at once, `n` and `fichierfd` are those of the
  last one, and the data of one go into the file of the other (`croise`). Both ends write 4*TAILLE
  bytes whatever was read (`ex6-serveur.c` 145, `ex7-client.c` 134 and 174), so that the copy holds
  the rest of the buffers, and of the command, among the data: it is not the file, against "les
  recopie dans le fichier" (`ex6-serveur.c` 137). `Transferts` is about the data only.
* `ex2-server.c` dies of a G before any S, and of a truncated command; a lost datagram leaves
  its client waiting for ever, a duplicate is taken for the next answer.
* TME9 `ex2.c`: the end of a longer address stays in the lines of shorter ones.
* Pipes: at the end of its input the client sends the last character again and again, and the
  server displays it after the client has gone; a SIGINT before the pipe exists leaves it
  behind and the server in `open`, against "doit alors fermer le tube nommé et le détruire"
  (`ex2server.c` 14; `Servis` excepts it); one between `mkfifo` and `open`, or a
  client that is interrupted there, removes the name, and the server ends with an error.
* `thread_chaine_reveil_user_.c`: the broadcast comes before the flag falls, so that a thread
  may test the flag, sleep and be woken by nobody (`perdu`); the first thread is stored past the
  table and never joined, and a cell that nobody has written is.
* `thread_n+1.c`: each setting of `cond` lets one thread pass, so that with more than one level
  the program does not end (`ArbreTermine`), and a thread creates its sons without a look at the
  others of its level, against line 10, "que toutes les Threads d'un niveau L soient créées avant
  de commencer". Nothing is displayed in the end.
* `thread_lect_fic_suivant.c`: the index is computed again after the unlock: one file is
  converted twice and another never (`course`).
* Signals: one that comes before `sigsuspend` and is not blocked is lost and its program waits
  for ever (`perdu`); the last process of `chaine_fils_sigsuspend_kill.c` waits for nobody; the
  semaphores of `TME7/ex4.c` are private to each process, which block each on its own. `ex3.c` and
  `ex3c.c`: "chaque processus doit attendre que leur fils se termine" (`ex3.c` 12), but a son
  sends its signal before it exits and its father does not wait any more: it may end first.
  `Ordres` keeps the displays of these two in order, not the ends of father and son.
  `p2_p1_p3.c`: the end of P2 is to be displayed when P1 "prend connaissance de la mort de son
  fils" (line 15); line 62 displays it after the signal of P2, before the `wait` of line 63.
* `TMEExam/ex1.c`: "les n premiers caractères" by "n processus" (lines 13-14): `n` + 1 characters
  are displayed by `n` + 1 processes, from the offset `n` down (`Resultats` says so); at or past
  the end of the file `pread` reads nothing and the variable is displayed as it is.

## 4. Proofs

All theorems are checked by `tlapm` to the last leaf, for every value of the constants that
satisfies the assumptions of the module. Every safety property of a passing run is the
consequent of one.

The assumptions say what the programs are, never what the runs need: sets of threads or clients
that are finite and disjoint, sizes that are positive, names of conditions that differ, a
reader's buffer in the kernel (`Tampon`) no smaller than one write, pids enough for the processes
of the largest program. Two deserve a word.
`TransfertAssumption` has the client of `ex4-serveur.c` send LIST only: `ex5-client.c` writes
the constant "LIST ". `INET_ADDRSTRLEN` in `Select` is longer than any address. The theorems on
the chat hold for any `MaxEvents`, and `MaxMess` is that bound: the code itself never compares
an index with `MAX_MESS`.

* **`ChatProofs`**, the table. `HolesAtEnd` is not inductive: an append would break it if
  something stood past `nbUserCourant`. The invariant `TableIInv` adds that the table is empty
  from there on; it is kept by a connexion, which fills all the holes or appends to a table
  without one, and by a deconnexion, which moves the rest down. From it: `TableInvariant`,
  `HolesStayAtEnd` (a name never follows a hole) and `AtMostOneNameLeaves` (a message makes at
  most one user disappear).
* **`ChatProofs`**, the whole program. `Base` (theorem `BaseInvariant`) says where each thread
  of a client may be for each status of the client (`StatusOK`, `ServeurOK`), that `write` and
  the messages still to be posted are no more than the events (`Bounded`), so that every index
  is in its array, and that the segments of the clients exclude and account for their loads and
  stores (`BoxReg`, `BoxAccount`); the segment of the server excludes nothing, and nothing of it
  is in there. From `Base`: `SegmentsKept` and
  `ChatHolesAtEnd`. Three more invariants stand on it: `ContentsOK` (every name in a message or
  in the table was once started) gives `ExitExplained`; `Tokens` (`sem` of the server and those
  who hold it are one more than the texts posted, with the finiteness that counting needs) gives
  `TokensAccounted`; `Calm`, in the runs without texts and until a hole is filled, follows each
  connexion from the message to the table, in order, and gives `ConnectedStay`. Without texts
  at all, whether a hole was filled or not, the posts exclude one another, so that a message is
  read whole and its name is that of a client that connects or leaves: `TableIsDirectory`.
* **`PileProofs`.** `NoLostWakeup` is not inductive: it needs that the threads wait on their own
  condition (`Attentes`), that the producer inside push holds a character (`Tenant`), and the
  bounds of `stack_size` (`TypeOK`). The key is that a wakeup is sent at the one value that ends
  the condition of the waiters, and wakes all of them, or the only one (`ReveilOK`). `PileWakes`
  follows, and `PileEachCarOnce`, whose invariant gives each character read one
  place exactly (`UnePlace`): its producer, a live cell, or the output. All are for any number
  of threads, any size and any input; these two in the programs whose tests agree with one
  another (`Coherent`: the two called "2"). `PileTyped` is for the four: the top stays between the
  values of the two tests, and the cells outside of them are never written.
* **`PileSemProofs`.** A push excludes pushes only, a pop pops only (`Exclus`). What a test has
  found stays true until the store although the other side writes `stack_size` in between, even
  from a value loaded long before (`Limites`), which gives `PileSemBornes`. Until a push and a
  pop have overlapped, `Places` is the `UnePlace` of above (`PileSemEachCarOnce`), and
  `Attentes` that who waits with no post to take has to, or somebody is about to post
  (`PileSemPasPerdu`).
* **`ArbresProofs`**, threads. For any finite set of threads: typing (`BarriereTyped`), nobody
  sleeps once the condition is set (`BarriereWakes`), and `wait_barrier` implements `Barriere`
  (`BarriereImplements`). The invariant says that `val_inside_barrier` is the cardinality of the
  set of those who have come, that the condition is raised when that set is everybody, and that
  nobody passes before.
* **`ArbresProofs`**, processes. For any `nbProcess` both programs implement the same
  `Barriere` (`ProcessusImplementent`). `SIInv`: `mutexSem` and the processes in its section add
  up to its initial value; the counter of the program, `cpt` up or `compteur` down, counts those
  who have come, and a process releases, or `barrier` is posted, only once `nbProcess` of them
  have (`Comptees`); one process at most has still to fork, and those after it do not exist
  (`Chaine`).
* **`AffichageProofs`.** The sum: for any finite number of adding threads, typing
  (`SommeTyped`), the thread that displays never sleeps once the condition is raised
  (`SommeReveille`), in the three programs; what is displayed is the complete sum
  (`SommeEstComplete`), in the two that count under the mutex. The invariant relates `valThread`
  to the number of threads that have counted themselves (equal, or at most that where `detach.c`
  loses increments), and says that a thread between its count and its addition holds the mutex.
  The order: for any number of threads, the k-th number displayed is k - 1 (`OrdreEnOrdre`) and
  the thread whose turn it is never sleeps (`OrdreEveille`), the turn being the number of
  displays made; with a flag per thread (`FlagsEnOrdre`), a raised flag says that the thread
  before has displayed and, as long as no wait returns without a signal, so does being past the
  wait.
* **`ChaineProofs`.** For any number of threads, what the chain announces is true
  (`TheoremeAnnonces`). The invariant says where the chain stands (`Chainons`: a thread has left
  its start exactly if the next one exists), that who is past a wait has seen its flag down
  (`Passages`), and that the threads main has joined have ended (`Joints`). It does not need the
  condition: spurious and early wakeups change nothing in it, and it is why the lost wakeup
  costs liveness only. The tree, for any depth (`TheoremeUnPassage`): main sets `cond` once, and
  each thread with sons once; the threads past the wait, and `cond`, are no more than these
  settings (`AIInv`): so one thread at a time creates its sons, and a thread with sons
  never ends, nor main (`ArbreSansFin`: the defect of `tme5_fin`, for every depth). The files,
  for any number of them
  (`LectureConversions`): an index is held by one thread, and one that was held is converted or
  about to be (`LIndices`); without a race a thread converts and names the file that it displays
  (`LSansCourse`).
* **`DatagrammesProofs`.** For any number of clients and requests, over a network that loses and
  reorders, until it duplicates: a client takes no answer but its own (`TheoremeReponseSienne`),
  and no reading returns a value older than a setting answered before it was sent
  (`TheoremeLecturesFraiches`). The invariant that makes both inductive is that each client has
  at most one datagram in the network, its request or the answer, and only while it waits
  (`UnSeul`); an answer to a reading that is still in the network is already fresh (`Reponses`).
  The pipe (`TheoremeTranscription`): what the server has read, the pipe and what the client
  holds follow one another while both ends are open (`PFlux`), and what is displayed is what was
  read (`PSortie`). The ports (`TheoremeLigneJuste`): `str` keeps, up to the end of the longest
  address, what was written there, and the end of its initial value after it (`SIInv`).
* **`ArbresProofs`**, trees of processes. For any number `N` of sons, any length of the file
  and any values, what is said of the order (`OrdresProc`) and of the result
  (`ResultatsProc`) holds in all nineteen programs. (`ip` is the `pc` of `Processus`: that of the
  barrier is in the same module.) A lemma per program gives the table of its
  calls (`Table_`); nearly all the rest speaks of calls, not of programs.
  - `Base`, for all: the text is well formed (`Bien`: a process is forked by one call only), types
    (`Types`), where each process is (`Places`: who exists was forked by a call that its father
    has passed), and the masks. Every step is then one of a list of effects (`Effets`), which
    the other invariants use instead of the actions.
  - `Attendus`, the programs that wait: a process that runs has no more sons left than a bound of
    its call, which a fork raises, a wait lowers by one, and which is 0 at the end (`Sursis`); the
    sons of who has ended have ended and were waited for (`Orphelins`).
  - `Signaux`, where a signal is sent by one call only: a signal pending was sent; a passed
    `sigsuspend` has received one of its signals, two of them two different ones. Hence an end
    tells who has displayed, however signals merge.
  - `Lance`: before the last process of the chain exists nobody has a signal and all are at the
    fork or in `sigsuspend`. `Trois`: how far P1 of `p2_p1_p3.c` is, by its trace.
  - `Totaux`: what a process of the chain has taken is what the last one drew (`Transmis`); what
    the file or the socket holds, with what main has received, is the sum of what the sons have
    put (`Verse`, `UnDatagramme`). `Cumul` needs that a sum exists, is unique, and changes by
    one term with its table (`CumulOK`, `CumulChange`), by induction over a set of naturals
    (`Recurrence`).
  - `Lus`, the characters: in `ex1` and `ex1c` the trace goes down, in `ex1` from position
    `N` + 1 with nothing read where the file has no such position, since a process displays
    after the end of the next one (`Renverse`; `Lecture`, `Fins` and `Rangees`); in
    `diff_C_POSIX.c` each character read has one place exactly, the trace, a process or a
    buffer (`Repartis`). In `taille_fic_egal_8.c` the two offsets and the size follow from how
    far the father and the son are (`Ecrits`).
* **`TransfertProofs`.** The `wait` of the SIGCHLD handler always finds a son that has ended
  (`TheoremeHandlerRevient`), for any number of connexions: a SIGCHLD pending and a handler that
  has begun stand for two different zombies. The transfers (`TheoremeTransferts`), for any
  number of connexions and clients, sizes of files and buffers, and clients interrupted
  anywhere: the units of the file in the copy, in DATA and in the stream make up what has been
  read of the source, whatever the buffers bring besides. The
  invariant `CInv` is one of each connexion (`Connexion`: the place of the service agrees with
  the command, nothing is written too early, who serves holds the connexion, `n` and `fichierfd`
  are its own, and the copies), of each client (`Poste`), and of the threads that have served
  one at a time (`UnSeul`); a step on a connexion leaves the others alone (`Cadre`,
  `ServiceAutres`). It needs to know what `Donnees`, which drops `Nul` from a stream, does of a
  concatenation, a part and a padded buffer. Induction is over a set of naturals there
  (`Recurrence`, from the well-foundedness of `<`), since the theorems of the library on an
  operator cannot be instantiated, and `Donnees` is a function of the length for the same
  reason.

Only model-checked:

* liveness (`EveryCarServed`, `TousSortent`, `SommeAffichee`, `Finissent`, `FinDite`,
  `ServiceFini`, `Fin`, `Servis`), out of the prover's reach together with ENABLED;
* the violations, which are about particular programs (but for `ArbreSansFin`).

## 5. Plan

1. Extend the chat: a client restarted under the same name, which unlinks the segment the server
   has open; SIGINT while the segments are created; a full segment. Larger instances of
   `pile_sem`.
2. Prove more: the safety part of `FinDite` (a client that waits for its answer has somebody left to give it).

## 6. Not modelled, and why

* Files and directories (`recopie_fichier.c`, TME2) and asynchronous I/O (TME10): one
  process, input and output only.
* `ex7_barrier.c`: the barrier is that of the library. `thread_mutex_rand.c`,
  `thread_transfert_val.c`: one addition under a mutex, or none.
* `TME7/ex1.c` exits when its semaphores are created; `ex1VersionSansMutexProf.c` counts
  nobody, its last rank releases the others: there is no barrier to check.
* `TME6/ex4.c`, `msqueue_with_char*.c` and `fils_petitfils_bonne_methode.c` do not compile,
  `TME6/ex5.c` is empty; `FEILE.c`, `FILE.c`, `sav.c` and `z.c` of TME8 are drafts of the file
  server.
* `chaine_fils_sigstop_sigcont.c` gives to `kill` numbers of processes that nobody has written.
* Multicast (TME9, `ex3-client.c`, `ex3-server.c`): each uses a descriptor it never opens, and
  nothing is exchanged.
* Everything that is displayed, but for its order or its content where a program is about it.

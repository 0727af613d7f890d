------------------------ MODULE ProcessusProgrammes ------------------------
(***************************************************************************)
(* The programs that fork, wait and send signals (TME1, TME3, TME6, TME7,  *)
(* TME8, TMEExam), as the calls that each of their processes makes.        *)
(* Process 1 runs main; the others are numbered in the order of their      *)
(* level.  A program is                                                    *)
(*   nom, masque (the signals that main blocks before it forks),           *)
(*   texte (by process, its calls), boite (what a file holds at the start) *)
(* N is the number given on the command line, at least 1; in some programs *)
(* the processes are a chain, each the son of the one before, in others    *)
(* all are sons of main.                                                   *)
(***************************************************************************)
EXTENDS Naturals, Sequences

CONSTANTS
    N,
    Longueur    \* of the file that is read

Deux == {"USR1", "USR2"}

Fork(q)    == <<"fork", q>>
Kill(q, s) == <<"kill", q, s>>
Suspend(S) == <<"suspend", S>>      \* sigsuspend, S is not blocked
Pending(S) == <<"pending", S>>      \* loops on sigpending until all S is pending
Wait       == <<"wait">>
Waitpid(q) == <<"waitpid", q>>
Statut(q)  == <<"statut", q>>       \* waitpid, the exit code is kept
Dit        == <<"dit">>             \* displays its value
Pose(v)    == <<"pose", v>>         \* takes v as its value
Lisible(q) == IF q <= Longueur THEN q ELSE 0
Pread(q)   == Pose(Lisible(q))      \* the character at q; 0 if pread reads nothing there
Alea       == <<"alea">>            \* draws its value
Depose     == <<"depose">>          \* puts its value where the father looks for it
Retire     == <<"retire">>          \* adds one of these values to its own
Somme      == <<"somme">>           \* adds all of them
Lit(t)     == <<"lit", t>>          \* next character, t at a time from the file; ends at the end
Retour     == <<"retour">>          \* back to the first call
Ecrit(f, l) == <<"write", f, l>>
Lseek(f)   == <<"lseek", f>>
SemWait(k) == <<"semwait", k>>
SemPost(k) == <<"sempost", k>>

P(nom, masque, texte) == [nom |-> nom, masque |-> masque, texte |-> texte, boite |-> <<>>]

(* TMEExam ex3.c. Mutant: fils1 waits for one signal only.                 *)
ex3UnSignal == P("ex3", Deux,
    << <<Fork(2), Fork(3), Suspend({"USR2"}), Dit>>,
       <<Fork(4), Suspend(Deux), Dit, Kill(1, "USR2")>>,
       <<Fork(5), Suspend({"USR1"}), Dit, Kill(2, "USR2")>>,
       <<Dit, Kill(2, "USR1")>>, <<Dit, Kill(3, "USR1")>> >>)

ex3 == P("ex3", Deux,
    << <<Fork(2), Fork(3), Suspend({"USR2"}), Dit>>,
       <<Fork(4), Suspend({"USR1"}), Suspend(Deux), Dit, Kill(1, "USR2")>>,
       <<Fork(5), Suspend({"USR1"}), Dit, Kill(2, "USR2")>>,
       <<Dit, Kill(2, "USR1")>>, <<Dit, Kill(3, "USR1")>> >>)

(* TMEExam ex3c.c: the sons display before they wait.                      *)
ex3c == P("ex3c", Deux,
    << <<Fork(2), Fork(3), Suspend({"USR2"})>>,
       <<Fork(4), Dit, Suspend({"USR1"}), Suspend(Deux), Kill(1, "USR2")>>,
       <<Fork(5), Dit, Suspend({"USR1"}), Kill(2, "USR2")>>,
       <<Dit, Kill(2, "USR1")>>, <<Dit, Kill(3, "USR1")>> >>)

(* fils_petitfils_mauvaise_methode.c: the signals stay pending.  Mutant:   *)
(* the second son waits for both signals.                                  *)
mauvaiseDeux == P("mauvaise", Deux,
    << <<Fork(2), Fork(3), Pending(Deux), Dit>>,
       <<Fork(4), Pending(Deux), Dit, Kill(1, "USR1")>>,
       <<Fork(5), Pending(Deux), Dit, Kill(2, "USR2"), Kill(1, "USR2")>>,
       <<Dit, Kill(2, "USR1")>>, <<Dit, Kill(3, "USR1")>> >>)

mauvaise_methode == P("mauvaise", Deux,
    << <<Fork(2), Fork(3), Pending(Deux), Dit>>,
       <<Fork(4), Pending(Deux), Dit, Kill(1, "USR1")>>,
       <<Fork(5), Pending({"USR1"}), Dit, Kill(2, "USR2"), Kill(1, "USR2")>>,
       <<Dit, Kill(2, "USR1")>>, <<Dit, Kill(3, "USR1")>> >>)

(* p2_p1_p3.c: nothing is blocked.                                         *)
p2_p1_p3 == P("p2", {},
    << <<Fork(2), Suspend(Deux), Suspend(Deux), Dit, Wait>>,
       <<Fork(3), Wait, Kill(1, "USR2")>>, <<Kill(1, "USR1")>> >>)

(* chaine_fils_sigsuspend_kill.c.  The last process leaves the loop by     *)
(* break and so waits as well, for nobody.                                 *)
chaine_kill == P("chaine", Deux, [p \in 1 .. N + 1 |->
    IF p = 1 THEN <<Fork(2), Suspend({"USR1"}), Dit>>
    ELSE IF p <= N THEN <<Fork(p + 1), Suspend({"USR1"}), Dit, Kill(p - 1, "USR1")>>
    ELSE <<Dit, Kill(N, "USR1"), Suspend({"USR1"}), Dit, Kill(N, "USR1")>>])

(* chaine_fils_val_exit_wait.c: the exit codes carry the value.            *)
chaine_val == P("val", {}, [p \in 1 .. N + 1 |->
    IF p = 1 THEN <<Fork(2), Statut(2), Dit>>
    ELSE IF p <= N THEN <<Fork(p + 1), Statut(p + 1)>> ELSE <<Alea>>])

(* taille_fic_egal_8.c: descriptors 1, shared by fork and dup, and 2.      *)
(* Mutant: the father does not wait before it writes.                      *)
tailleSansAttente == P("taille", {},
    << <<Ecrit(1, 5), Fork(2), Lseek(1), Ecrit(1, 2), Ecrit(1, 2), Kill(2, "USR1"), Wait>>,
       <<Ecrit(1, 3), Kill(1, "USR1"), Suspend({"USR1"}), Ecrit(2, 2)>> >>)

taille_fic == P("taille", {},
    << <<Ecrit(1, 5), Fork(2), Suspend({"USR1"}), Lseek(1), Ecrit(1, 2), Ecrit(1, 2),
         Kill(2, "USR1"), Wait>>,
       <<Ecrit(1, 3), Kill(1, "USR1"), Suspend({"USR1"}), Ecrit(2, 2)>> >>)

(* TMEExam ex1.c: pread, one character more than there are sons. At or     *)
(* past the end of the file it reads nothing, and c is displayed as it is: *)
(* nobody has set it, for main has read further than its sons.             *)
ex1 == P("ex1", {}, [p \in 1 .. N + 1 |->
    IF p = 1 THEN [k \in 1 .. 2 * N + 2 |->
                     IF k = 1 THEN Pread(N + 1) ELSE IF k = 2 THEN Dit
                     ELSE IF k % 2 = 1 THEN Fork((k + 1) \div 2) ELSE Wait]
    ELSE <<Pread(N + 2 - p), Dit>>])

(* TMEExam ex1c.c: a chain that reads one after the other.                 *)
ex1c == P("ex1c", {}, [p \in 1 .. N + 1 |->
    IF p <= N THEN <<Lit(1), Fork(p + 1), Wait, Dit>> ELSE <<>>])

(* TMEExam ex2.c.                                                          *)
ex2 == P("ex2", {},
    << <<Fork(2), Fork(3), Waitpid(2), Dit, Waitpid(3), Dit>>,
       <<Dit, Fork(4), Wait, Dit>>, <<Dit, Fork(5), Wait, Dit>>, <<Dit>>, <<Dit>> >>)

(* fils1_fils2_fils1.1.c: waitpid(0) where ex2.c has wait.                 *)
fils1_fils2 == [ex2 EXCEPT !.nom = "fils1"]

(* TMEExam ex2c.c                                                          *)
ex2c == P("ex2c", {},
    << <<Fork(2), Fork(3), Wait, Wait>>,
       <<Fork(4), Dit, Wait>>, <<Fork(5), Dit, Wait>>, <<Dit>>, <<Dit>> >>)

(* nfork.c                                                                 *)
nfork == P("nfork", {}, [p \in 1 .. N + 1 |->
    IF p = 1 THEN [k \in 1 .. 2 * N + 1 |->
                     IF k <= N THEN Fork(k + 1) ELSE IF k <= 2 * N THEN Wait ELSE Dit]
    ELSE <<Dit>>])

(* TME6 ex3.c: a cell of shared memory by son.                             *)
memoire == P("memoire", {}, [p \in 1 .. N + 1 |->
    IF p = 1 THEN [k \in 1 .. 2 * N + 2 |->
                     IF k <= N THEN Fork(k + 1) ELSE IF k <= 2 * N THEN Waitpid(k - N + 1)
                     ELSE IF k = 2 * N + 1 THEN Somme ELSE Dit]
    ELSE <<Alea, Depose>>])

(* fils_fichier_pere_addition.c: a file, which is not truncated; reste is  *)
(* what an earlier run left beyond N characters.                           *)
addition(reste) == [memoire EXCEPT !.nom = "addition", !.boite = reste]

(* TME8 ex1.c: a datagram by son, received before the next fork.           *)
datagramme == P("datagramme", {}, [p \in 1 .. N + 1 |->
    IF p = 1 THEN [k \in 1 .. 3 * N + 1 |->
                     IF k > 3 * N THEN Dit ELSE IF k > 2 * N THEN Waitpid(k - 2 * N + 1)
                     ELSE IF k % 2 = 1 THEN Fork((k + 3) \div 2) ELSE Retire]
    ELSE <<Alea, Depose>>])

(* diff_C_POSIX.c: read, or fgetc through the buffer of each process.      *)
posix == P("posix", {},
    << <<Fork(2), Fork(3), Fork(4)>>,
       <<Lit(1), Dit, Retour>>, <<Lit(1), Dit, Retour>>, <<Lit(1), Dit, Retour>> >>)

libc == P("libc", {},
    << <<Fork(2), Fork(3), Fork(4)>>,
       <<Lit(9), Dit, Retour>>, <<Lit(9), Dit, Retour>>, <<Lit(9), Dit, Retour>> >>)

(* TME7 ex4.c, nbProcess = 3: the semaphores are not shared (sem_init with *)
(* 0, in malloc'd memory): each process waits and posts on its own copies. *)
sem_anonymes == P("sem", {},
    << <<Fork(2), Dit, SemPost(1), Wait>>, <<Fork(3), SemWait(1), Dit, SemPost(2), Wait>>,
       <<SemWait(2), Dit, Wait>> >>)

Programmes ==
    {ex3, ex3c, mauvaise_methode, p2_p1_p3, chaine_kill, chaine_val, taille_fic, ex1, ex1c, ex2,
     fils1_fils2, ex2c, nfork, addition(<<>>), addition(<<5>>), memoire, datagramme, posix, libc,
     sem_anonymes}
=============================================================================

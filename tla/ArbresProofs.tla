--------------------------- MODULE ArbresProofs ---------------------------
(***************************************************************************)
(* Proofs about processes: trees of processes with their signals, their    *)
(* ends and the files they share, for any number of sons; then the         *)
(* barriers, of threads and of processes, for any number of either.        *)
(* The invariants of the trees are Base (types, places, what wait awaits), *)
(* then by property Attendus, Parts, Totaux and Lus; those of the          *)
(* barriers are IInv and SIInv.                                            *)
(***************************************************************************)
EXTENDS MCBarriere, MCProcessus, FiniteSetTheorems, SequenceTheorems,
        WellFoundedInduction, TLAPS

(* Induction on the naturals, for a set instead of a predicate.          *)
LEMMA Recurrence ==
  ASSUME NEW K, 0 \in K, \A k \in Nat : k \in K => k + 1 \in K
  PROVE  Nat \subseteq K
<1> DEFINE R == {ss \in Nat \X Nat : ss[1] < ss[2]}
           Hors == Nat \ K
<1> SUFFICES ASSUME Hors # {} PROVE FALSE
  OBVIOUS
<1>1. IsWellFoundedOn(R, Nat)
  BY NatLessThanWellFounded DEF OpToRel
<1>2. Hors \subseteq Nat
  OBVIOUS
<1>3. \E m \in Hors : \A y \in Hors : ~ (<<y, m>> \in R)
  <2> HIDE DEF Hors, R
  <2> QED BY <1>1, <1>2, WFMin
<1>4. PICK m \in Hors : \A y \in Hors : ~ (<<y, m>> \in R)
  BY <1>3
<1>5. m \in Nat /\ m \notin K /\ m # 0
  OBVIOUS
<1>6. m - 1 \in Nat /\ <<m - 1, m>> \in R
  BY <1>5
<1>7. m - 1 \in K
  BY <1>4, <1>6
<1>8. (m - 1) + 1 \in K
  BY <1>6, <1>7
<1> QED BY <1>5, <1>8

(* The sums of the first values of f, up to the m0-th.                      *)
Sommes(f, m0, s) == s \in [0 .. m0 -> Nat] /\ s[0] = 0 /\ \A k \in 1 .. m0 : s[k] = s[k - 1] + f[k]

(* Every table of naturals has a table of sums.                          *)
LEMMA SommesExistent ==
  ASSUME NEW f, NEW m0 \in Nat, \A k \in 1 .. m0 : f[k] \in Nat
  PROVE  \E s : Sommes(f, m0, s)
<1> DEFINE K == {m \in Nat : m <= m0 => \E s : Sommes(f, m, s)}
<1>1. 0 \in K
  <2>1. Sommes(f, 0, [k \in 0 .. 0 |-> 0])
    BY DEF Sommes
  <2> QED BY <2>1
<1>2. ASSUME NEW m \in Nat, m \in K PROVE m + 1 \in K
  <2> SUFFICES ASSUME m + 1 <= m0 PROVE \E s : Sommes(f, m + 1, s)
    OBVIOUS
  <2>1. PICK s : Sommes(f, m, s)
    BY <1>2
  <2> DEFINE u == [k \in 0 .. m + 1 |-> IF k = m + 1 THEN s[m] + f[m + 1] ELSE s[k]]
  <2>2. f[m + 1] \in Nat /\ s[m] \in Nat
    BY <2>1 DEF Sommes
  <2>3. u \in [0 .. m + 1 -> Nat]
    BY <2>1, <2>2 DEF Sommes
  <2>4. u[0] = 0 /\ \A k \in 1 .. m + 1 : u[k] = u[k - 1] + f[k]
    <3>0. s[0] = 0 /\ \A k \in 1 .. m : s[k] = s[k - 1] + f[k]
      BY <2>1 DEF Sommes
    <3>1. u[0] = 0 /\ u[m + 1] = u[m] + f[m + 1]
      BY <3>0
    <3>2. ASSUME NEW k \in 1 .. m PROVE u[k] = u[k - 1] + f[k]
      BY <3>0
    <3>3. ASSUME NEW k \in 1 .. m + 1 PROVE k \in 1 .. m \/ k = m + 1
      OBVIOUS
    <3>4. (m + 1) - 1 = m
      OBVIOUS
    <3> HIDE DEF u
    <3> QED BY <3>1, <3>2, <3>3, <3>4
  <2>5. Sommes(f, m + 1, u)
    BY <2>3, <2>4 DEF Sommes
  <2> QED BY <2>5
<1>3. Nat \subseteq K
  <2> HIDE DEF K
  <2> QED BY <1>1, <1>2, Recurrence
<1> QED BY <1>3

(* Two tables of sums of the same values agree where both are defined.   *)
LEMMA SommesUniques ==
  ASSUME NEW f, NEW m0 \in Nat, NEW m \in Nat, NEW s, NEW u, Sommes(f, m0, s), Sommes(f, m, u), m <= m0
  PROVE  s[m] = u[m]
<1> DEFINE K == {k \in Nat : k <= m => s[k] = u[k]}
<1>1. 0 \in K
  BY DEF Sommes
<1>2. ASSUME NEW k \in Nat, k \in K PROVE k + 1 \in K
  <2> SUFFICES ASSUME k + 1 <= m PROVE s[k + 1] = u[k + 1]
    OBVIOUS
  <2>1. k + 1 \in 1 .. m0 /\ k + 1 \in 1 .. m /\ s[k] = u[k]
    BY <1>2
  <2> QED BY <2>1 DEF Sommes
<1>3. Nat \subseteq K
  <2> HIDE DEF K
  <2> QED BY <1>1, <1>2, Recurrence
<1> QED BY <1>3

(* Cumul of Processus is the last of the sums.                           *)
LEMMA CumulSommes ==
  ASSUME NEW f, NEW m0 \in Nat, NEW s, Sommes(f, m0, s)
  PROVE  P!Cumul(f, m0) = s[m0]
<1> DEFINE F(e) == [k \in 0 .. m0 |-> IF k = 0 THEN 0 ELSE e[k - 1] + f[k]]
           c == CHOOSE e : e = F(e)
<1>1. s = F(s)
  BY DEF Sommes
<1>2. c = F(c)
  <2> HIDE DEF F
  <2> QED BY <1>1
<1>3. P!Cumul(f, m0) = c[m0]
  BY DEF P!Cumul
<1> DEFINE K == {k \in Nat : k <= m0 => c[k] = s[k]}
<1> HIDE DEF c
<1>4. 0 \in K
  BY <1>2 DEF Sommes
<1>5. ASSUME NEW k \in Nat, k \in K PROVE k + 1 \in K
  <2> SUFFICES ASSUME k + 1 <= m0 PROVE c[k + 1] = s[k + 1]
    OBVIOUS
  <2>1. k + 1 \in 1 .. m0 /\ c[k] = s[k]
    BY <1>5
  <2>2. c[k + 1] = c[k] + f[k + 1]
    BY <1>2, <2>1
  <2> QED BY <2>1, <2>2 DEF Sommes
<1>6. Nat \subseteq K
  <2> HIDE DEF K
  <2> QED BY <1>4, <1>5, Recurrence
<1> QED BY <1>3, <1>6

(* The sum of m0 + 1 values is that of m0 and the last one.                  *)
LEMMA CumulOK ==
  ASSUME NEW f, NEW m0 \in Nat, \A k \in 1 .. m0 : f[k] \in Nat
  PROVE  /\ P!Cumul(f, m0) \in Nat /\ P!Cumul(f, 0) = 0
         /\ m0 > 0 => P!Cumul(f, m0) = P!Cumul(f, m0 - 1) + f[m0]
<1>1. PICK s : Sommes(f, m0, s)
  BY SommesExistent
<1>2. P!Cumul(f, m0) = s[m0] /\ s[m0] \in Nat
  BY <1>1, CumulSommes DEF Sommes
<1>3. Sommes(f, 0, [k \in 0 .. 0 |-> 0])
  BY DEF Sommes
<1>4. P!Cumul(f, 0) = 0
  BY <1>3, CumulSommes
<1>5. ASSUME m0 > 0 PROVE P!Cumul(f, m0) = P!Cumul(f, m0 - 1) + f[m0]
  <2>1. m0 - 1 \in Nat /\ m0 \in 1 .. m0 /\ \A k \in 1 .. m0 - 1 : f[k] \in Nat
    BY <1>5
  <2>2. PICK u : Sommes(f, m0 - 1, u)
    BY <2>1, SommesExistent
  <2>3. P!Cumul(f, m0 - 1) = u[m0 - 1]
    BY <2>1, <2>2, CumulSommes
  <2>4. s[m0 - 1] = u[m0 - 1]
    BY <1>1, <2>1, <2>2, SommesUniques
  <2> QED BY <1>1, <1>2, <2>1, <2>3, <2>4 DEF Sommes
<1> QED BY <1>2, <1>4, <1>5

(* Two tables that differ at j at most.                                    *)
LEMMA CumulChange ==
  ASSUME NEW f, NEW g, NEW m0 \in Nat, \A k \in 1 .. m0 : f[k] \in Nat /\ g[k] \in Nat,
         NEW j, \A k \in 1 .. m0 : k # j => f[k] = g[k]
  PROVE  P!Cumul(g, m0) = IF j \in 1 .. m0 THEN P!Cumul(f, m0) + g[j] - f[j] ELSE P!Cumul(f, m0)
<1> DEFINE K == {m \in Nat : m <= m0 => P!Cumul(g, m) = IF j \in 1 .. m THEN P!Cumul(f, m) + g[j] - f[j] ELSE P!Cumul(f, m)}
<1>1. 0 \in K
  BY CumulOK
<1>2. ASSUME NEW m \in Nat, m \in K PROVE m + 1 \in K
  <2> SUFFICES ASSUME m + 1 <= m0
               PROVE P!Cumul(g, m + 1) = IF j \in 1 .. m + 1 THEN P!Cumul(f, m + 1) + g[j] - f[j] ELSE P!Cumul(f, m + 1)
    OBVIOUS
  <2>1. P!Cumul(g, m) = IF j \in 1 .. m THEN P!Cumul(f, m) + g[j] - f[j] ELSE P!Cumul(f, m)
    BY <1>2
  <2>2. /\ m + 1 \in Nat /\ (m + 1) - 1 = m /\ m + 1 > 0
        /\ \A k \in 1 .. m + 1 : f[k] \in Nat /\ g[k] \in Nat
        /\ \A k \in 1 .. m : f[k] \in Nat /\ g[k] \in Nat
    OBVIOUS
  <2>3. P!Cumul(g, m + 1) = P!Cumul(g, m) + g[m + 1] /\ P!Cumul(g, m) \in Nat
    BY <2>2, CumulOK
  <2>4. P!Cumul(f, m + 1) = P!Cumul(f, m) + f[m + 1] /\ P!Cumul(f, m) \in Nat
    BY <2>2, CumulOK
  <2>5. f[m + 1] \in Nat /\ g[m + 1] \in Nat /\ (m + 1 # j => f[m + 1] = g[m + 1])
    OBVIOUS
  <2>6. CASE j = m + 1
    <3>1. j \notin 1 .. m
      BY <2>6
    <3> QED BY <2>1, <2>3, <2>4, <2>5, <2>6, <3>1
  <2>7. CASE j # m + 1
    <3>1. j \in 1 .. m + 1 <=> j \in 1 .. m
      BY <2>7
    <3>2. j \in 1 .. m => f[j] \in Nat /\ g[j] \in Nat
      OBVIOUS
    <3> HIDE DEF K
    <3> QED BY <2>1, <2>3, <2>4, <2>5, <2>7, <3>1, <3>2
  <2> QED BY <2>6, <2>7
<1>3. Nat \subseteq K
  <2> HIDE DEF K
  <2> QED BY <1>1, <1>2, Recurrence
<1> QED BY <1>3

(* The calls of the program that runs.                                     *)
L        == Len(prog.texte)
Lg(p)    == Len(prog.texte[p])
(* The name and the arguments of the k-th call of process p.             *)
Op(p, k) == prog.texte[p][k][1]
Ar(p, k) == prog.texte[p][k][2]
A3(p, k) == prog.texte[p][k][3]

(* A call names processes, signals, files and numbers that exist.        *)
AppelJuste(p, k) ==
    /\ Op(p, k) \in {"fork", "waitpid", "statut"} => Ar(p, k) \in 2 .. L
    /\ Op(p, k) = "kill" => Ar(p, k) \in 1 .. L /\ A3(p, k) \in P!Deux
    /\ Op(p, k) \in {"suspend", "pending"} => Ar(p, k) \subseteq P!Deux
    /\ Op(p, k) = "pose" => Ar(p, k) \in Nat
    /\ Op(p, k) = "lit" => Ar(p, k) \in Nat \ {0}
    /\ Op(p, k) \in {"write", "lseek", "semwait", "sempost"} => Ar(p, k) \in {1, 2}
    /\ Op(p, k) = "write" => A3(p, k) \in Nat

(* A program is well formed: its calls are, a process is forked by one   *)
(* call at most, and one that loops back does not fork.                  *)
Bien ==
    /\ L \in 1 .. MaxProcessus
    /\ prog.masque \subseteq P!Deux /\ prog.boite \in Seq(Nat)
    /\ \A p \in 1 .. L : Lg(p) \in Nat
    /\ \A p \in 1 .. L : \A k \in 1 .. Lg(p) : AppelJuste(p, k)
    /\ \A p, r \in 1 .. L : \A k \in 1 .. Lg(p), j \in 1 .. Lg(r) :
         Op(p, k) = "fork" /\ Op(r, j) = "fork" /\ Ar(p, k) = Ar(r, j) => p = r /\ k = j
    /\ \A p \in 1 .. L : \A k, j \in 1 .. Lg(p) : Op(p, k) = "retour" => Op(p, j) # "fork"

(* What an entry of trace may be: a display, or the handling of a        *)
(* signal.                                                               *)
Traces == P!Pids \X {"dit", "USR1", "USR2"} \X Nat

(* Those of TypeOK, and the ones that its proof needs.                   *)
Types ==
    /\ prog \in P!Programmes
    /\ etat \in [P!Pids -> {"absent", "vif", "zombie", "fini"}]
    /\ pere \in [P!Pids -> 0 .. MaxProcessus] /\ ip \in [P!Pids -> Nat \ {0}]
    /\ masque \in [P!Pids -> SUBSET P!Deux] /\ pendants \in [P!Pids -> SUBSET P!Deux]
    /\ val \in [P!Pids -> Nat] /\ sem \in [P!Pids -> Nat \X Nat]
    /\ pos \in Nat \X Nat /\ taille \in Nat /\ perdu \in BOOLEAN
    /\ boite \in Seq(Nat) /\ tampon \in [P!Pids -> Seq(Nat)] /\ trace \in Seq(Traces)

(* Where the processes are: ip against etat, and each father against the *)
(* call of fork that created the son.                                    *)
Places ==
    /\ \A p \in P!Pids : etat[p] # "absent" => p \in 1 .. L /\ ip[p] \in 1 .. Lg(p) + 1
    /\ \A p \in P!Pids : P!Termine(p) => ip[p] = Lg(p) + 1
    /\ \A p \in P!Pids : etat[p] = "absent" => ip[p] = 1 /\ pere[p] = 0
    /\ etat[1] # "absent" /\ pere[1] = 0
    /\ \A q \in P!Pids : pere[q] # 0 =>
          /\ pere[q] \in 1 .. L /\ etat[pere[q]] # "absent"
          /\ \E k \in 1 .. Lg(pere[q]) : k < ip[pere[q]] /\ Op(pere[q], k) = "fork" /\ Ar(pere[q], k) = q
    /\ \A q \in P!Pids : etat[q] # "absent" /\ q # 1 => pere[q] # 0
    /\ \A p \in 1 .. L : \A k \in 1 .. Lg(p) :
          Op(p, k) = "fork" /\ k >= ip[p] => etat[Ar(p, k)] = "absent"

(* A step of p at a call.                                                  *)
LEMMA AuPas ==
  ASSUME Bien, Types, Places, NEW p \in P!Pids, NEW c, P!A(p, c)
  PROVE  /\ p \in 1 .. L /\ etat[p] = "vif" /\ ip[p] \in 1 .. Lg(p) /\ Op(p, ip[p]) = c /\ P!Arg(p) = Ar(p, ip[p])
         /\ AppelJuste(p, ip[p]) /\ 1 .. L \subseteq P!Pids /\ Lg(p) \in Nat /\ Lg(p) = Len(P!Texte(p))
<1>1. p \in 1 .. L /\ ip[p] \in Nat \ {0} /\ ip[p] <= Lg(p) /\ L \in 1 .. MaxProcessus /\ MaxProcessus \in Nat
  BY MCProcessusAssumption DEF P!ProcessusAssumption, Bien, Types, Places, P!A, P!Texte, Lg
<1>2. ip[p] \in 1 .. Lg(p) /\ Lg(p) \in Nat
  BY <1>1 DEF Bien
<1>3. 1 .. L \subseteq P!Pids
  BY <1>1 DEF P!Pids
<1> QED BY <1>1, <1>2, <1>3 DEF Bien, P!A, P!Texte, P!Arg, Op, Ar, Lg

(* Steps that create, end and wait for nobody; p goes to its next call.  *)
Quiet == UNCHANGED <<prog, etat, pere>>
Monte(p) == ip' = [ip EXCEPT ![p] = ip[p] + 1]

(* The other steps move one process, which is at a call that is none of    *)
(* fork, wait and waitpid.                                                 *)
LEMMA QuietOK ==
  ASSUME Bien, Places, Types, NEW p \in P!Pids, etat[p] = "vif", UNCHANGED <<prog, etat, pere>>,
         \/ ip' = ip
         \/ ip[p] \in 1 .. Lg(p) /\ Monte(p) /\ Op(p, ip[p]) # "fork"
         \/ ip[p] \in 1 .. Lg(p) /\ ip' = [ip EXCEPT ![p] = 1] /\ Op(p, ip[p]) = "retour"
         \/ ip[p] \in 1 .. Lg(p) /\ ip' = [ip EXCEPT ![p] = Lg(p) + 1]
  PROVE  Places'
<1>0. L' = L /\ (\A r, k : Lg(r)' = Lg(r) /\ Op(r, k)' = Op(r, k) /\ Ar(r, k)' = Ar(r, k))
  BY DEF L, Lg, Op, Ar
<1>1. p \in 1 .. L /\ 1 .. L \subseteq P!Pids /\ \A r \in 1 .. L : Lg(r) \in Nat
  BY MCProcessusAssumption DEF P!ProcessusAssumption, Bien, Places, P!Pids
<1>2. \A r \in P!Pids : r # p => ip'[r] = ip[r]
  BY DEF Types, Monte
<1>a. ip[p] \in 1 .. Lg(p) + 1 /\ Lg(p) \in Nat
  BY <1>1 DEF Places
<1>b. \/ ip'[p] = ip[p]
      \/ ip[p] \in 1 .. Lg(p) /\ ip'[p] = ip[p] + 1 /\ Op(p, ip[p]) # "fork"
      \/ ip[p] \in 1 .. Lg(p) /\ ip'[p] = 1 /\ Op(p, ip[p]) = "retour"
      \/ ip[p] \in 1 .. Lg(p) /\ ip'[p] = Lg(p) + 1
  BY DEF Types, Monte
<1>3. ip'[p] \in 1 .. Lg(p) + 1
  BY <1>a, <1>b
<1>4. \A q \in P!Pids : pere[q] = p => ip'[p] >= ip[p]
  <2> SUFFICES ASSUME NEW q \in P!Pids, pere[q] = p PROVE ip'[p] >= ip[p]
    OBVIOUS
  <2>1. PICK k \in 1 .. Lg(p) : Op(p, k) = "fork"
    BY <1>1 DEF Places
  <2>2. ip[p] \in 1 .. Lg(p) => Op(p, ip[p]) # "retour"
    BY <2>1, <1>1 DEF Bien
  <2> QED BY <2>2, <1>a, <1>b
<1>5. \A k \in 1 .. Lg(p) : Op(p, k) = "fork" /\ k >= ip'[p] => k >= ip[p]
  <2> SUFFICES ASSUME NEW k \in 1 .. Lg(p), Op(p, k) = "fork", k >= ip'[p] PROVE k >= ip[p]
    OBVIOUS
  <2>2. ip[p] \in 1 .. Lg(p) => Op(p, ip[p]) # "retour"
    BY <1>1 DEF Bien
  <2> QED BY <2>2, <1>a, <1>b
<1>6. \A q \in P!Pids : pere[q] # 0 => ip'[pere[q]] >= ip[pere[q]] /\ ip[pere[q]] \in Nat /\ ip'[pere[q]] \in Nat
  <2> TAKE q \in P!Pids
  <2> HAVE pere[q] # 0
  <2>1. pere[q] \in P!Pids
    BY <1>1 DEF Places
  <2>2. ip[pere[q]] \in Nat
    BY <2>1 DEF Types
  <2>3. CASE pere[q] = p
    BY <2>3, <2>2, <1>3, <1>4, <1>a
  <2>4. CASE pere[q] # p
    BY <2>4, <2>1, <2>2, <1>2
  <2> QED BY <2>3, <2>4
<1> HIDE DEF P!Pids
<1>7. (\A r \in P!Pids : etat[r] # "absent" => r \in 1 .. L /\ ip[r] \in 1 .. Lg(r) + 1)'
  BY <1>0, <1>1, <1>2, <1>3 DEF Places
<1>8. (\A r \in P!Pids : P!Termine(r) => ip[r] = Lg(r) + 1)'
  BY <1>0, <1>1, <1>2, <1>3 DEF Places, P!Termine
<1>9. (\A r \in P!Pids : etat[r] = "absent" => ip[r] = 1 /\ pere[r] = 0)'
  BY <1>0, <1>1, <1>2, <1>3 DEF Places
<1>10. (\A q \in P!Pids : pere[q] # 0 =>
          /\ pere[q] \in 1 .. L /\ etat[pere[q]] # "absent"
          /\ \E k \in 1 .. Lg(pere[q]) : k < ip[pere[q]] /\ Op(pere[q], k) = "fork" /\ Ar(pere[q], k) = q)'
  <2> SUFFICES ASSUME NEW q \in P!Pids, pere[q] # 0
               PROVE /\ pere[q] \in 1 .. L /\ etat[pere[q]] # "absent"
                     /\ \E k \in 1 .. Lg(pere[q]) : k < ip'[pere[q]] /\ Op(pere[q], k) = "fork" /\ Ar(pere[q], k) = q
    BY <1>0
  <2>1. PICK k \in 1 .. Lg(pere[q]) : k < ip[pere[q]] /\ Op(pere[q], k) = "fork" /\ Ar(pere[q], k) = q
    BY DEF Places
  <2>2. pere[q] \in 1 .. L /\ etat[pere[q]] # "absent"
    BY DEF Places
  <2>3. k < ip'[pere[q]]
    BY <2>1, <2>2, <1>6, <1>1
  <2> QED BY <2>1, <2>2, <2>3
<1>11. (\A r \in 1 .. L : \A k \in 1 .. Lg(r) : Op(r, k) = "fork" /\ k >= ip[r] => etat[Ar(r, k)] = "absent")'
  BY <1>0, <1>1, <1>2, <1>5 DEF Places
<1> QED BY <1>7, <1>8, <1>9, <1>10, <1>11 DEF Places

(* What the step of p does to ip, etat and pere: a call that forks, waits  *)
(* or ends is treated apart.                                               *)
Calme(p) == P!KillP(p) \/ P!PendingP(p) \/ P!DitP(p) \/ P!ValeurP(p) \/ P!LitP(p) \/ P!RetourP(p)
            \/ P!EcritP(p) \/ P!SemP(p) \/ \E s \in P!Deux : P!Delivre(p, s)

(* Such a step moves p only: to its next call, back, or to its end.      *)
LEMMA CalmeOK ==
  ASSUME Bien, Places, Types, NEW p \in P!Pids, Calme(p)
  PROVE  /\ etat[p] = "vif" /\ UNCHANGED <<prog, etat, pere>>
         /\ \/ ip' = ip
            \/ ip[p] \in 1 .. Lg(p) /\ Monte(p) /\ Op(p, ip[p]) \notin {"fork", "wait", "waitpid", "statut"}
            \/ ip[p] \in 1 .. Lg(p) /\ ip' = [ip EXCEPT ![p] = 1] /\ Op(p, ip[p]) = "retour"
            \/ ip[p] \in 1 .. Lg(p) /\ ip' = [ip EXCEPT ![p] = Lg(p) + 1] /\ Op(p, ip[p]) = "lit"
<1> DEFINE Concl == /\ etat[p] = "vif" /\ UNCHANGED <<prog, etat, pere>>
                    /\ \/ ip' = ip
                       \/ /\ ip[p] \in 1 .. Lg(p) /\ Monte(p)
                          /\ Op(p, ip[p]) \notin {"fork", "wait", "waitpid", "statut"}
                       \/ ip[p] \in 1 .. Lg(p) /\ ip' = [ip EXCEPT ![p] = 1] /\ Op(p, ip[p]) = "retour"
                       \/ ip[p] \in 1 .. Lg(p) /\ ip' = [ip EXCEPT ![p] = Lg(p) + 1] /\ Op(p, ip[p]) = "lit"
<1>0. P!Suite(p) => Monte(p)
  BY DEF P!Suite, Monte
<1>1. ASSUME NEW c, P!A(p, c) PROVE etat[p] = "vif" /\ ip[p] \in 1 .. Lg(p) /\ Op(p, ip[p]) = c /\ Lg(p) = Len(P!Texte(p))
  BY <1>1, AuPas
<1>2. CASE P!KillP(p)
  BY <1>2, <1>0, <1>1 DEF P!KillP
<1>3. CASE P!PendingP(p)
  BY <1>3, <1>0, <1>1 DEF P!PendingP, P!svars
<1>4. CASE P!DitP(p)
  BY <1>4, <1>0, <1>1 DEF P!DitP
<1>5. CASE P!ValeurP(p)
  <2>1. P!A(p, "pose") \/ P!A(p, "alea") \/ P!A(p, "depose") \/ P!A(p, "retire") \/ P!A(p, "somme")
    BY <1>5 DEF P!ValeurP
  <2>2. P!Suite(p) /\ UNCHANGED <<prog, etat, pere>>
    BY <1>5 DEF P!ValeurP
  <2> QED BY <2>1, <2>2, <1>0, <1>1
<1>6. CASE P!LitP(p)
  <2>1. P!A(p, "lit") /\ UNCHANGED <<prog, etat, pere>>
    BY <1>6 DEF P!LitP
  <2>2. P!Suite(p) \/ UNCHANGED ip \/ ip' = [ip EXCEPT ![p] = Len(P!Texte(p)) + 1]
    BY <1>6 DEF P!LitP
  <2> QED BY <2>1, <2>2, <1>0, <1>1
<1>7. CASE P!RetourP(p)
  BY <1>7, <1>0, <1>1 DEF P!RetourP
<1>8. CASE P!EcritP(p)
  <2>1. P!A(p, "write") \/ P!A(p, "lseek")
    BY <1>8 DEF P!EcritP
  <2>2. P!Suite(p) /\ UNCHANGED <<prog, etat, pere>>
    BY <1>8 DEF P!EcritP
  <2> QED BY <2>1, <2>2, <1>0, <1>1
<1>9. CASE P!SemP(p)
  <2>1. P!A(p, "semwait") \/ P!A(p, "sempost")
    BY <1>9 DEF P!SemP
  <2>2. P!Suite(p) /\ UNCHANGED <<prog, etat, pere>>
    BY <1>9 DEF P!SemP
  <2> QED BY <2>1, <2>2, <1>0, <1>1
<1>10. ASSUME NEW s \in P!Deux, P!Delivre(p, s) PROVE Concl
  <2>1. etat[p] = "vif" /\ UNCHANGED <<prog, etat, pere>>
    BY <1>10 DEF P!Delivre
  <2>2. (P!A(p, "suspend") /\ P!Suite(p)) \/ UNCHANGED ip
    BY <1>10 DEF P!Delivre
  <2> QED BY <2>1, <2>2, <1>0, <1>1
<1> QED BY <1>2, <1>3, <1>4, <1>5, <1>6, <1>7, <1>8, <1>9, <1>10 DEF Calme

(* The other steps fork, end or wait.                                    *)
LEMMA PasCalme ==
  ASSUME NEW p, P!Pas(p)
  PROVE  P!ForkP(p) \/ P!Exit(p) \/ P!WaitP(p) \/ Calme(p)
BY DEF P!Pas, Calme

(* fork creates a process that was absent, and puts its father.          *)
LEMMA ForkPlaces ==
  ASSUME Bien, Places, Types, NEW p \in P!Pids, P!ForkP(p)
  PROVE  /\ Places'
         /\ P!Arg(p) \in P!Pids /\ P!Arg(p) # p /\ etat[P!Arg(p)] = "absent" /\ UNCHANGED prog
<1> DEFINE q == P!Arg(p)
<1>0. L' = L /\ (\A r, k : Lg(r)' = Lg(r) /\ Op(r, k)' = Op(r, k) /\ Ar(r, k)' = Ar(r, k)) /\ prog' = prog
  BY DEF P!ForkP, L, Lg, Op, Ar
<1>1. /\ p \in 1 .. L /\ etat[p] = "vif" /\ ip[p] \in 1 .. Lg(p) /\ Op(p, ip[p]) = "fork" /\ q = Ar(p, ip[p])
      /\ q \in 2 .. L /\ 1 .. L \subseteq P!Pids /\ \A r \in 1 .. L : Lg(r) \in Nat
  BY AuPas DEF P!ForkP, AppelJuste, Bien
<1>2. etat[q] = "absent" /\ q # p /\ q # 1 /\ q \in P!Pids /\ pere[q] = 0 /\ ip[q] = 1
  BY <1>1 DEF Places
<1>3. /\ etat' = [etat EXCEPT ![q] = "vif"] /\ pere' = [pere EXCEPT ![q] = p] /\ ip' = [ip EXCEPT ![p] = ip[p] + 1]
  BY DEF P!ForkP, P!Suite
<1> HIDE DEF q, P!Pids
<1>4. /\ etat'[q] = "vif" /\ pere'[q] = p /\ ip'[p] = ip[p] + 1
      /\ \A r \in P!Pids : r # q => etat'[r] = etat[r] /\ pere'[r] = pere[r]
      /\ \A r \in P!Pids : r # p => ip'[r] = ip[r]
  BY <1>1, <1>2, <1>3 DEF Types
<1>5. \A r \in P!Pids : ip'[r] >= ip[r] /\ ip[r] \in Nat /\ ip'[r] \in Nat
  <2> TAKE r \in P!Pids
  <2>1. ip[r] \in Nat
    BY DEF Types
  <2> QED BY <2>1, <1>4, <1>1
<1>6. \A r \in 1 .. L : \A k \in 1 .. Lg(r) : Op(r, k) = "fork" /\ k >= ip'[r] => Ar(r, k) # q
  <2> SUFFICES ASSUME NEW r \in 1 .. L, NEW k \in 1 .. Lg(r), Op(r, k) = "fork", k >= ip'[r], Ar(r, k) = q PROVE FALSE
    OBVIOUS
  <2>1. r = p /\ k = ip[p]
    BY <1>1 DEF Bien
  <2> QED BY <2>1, <1>4, <1>1
<1>7. (\A r \in P!Pids : etat[r] # "absent" => r \in 1 .. L /\ ip[r] \in 1 .. Lg(r) + 1)'
  <2> SUFFICES ASSUME NEW r \in P!Pids, etat'[r] # "absent" PROVE r \in 1 .. L /\ ip'[r] \in 1 .. Lg(r) + 1
    BY <1>0
  <2>1. CASE r = q
    BY <2>1, <1>1, <1>2, <1>4
  <2>2. CASE r = p
    BY <2>2, <1>1, <1>4
  <2>3. CASE r # p /\ r # q
    BY <2>3, <1>4 DEF Places
  <2> QED BY <2>1, <2>2, <2>3
<1>8. (\A r \in P!Pids : P!Termine(r) => ip[r] = Lg(r) + 1)'
  <2> SUFFICES ASSUME NEW r \in P!Pids, P!Termine(r)' PROVE ip'[r] = Lg(r) + 1
    BY <1>0
  <2>1. r # q /\ r # p
    BY <1>1, <1>4, <1>2 DEF P!Termine
  <2> QED BY <2>1, <1>4 DEF Places, P!Termine
<1>9. (\A r \in P!Pids : etat[r] = "absent" => ip[r] = 1 /\ pere[r] = 0)'
  BY <1>1, <1>2, <1>4 DEF Places
<1>10. (etat[1] # "absent" /\ pere[1] = 0)'
  <2>1. 1 \in 1 .. L
    BY DEF Bien
  <2> QED BY <2>1, <1>1, <1>2, <1>4 DEF Places
<1>11. (\A r \in P!Pids : pere[r] # 0 =>
          /\ pere[r] \in 1 .. L /\ etat[pere[r]] # "absent"
          /\ \E k \in 1 .. Lg(pere[r]) : k < ip[pere[r]] /\ Op(pere[r], k) = "fork" /\ Ar(pere[r], k) = r)'
  <2> SUFFICES ASSUME NEW r \in P!Pids, pere'[r] # 0
               PROVE /\ pere'[r] \in 1 .. L /\ etat'[pere'[r]] # "absent"
                     /\ \E k \in 1 .. Lg(pere'[r]) : k < ip'[pere'[r]] /\ Op(pere'[r], k) = "fork" /\ Ar(pere'[r], k) = r
    BY <1>0
  <2>1. CASE r = q
    BY <2>1, <1>1, <1>2, <1>4
  <2>2. CASE r # q
    <3>1. pere'[r] = pere[r] /\ pere[r] \in 1 .. L /\ etat[pere[r]] # "absent" /\ pere[r] \in P!Pids
      BY <2>2, <1>4, <1>1 DEF Places
    <3>2. PICK k \in 1 .. Lg(pere[r]) : k < ip[pere[r]] /\ Op(pere[r], k) = "fork" /\ Ar(pere[r], k) = r
      BY <2>2, <1>4 DEF Places
    <3>3. k < ip'[pere[r]] /\ etat'[pere[r]] # "absent"
      BY <3>1, <3>2, <1>4, <1>5, <1>1
    <3> QED BY <3>1, <3>2, <3>3
  <2> QED BY <2>1, <2>2
<1>12. (\A r \in P!Pids : etat[r] # "absent" /\ r # 1 => pere[r] # 0)'
  BY <1>1, <1>4 DEF Places
<1>13. (\A r \in 1 .. L : \A k \in 1 .. Lg(r) : Op(r, k) = "fork" /\ k >= ip[r] => etat[Ar(r, k)] = "absent")'
  <2> SUFFICES ASSUME NEW r \in 1 .. L, NEW k \in 1 .. Lg(r), Op(r, k) = "fork", k >= ip'[r]
               PROVE etat'[Ar(r, k)] = "absent"
    BY <1>0
  <2>1. Ar(r, k) \in P!Pids /\ Ar(r, k) # q
    BY <1>6, <1>1 DEF Bien, AppelJuste
  <2>2. k >= ip[r]
    BY <1>5, <1>1
  <2> QED BY <2>1, <2>2, <1>4 DEF Places
<1>14. Places'
  BY <1>7, <1>8, <1>9, <1>10, <1>11, <1>12, <1>13 DEF Places
<1> QED BY <1>14, <1>2, <1>0 DEF q

(* exit makes a zombie, or an ended process when nobody waits; wait and  *)
(* the end of the father end the zombies.                                *)
LEMMA FiniPlaces ==
  ASSUME Bien, Places, Types, NEW p \in P!Pids, P!Exit(p) \/ P!WaitP(p)
  PROVE  /\ Places' /\ UNCHANGED <<prog, pere>>
         /\ \A q \in P!Pids : \/ etat'[q] = etat[q]
                              \/ etat[q] = "zombie" /\ etat'[q] = "fini"
                              \/ q = p /\ P!Exit(p) /\ etat'[q] \in {"zombie", "fini"}
<1>0. /\ L' = L /\ (\A r, k : Lg(r)' = Lg(r) /\ Op(r, k)' = Op(r, k) /\ Ar(r, k)' = Ar(r, k))
      /\ UNCHANGED <<prog, pere>> /\ etat[p] = "vif"
  BY DEF P!Exit, P!WaitP, L, Lg, Op, Ar, P!A
<1>1. /\ p \in 1 .. L /\ 1 .. L \subseteq P!Pids /\ \A r \in 1 .. L : Lg(r) \in Nat
  BY <1>0, MCProcessusAssumption DEF P!ProcessusAssumption, Bien, Places, P!Pids
<1>2. \/ P!Exit(p) /\ ip' = ip /\ ip[p] = Lg(p) + 1
      \/ P!WaitP(p) /\ ip' = [ip EXCEPT ![p] = ip[p] + 1] /\ ip[p] \in 1 .. Lg(p) /\ Op(p, ip[p]) # "fork"
  <2>1. CASE P!Exit(p)
    <3>1. ip[p] \in 1 .. Lg(p) + 1 /\ Lg(p) \in Nat
      BY <1>0, <1>1 DEF Places
    <3>2. ip[p] > Lg(p) /\ ip' = ip
      BY <2>1 DEF P!Exit, P!Texte, Lg
    <3> QED BY <2>1, <3>1, <3>2
  <2>2. CASE P!WaitP(p)
    <3>1. P!A(p, "wait") \/ P!A(p, "waitpid") \/ P!A(p, "statut")
      BY <2>2 DEF P!WaitP
    <3>2. ip[p] \in 1 .. Lg(p) /\ Op(p, ip[p]) # "fork"
      BY <3>1, AuPas
    <3> QED BY <3>2, <2>2 DEF P!WaitP, P!Suite
  <2> QED BY <2>1, <2>2
<1>3. /\ \A q \in P!Pids : \/ etat'[q] = etat[q]
                           \/ etat[q] = "zombie" /\ etat'[q] = "fini"
                           \/ q = p /\ P!Exit(p) /\ etat'[q] \in {"zombie", "fini"}
      /\ etat' \in [P!Pids -> {"absent", "vif", "zombie", "fini"}]
  <2>1. CASE P!Exit(p)
    BY <2>1 DEF P!Exit, Types
  <2>2. CASE P!WaitP(p)
    <3>1. CASE P!A(p, "wait")
      <4>1. UNCHANGED etat \/ \E q \in P!Fils(p) : etat[q] = "zombie" /\ etat' = [etat EXCEPT ![q] = "fini"]
        BY <2>2, <3>1 DEF P!WaitP, P!A
      <4> QED BY <4>1 DEF P!Fils, Types
    <3>2. CASE P!A(p, "waitpid") \/ P!A(p, "statut")
      <4>1. etat[P!Arg(p)] = "zombie" /\ etat' = [etat EXCEPT ![P!Arg(p)] = "fini"]
        BY <2>2, <3>2 DEF P!WaitP, P!A
      <4> QED BY <4>1 DEF Types
    <3> QED BY <2>2, <3>1, <3>2 DEF P!WaitP
  <2> QED BY <2>1, <2>2
<1>4. \A r \in P!Pids : etat'[r] = "absent" <=> etat[r] = "absent"
  BY <1>3, <1>0
<1>5. \A r \in P!Pids : ip'[r] >= ip[r] /\ ip[r] \in Nat /\ ip'[r] \in Nat /\ (r # p => ip'[r] = ip[r])
  BY <1>2, SMTT(30) DEF Types
<1>6. ip'[p] \in 1 .. Lg(p) + 1 /\ (P!Exit(p) /\ ip' = ip => ip'[p] = Lg(p) + 1)
  BY <1>1, <1>2, SMTT(30) DEF Types
<1> HIDE DEF P!Pids
<1>7. (\A r \in P!Pids : etat[r] # "absent" => r \in 1 .. L /\ ip[r] \in 1 .. Lg(r) + 1)'
  BY <1>0, <1>1, <1>4, <1>5, <1>6 DEF Places
<1>8. (\A r \in P!Pids : P!Termine(r) => ip[r] = Lg(r) + 1)'
  <2> SUFFICES ASSUME NEW r \in P!Pids, P!Termine(r)' PROVE ip'[r] = Lg(r) + 1
    BY <1>0
  <2>1. CASE r = p
    <3>1. etat'[p] # "vif"
      BY <2>1 DEF P!Termine
    <3>2. P!Exit(p)
      BY <3>1, <1>3, <1>0, <1>1
    <3>3. ip' = ip
      BY <3>2 DEF P!Exit
    <3> QED BY <2>1, <3>2, <3>3, <1>6
  <2>2. CASE r # p
    BY <2>2, <1>3, <1>5 DEF P!Termine, Places
  <2> QED BY <2>1, <2>2
<1>9. (\A r \in P!Pids : etat[r] = "absent" => ip[r] = 1 /\ pere[r] = 0)'
  BY <1>0, <1>4, <1>5, <1>1 DEF Places
<1>10. (etat[1] # "absent" /\ pere[1] = 0)'
  <2>1. 1 \in 1 .. L
    BY DEF Bien
  <2> QED BY <2>1, <1>0, <1>4, <1>1 DEF Places
<1>11. (\A r \in P!Pids : pere[r] # 0 =>
          /\ pere[r] \in 1 .. L /\ etat[pere[r]] # "absent"
          /\ \E k \in 1 .. Lg(pere[r]) : k < ip[pere[r]] /\ Op(pere[r], k) = "fork" /\ Ar(pere[r], k) = r)'
  <2> SUFFICES ASSUME NEW r \in P!Pids, pere[r] # 0
               PROVE /\ pere[r] \in 1 .. L /\ etat'[pere[r]] # "absent"
                     /\ \E k \in 1 .. Lg(pere[r]) : k < ip'[pere[r]] /\ Op(pere[r], k) = "fork" /\ Ar(pere[r], k) = r
    BY <1>0
  <2>1. pere[r] \in 1 .. L /\ etat[pere[r]] # "absent" /\ pere[r] \in P!Pids
    BY <1>1 DEF Places
  <2>2. PICK k \in 1 .. Lg(pere[r]) : k < ip[pere[r]] /\ Op(pere[r], k) = "fork" /\ Ar(pere[r], k) = r
    BY DEF Places
  <2>3. k < ip'[pere[r]] /\ etat'[pere[r]] # "absent"
    BY <2>1, <2>2, <1>4, <1>5, <1>1
  <2> QED BY <2>1, <2>2, <2>3
<1>12. (\A r \in P!Pids : etat[r] # "absent" /\ r # 1 => pere[r] # 0)'
  BY <1>0, <1>4 DEF Places
<1>13. (\A r \in 1 .. L : \A k \in 1 .. Lg(r) : Op(r, k) = "fork" /\ k >= ip[r] => etat[Ar(r, k)] = "absent")'
  <2> SUFFICES ASSUME NEW r \in 1 .. L, NEW k \in 1 .. Lg(r), Op(r, k) = "fork", k >= ip'[r]
               PROVE etat'[Ar(r, k)] = "absent"
    BY <1>0
  <2>1. Ar(r, k) \in P!Pids
    BY <1>1 DEF Bien, AppelJuste
  <2>2. k >= ip[r]
    BY <1>5, <1>1
  <2> QED BY <2>1, <2>2, <1>4 DEF Places
<1>14. Places'
  BY <1>7, <1>8, <1>9, <1>10, <1>11, <1>12, <1>13 DEF Places
<1> QED BY <1>14, <1>0, <1>3

(* The least and the greatest of two naturals.                           *)
LEMMA MinOK == \A a, b \in Nat : /\ P!Min({a, b}) \in {a, b} /\ P!Min({a, b}) <= a /\ P!Min({a, b}) <= b
                                 /\ P!Max({a, b}) \in {a, b} /\ P!Max({a, b}) >= a /\ P!Max({a, b}) >= b
<1> SUFFICES ASSUME NEW a \in Nat, NEW b \in Nat
             PROVE  /\ P!Min({a, b}) \in {a, b} /\ P!Min({a, b}) <= a /\ P!Min({a, b}) <= b
                    /\ P!Max({a, b}) \in {a, b} /\ P!Max({a, b}) >= a /\ P!Max({a, b}) >= b
  OBVIOUS
<1>1. \E x \in {a, b} : \A y \in {a, b} : x <= y
  <2>1. CASE a <= b
    BY <2>1
  <2>2. CASE b <= a
    BY <2>2
  <2> QED BY <2>1, <2>2
<1>2. \E x \in {a, b} : \A y \in {a, b} : x >= y
  <2>1. CASE a <= b
    BY <2>1
  <2>2. CASE b <= a
    BY <2>2
  <2> QED BY <2>1, <2>2
<1>3. P!Min({a, b}) \in {a, b} /\ \A y \in {a, b} : P!Min({a, b}) <= y
  BY <1>1 DEF P!Min
<1>4. P!Max({a, b}) \in {a, b} /\ \A y \in {a, b} : P!Max({a, b}) >= y
  BY <1>2 DEF P!Max
<1> QED BY <1>3, <1>4

(* The first state is well typed: only the first process exists.         *)
LEMMA TypesInit == Bien /\ P!Init => Types
<1> SUFFICES ASSUME Bien, P!Init PROVE Types
  OBVIOUS
<1>1. MaxProcessus \in Nat
  BY MCProcessusAssumption DEF P!ProcessusAssumption
<1> USE <1>1 DEF P!Init
<1>2. /\ prog \in P!Programmes /\ etat \in [P!Pids -> {"absent", "vif", "zombie", "fini"}]
      /\ pere \in [P!Pids -> 0 .. MaxProcessus] /\ ip \in [P!Pids -> Nat \ {0}]
  OBVIOUS
<1>3. masque \in [P!Pids -> SUBSET P!Deux] /\ pendants \in [P!Pids -> SUBSET P!Deux] /\ boite \in Seq(Nat)
  BY DEF Bien
<1>4. /\ val \in [P!Pids -> Nat] /\ sem \in [P!Pids -> Nat \X Nat]
      /\ pos \in Nat \X Nat /\ taille \in Nat /\ perdu \in BOOLEAN
  OBVIOUS
<1>5. tampon \in [P!Pids -> Seq(Nat)] /\ trace \in Seq(Traces)
  OBVIOUS
<1> QED BY <1>2, <1>3, <1>4, <1>5 DEF Types

(* The first state has the first process at its first call, without      *)
(* father.                                                               *)
LEMMA PlacesInit == Bien /\ P!Init => Places
<1> SUFFICES ASSUME Bien, P!Init PROVE Places
  OBVIOUS
<1>1. 1 \in 1 .. L /\ 1 .. L \subseteq P!Pids /\ \A r \in 1 .. L : Lg(r) \in Nat
  BY MCProcessusAssumption DEF P!ProcessusAssumption, Bien, P!Pids
<1>2. \A p \in P!Pids : (etat[p] = "absent" <=> p # 1) /\ etat[p] \in {"absent", "vif"} /\ ip[p] = 1 /\ pere[p] = 0
  BY DEF P!Init
<1> HIDE DEF P!Pids
<1>3. \A p \in P!Pids : etat[p] # "absent" => p \in 1 .. L /\ ip[p] \in 1 .. Lg(p) + 1
  BY <1>1, <1>2
<1>4. \A p \in 1 .. L : \A k \in 1 .. Lg(p) : Op(p, k) = "fork" /\ k >= ip[p] => etat[Ar(p, k)] = "absent"
  <2> SUFFICES ASSUME NEW p \in 1 .. L, NEW k \in 1 .. Lg(p), Op(p, k) = "fork" PROVE etat[Ar(p, k)] = "absent"
    OBVIOUS
  <2>1. Ar(p, k) \in 2 .. L
    BY DEF Bien, AppelJuste
  <2> QED BY <2>1, <1>1, <1>2
<1> QED BY <1>1, <1>2, <1>3, <1>4 DEF Places, P!Termine

(* Who is in the arguments of the calls.                                   *)
LEMMA TypesFork ==
  ASSUME Bien, Types, Places, NEW p \in P!Pids, P!ForkP(p)
  PROVE  Types'
<1>1. P!Arg(p) \in P!Pids
  BY ForkPlaces
<1> HIDE DEF P!Pids
<1>2. p \in 0 .. MaxProcessus
  BY MCProcessusAssumption DEF P!ProcessusAssumption, P!Pids
<1>3. etat' \in [P!Pids -> {"absent", "vif", "zombie", "fini"}] /\ pere' \in [P!Pids -> 0 .. MaxProcessus]
  BY <1>1, <1>2 DEF P!ForkP, Types
<1>4. ip' \in [P!Pids -> Nat \ {0}]
  BY DEF P!ForkP, P!Suite, Types
<1>5. masque' \in [P!Pids -> SUBSET P!Deux] /\ sem' \in [P!Pids -> Nat \X Nat]
  BY <1>1 DEF P!ForkP, Types
<1> QED BY <1>3, <1>4, <1>5 DEF P!ForkP, Types

(* exit and wait keep the types; waitpid takes the value of a process.   *)
LEMMA TypesFini ==
  ASSUME Bien, Types, Places, NEW p \in P!Pids, P!Exit(p) \/ P!WaitP(p)
  PROVE  Types'
<1>1. CASE P!Exit(p)
  <2>1. etat' \in [P!Pids -> {"absent", "vif", "zombie", "fini"}]
    BY <1>1 DEF P!Exit, Types
  <2> QED BY <1>1, <2>1 DEF P!Exit, Types, P!svars, P!dvars
<1>2. CASE P!WaitP(p)
  <2>1. etat' \in [P!Pids -> {"absent", "vif", "zombie", "fini"}]
    BY <1>2 DEF P!WaitP, Types
  <2>2. val' \in [P!Pids -> Nat]
    <3>1. CASE P!A(p, "statut")
      <4>1. P!Arg(p) \in P!Pids
        BY <3>1, AuPas DEF AppelJuste
      <4> QED BY <4>1, <1>2 DEF P!WaitP, Types
    <3>2. CASE ~P!A(p, "statut")
      BY <3>2, <1>2 DEF P!WaitP, Types
    <3> QED BY <3>1, <3>2
  <2>3. ip' \in [P!Pids -> Nat \ {0}]
    BY <1>2 DEF P!WaitP, P!Suite, Types
  <2> QED BY <1>2, <2>1, <2>2, <2>3 DEF P!WaitP, Types, P!svars, P!dvars
<1> QED BY <1>1, <1>2

(* An entry added to trace keeps its type.                               *)
LEMMA TraceSuite ==
  ASSUME Types, NEW p \in P!Pids, NEW o \in {"dit", "USR1", "USR2"}, NEW v \in Nat
  PROVE  Append(trace, <<p, o, v>>) \in Seq(Traces)
<1>1. <<p, o, v>> \in Traces
  BY DEF Traces
<1> QED BY <1>1 DEF Types

(* The other steps keep the types; what somme adds up is a natural.      *)
LEMMA TypesCalme ==
  ASSUME Bien, Types, Places, NEW p \in P!Pids, Calme(p),
         P!Cumul(boite, Len(boite)) \in Nat
  PROVE  Types'
<1>0. UNCHANGED <<prog, etat, pere>> /\ ip' \in [P!Pids -> Nat \ {0}]
  <2>1. p \in 1 .. L /\ Lg(p) \in Nat
    BY CalmeOK DEF Bien, Places
  <2>2. ip[p] + 1 \in Nat \ {0} /\ Lg(p) + 1 \in Nat \ {0}
    BY <2>1, SMTT(30) DEF Types
  <2>3. UNCHANGED <<prog, etat, pere>> /\ (ip' = ip \/ Monte(p) \/ ip' = [ip EXCEPT ![p] = 1] \/ ip' = [ip EXCEPT ![p] = Lg(p) + 1])
    BY CalmeOK
  <2>4. ip \in [P!Pids -> Nat \ {0}]
    BY DEF Types
  <2>5. CASE ip' = ip
    BY <2>3, <2>4, <2>5
  <2>6. CASE Monte(p)
    BY <2>2, <2>3, <2>4, <2>6 DEF Monte
  <2>7. CASE ip' = [ip EXCEPT ![p] = 1] \/ ip' = [ip EXCEPT ![p] = Lg(p) + 1]
    BY <2>2, <2>3, <2>4, <2>7
  <2> QED BY <2>3, <2>5, <2>6, <2>7
<1>1. ASSUME NEW c, P!A(p, c)
      PROVE  /\ Op(p, ip[p]) = c /\ P!Arg(p) = Ar(p, ip[p]) /\ AppelJuste(p, ip[p]) /\ 1 .. L \subseteq P!Pids
             /\ A3(p, ip[p]) = P!Texte(p)[ip[p]][3]
  BY <1>1, AuPas DEF A3, P!Texte
<1> HIDE DEF P!Pids
<1>2. CASE P!KillP(p)
  <2>1. P!Texte(p)[ip[p]][3] \in P!Deux /\ P!Arg(p) \in P!Pids
    BY <1>1, <1>2 DEF P!KillP, AppelJuste
  <2> QED BY <1>0, <1>2, <2>1 DEF P!KillP, Types, P!dvars
<1>3. CASE P!PendingP(p)
  BY <1>0, <1>3 DEF P!PendingP, Types, P!svars, P!dvars
<1>4. CASE P!DitP(p)
  <2>1. trace' \in Seq(Traces)
    <3>1. trace' = Append(trace, <<p, "dit", val[p]>>) /\ val[p] \in Nat
      BY <1>4 DEF P!DitP, Types
    <3> QED BY <3>1, TraceSuite
  <2> QED BY <1>0, <1>4, <2>1 DEF P!DitP, Types, P!svars, P!dvars
<1>5. CASE P!ValeurP(p)
  <2>1. val' \in [P!Pids -> Nat] /\ boite' \in Seq(Nat)
    <3>1. CASE P!A(p, "pose") /\ val' = [val EXCEPT ![p] = P!Arg(p)] /\ UNCHANGED boite
      BY <3>1, <1>1 DEF AppelJuste, Types
    <3>2. CASE P!A(p, "alea") /\ (\E v \in Valeurs : val' = [val EXCEPT ![p] = v]) /\ UNCHANGED boite
      <4>1. \A v \in Valeurs : v \in Nat
        BY MCProcessusAssumption DEF P!ProcessusAssumption
      <4> QED BY <3>2, <4>1 DEF Types
    <3>3. CASE P!A(p, "depose") /\ boite' = Append(boite, val[p]) /\ UNCHANGED val
      <4>1. val[p] \in Nat
        BY DEF Types
      <4> QED BY <3>3, <4>1 DEF Types
    <3>4. CASE P!A(p, "retire") /\ boite # <<>> /\ boite' = Tail(boite) /\ val' = [val EXCEPT ![p] = @ + Head(boite)]
      <4>1. Head(boite) \in Nat /\ Tail(boite) \in Seq(Nat)
        BY <3>4, HeadTailProperties DEF Types
      <4>2. val[p] + Head(boite) \in Nat
        BY <4>1, SMTT(30) DEF Types
      <4> QED BY <3>4, <4>1, <4>2 DEF Types
    <3>5. CASE P!A(p, "somme") /\ val' = [val EXCEPT ![p] = @ + P!Cumul(boite, Len(boite))] /\ UNCHANGED boite
      <4>2. val[p] + P!Cumul(boite, Len(boite)) \in Nat
        BY SMTT(30) DEF Types
      <4> QED BY <3>5, <4>2 DEF Types
    <3> QED BY <1>5, <3>1, <3>2, <3>3, <3>4, <3>5 DEF P!ValeurP
  <2> QED BY <1>0, <1>5, <2>1 DEF P!ValeurP, Types, P!svars
<1>6. CASE P!LitP(p)
  <2>1. val' \in [P!Pids -> Nat] /\ tampon' \in [P!Pids -> Seq(Nat)] /\ pos' \in Nat \X Nat
    <3>0. tampon[p] \in Seq(Nat) /\ Longueur \in Nat /\ pos[1] \in Nat
      BY MCProcessusAssumption DEF P!ProcessusAssumption, Types
    <3>1. CASE /\ tampon[p] # <<>> /\ val' = [val EXCEPT ![p] = Head(tampon[p])]
               /\ tampon' = [tampon EXCEPT ![p] = Tail(@)] /\ UNCHANGED pos
      <4>1. Head(tampon[p]) \in Nat /\ Tail(tampon[p]) \in Seq(Nat)
        BY <3>1, <3>0, HeadTailProperties
      <4> QED BY <3>1, <4>1 DEF Types
    <3>2. CASE /\ tampon[p] = <<>> /\ pos[1] < Longueur /\ UNCHANGED val
               /\ LET d == P!Min({P!Arg(p), Longueur - pos[1]})
                  IN  /\ tampon' = [tampon EXCEPT ![p] = [k \in 1 .. d |-> pos[1] + k]]
                      /\ pos' = [pos EXCEPT ![1] = @ + d]
      <4> DEFINE d == P!Min({P!Arg(p), Longueur - pos[1]})
      <4>1. P!Arg(p) \in Nat
        BY <1>1, <1>6 DEF P!LitP, AppelJuste
      <4>2. Longueur - pos[1] \in Nat
        BY <3>0, <3>2
      <4>3. d \in Nat
        BY <4>1, <4>2, MinOK
      <4>4. tampon' = [tampon EXCEPT ![p] = [k \in 1 .. d |-> pos[1] + k]] /\ pos' = [pos EXCEPT ![1] = @ + d]
        BY <3>2
      <4> HIDE DEF d
      <4>5. [k \in 1 .. d |-> pos[1] + k] \in [1 .. d -> Nat]
        BY <3>0, <4>3
      <4>6. [k \in 1 .. d |-> pos[1] + k] \in Seq(Nat)
        BY <4>3, <4>5, SeqDef
      <4>7. tampon' \in [P!Pids -> Seq(Nat)]
        BY <4>4, <4>6 DEF Types
      <4>8. pos' \in Nat \X Nat
        <5>1. pos \in Nat \X Nat
          BY DEF Types
        <5> QED BY <5>1, <4>4, <4>3
      <4> QED BY <4>7, <4>8, <3>2 DEF Types
    <3>3. CASE UNCHANGED <<val, tampon, pos>>
      BY <3>3 DEF Types
    <3> QED BY <1>6, <3>1, <3>2, <3>3 DEF P!LitP
  <2> QED BY <1>0, <1>6, <2>1 DEF P!LitP, Types, P!svars
<1>7. CASE P!RetourP(p)
  BY <1>0, <1>7 DEF P!RetourP, Types, P!svars, P!dvars
<1>8. CASE P!EcritP(p)
  <2>1. pos' \in Nat \X Nat /\ taille' \in Nat
    <3>1. CASE /\ P!A(p, "write") /\ pos' = [pos EXCEPT ![P!Arg(p)] = @ + P!Texte(p)[ip[p]][3]]
               /\ taille' = P!Max({taille, pos'[P!Arg(p)]})
      <4>1. P!Arg(p) \in {1, 2} /\ P!Texte(p)[ip[p]][3] \in Nat
        BY <1>1, <3>1 DEF AppelJuste
      <4>2. pos' \in Nat \X Nat
        <5>1. pos \in Nat \X Nat
          BY DEF Types
        <5> QED BY <5>1, <4>1, <3>1
      <4>3. pos'[P!Arg(p)] \in Nat /\ taille \in Nat
        BY <4>1, <4>2 DEF Types
      <4> QED BY <4>2, <4>3, <3>1, MinOK
    <3>2. CASE P!A(p, "lseek") /\ pos' = [pos EXCEPT ![P!Arg(p)] = 0] /\ UNCHANGED taille
      <4>1. P!Arg(p) \in {1, 2}
        BY <1>1, <3>2 DEF AppelJuste
      <4>2. pos \in Nat \X Nat /\ taille \in Nat
        BY DEF Types
      <4> QED BY <4>1, <4>2, <3>2
    <3> QED BY <1>8, <3>1, <3>2 DEF P!EcritP
  <2> QED BY <1>0, <1>8, <2>1 DEF P!EcritP, Types, P!svars
<1>9. CASE P!SemP(p)
  <2>1. sem' \in [P!Pids -> Nat \X Nat]
    <3>1. P!Arg(p) \in {1, 2}
      BY <1>9, <1>1 DEF P!SemP, AppelJuste
    <3>2. CASE sem[p][P!Arg(p)] > 0 /\ sem' = [sem EXCEPT ![p][P!Arg(p)] = @ - 1]
      <4>1. sem[p] \in Nat \X Nat
        BY DEF Types
      <4>2. [sem[p] EXCEPT ![P!Arg(p)] = @ - 1] \in Nat \X Nat
        BY <3>1, <3>2, <4>1
      <4> QED BY <3>2, <4>2 DEF Types
    <3>3. CASE sem' = [sem EXCEPT ![p][P!Arg(p)] = @ + 1]
      <4>1. sem[p] \in Nat \X Nat
        BY DEF Types
      <4>2. [sem[p] EXCEPT ![P!Arg(p)] = @ + 1] \in Nat \X Nat
        BY <3>1, <4>1
      <4> QED BY <3>3, <4>2 DEF Types
    <3> QED BY <1>9, <3>2, <3>3 DEF P!SemP
  <2> QED BY <1>0, <1>9, <2>1 DEF P!SemP, Types, P!svars
<1>10. ASSUME NEW s \in P!Deux, P!Delivre(p, s) PROVE Types'
  <2>1. trace' \in Seq(Traces)
    <3>1. trace' = Append(trace, <<p, s, 0>>) /\ s \in {"dit", "USR1", "USR2"}
      BY <1>10 DEF P!Delivre, P!Deux
    <3> QED BY <3>1, TraceSuite
  <2>2. perdu' \in BOOLEAN
    BY <1>10 DEF P!Delivre, Types
  <2> QED BY <1>0, <1>10, <2>1, <2>2 DEF P!Delivre, Types, P!dvars
<1> QED BY <1>2, <1>3, <1>4, <1>5, <1>6, <1>7, <1>8, <1>9, <1>10 DEF Calme

(* The tables of calls of the programs of a fixed number of processes.     *)
USE DEF P!P, P!Fork, P!Kill, P!Suspend, P!Pending, P!Wait, P!Waitpid, P!Statut, P!Dit, P!Pose, P!Alea,
        P!Depose, P!Retire, P!Somme, P!Lit, P!Retour, P!Ecrit, P!Lseek, P!SemWait, P!SemPost

LEMMA Table_ex3 ==
  ASSUME prog = P!ex3
  PROVE
  /\ L = 5 /\ prog.masque = P!Deux /\ prog.boite = <<>> /\ prog.nom = "ex3"
  /\ Lg(1) = 4 /\ Op(1, 1) = "fork" /\ Ar(1, 1) = 2 /\ Op(1, 2) = "fork" /\ Ar(1, 2) = 3
  /\ Op(1, 3) = "suspend" /\ Ar(1, 3) = {"USR2"} /\ Op(1, 4) = "dit"
  /\ Lg(2) = 5 /\ Op(2, 1) = "fork" /\ Ar(2, 1) = 4 /\ Op(2, 2) = "suspend" /\ Ar(2, 2) = {"USR1"}
  /\ Op(2, 3) = "suspend" /\ Ar(2, 3) = {"USR1", "USR2"} /\ Op(2, 4) = "dit"
  /\ Op(2, 5) = "kill" /\ Ar(2, 5) = 1 /\ A3(2, 5) = "USR2"
  /\ Lg(3) = 4 /\ Op(3, 1) = "fork" /\ Ar(3, 1) = 5 /\ Op(3, 2) = "suspend" /\ Ar(3, 2) = {"USR1"}
  /\ Op(3, 3) = "dit" /\ Op(3, 4) = "kill" /\ Ar(3, 4) = 2 /\ A3(3, 4) = "USR2"
  /\ Lg(4) = 2 /\ Op(4, 1) = "dit" /\ Op(4, 2) = "kill" /\ Ar(4, 2) = 2 /\ A3(4, 2) = "USR1"
  /\ Lg(5) = 2 /\ Op(5, 1) = "dit" /\ Op(5, 2) = "kill" /\ Ar(5, 2) = 3 /\ A3(5, 2) = "USR1"
BY DEF P!ex3, P!Deux, L, Lg, Op, Ar, A3

LEMMA Table_ex3c ==
  ASSUME prog = P!ex3c
  PROVE
  /\ L = 5 /\ prog.masque = P!Deux /\ prog.boite = <<>> /\ prog.nom = "ex3c"
  /\ Lg(1) = 3 /\ Op(1, 1) = "fork" /\ Ar(1, 1) = 2 /\ Op(1, 2) = "fork" /\ Ar(1, 2) = 3
  /\ Op(1, 3) = "suspend" /\ Ar(1, 3) = {"USR2"}
  /\ Lg(2) = 5 /\ Op(2, 1) = "fork" /\ Ar(2, 1) = 4 /\ Op(2, 2) = "dit"
  /\ Op(2, 3) = "suspend" /\ Ar(2, 3) = {"USR1"}
  /\ Op(2, 4) = "suspend" /\ Ar(2, 4) = {"USR1", "USR2"}
  /\ Op(2, 5) = "kill" /\ Ar(2, 5) = 1 /\ A3(2, 5) = "USR2"
  /\ Lg(3) = 4 /\ Op(3, 1) = "fork" /\ Ar(3, 1) = 5 /\ Op(3, 2) = "dit"
  /\ Op(3, 3) = "suspend" /\ Ar(3, 3) = {"USR1"}
  /\ Op(3, 4) = "kill" /\ Ar(3, 4) = 2 /\ A3(3, 4) = "USR2"
  /\ Lg(4) = 2 /\ Op(4, 1) = "dit" /\ Op(4, 2) = "kill" /\ Ar(4, 2) = 2 /\ A3(4, 2) = "USR1"
  /\ Lg(5) = 2 /\ Op(5, 1) = "dit" /\ Op(5, 2) = "kill" /\ Ar(5, 2) = 3 /\ A3(5, 2) = "USR1"
BY DEF P!ex3c, P!Deux, L, Lg, Op, Ar, A3

LEMMA Table_mauvaise_methode ==
  ASSUME prog = P!mauvaise_methode
  PROVE
  /\ L = 5 /\ prog.masque = P!Deux /\ prog.boite = <<>> /\ prog.nom = "mauvaise"
  /\ Lg(1) = 4 /\ Op(1, 1) = "fork" /\ Ar(1, 1) = 2 /\ Op(1, 2) = "fork" /\ Ar(1, 2) = 3
  /\ Op(1, 3) = "pending" /\ Ar(1, 3) = {"USR1", "USR2"} /\ Op(1, 4) = "dit"
  /\ Lg(2) = 4 /\ Op(2, 1) = "fork" /\ Ar(2, 1) = 4
  /\ Op(2, 2) = "pending" /\ Ar(2, 2) = {"USR1", "USR2"} /\ Op(2, 3) = "dit"
  /\ Op(2, 4) = "kill" /\ Ar(2, 4) = 1 /\ A3(2, 4) = "USR1"
  /\ Lg(3) = 5 /\ Op(3, 1) = "fork" /\ Ar(3, 1) = 5 /\ Op(3, 2) = "pending" /\ Ar(3, 2) = {"USR1"}
  /\ Op(3, 3) = "dit" /\ Op(3, 4) = "kill" /\ Ar(3, 4) = 2 /\ A3(3, 4) = "USR2"
  /\ Op(3, 5) = "kill" /\ Ar(3, 5) = 1 /\ A3(3, 5) = "USR2"
  /\ Lg(4) = 2 /\ Op(4, 1) = "dit" /\ Op(4, 2) = "kill" /\ Ar(4, 2) = 2 /\ A3(4, 2) = "USR1"
  /\ Lg(5) = 2 /\ Op(5, 1) = "dit" /\ Op(5, 2) = "kill" /\ Ar(5, 2) = 3 /\ A3(5, 2) = "USR1"
BY DEF P!mauvaise_methode, P!Deux, L, Lg, Op, Ar, A3

LEMMA Table_p2_p1_p3 ==
  ASSUME prog = P!p2_p1_p3
  PROVE
  /\ L = 3 /\ prog.masque = {} /\ prog.boite = <<>> /\ prog.nom = "p2"
  /\ Lg(1) = 5 /\ Op(1, 1) = "fork" /\ Ar(1, 1) = 2
  /\ Op(1, 2) = "suspend" /\ Ar(1, 2) = {"USR1", "USR2"}
  /\ Op(1, 3) = "suspend" /\ Ar(1, 3) = {"USR1", "USR2"} /\ Op(1, 4) = "dit" /\ Op(1, 5) = "wait"
  /\ Lg(2) = 3 /\ Op(2, 1) = "fork" /\ Ar(2, 1) = 3 /\ Op(2, 2) = "wait"
  /\ Op(2, 3) = "kill" /\ Ar(2, 3) = 1 /\ A3(2, 3) = "USR2"
  /\ Lg(3) = 1 /\ Op(3, 1) = "kill" /\ Ar(3, 1) = 1 /\ A3(3, 1) = "USR1"
BY DEF P!p2_p1_p3, P!Deux, L, Lg, Op, Ar, A3

LEMMA Table_taille_fic ==
  ASSUME prog = P!taille_fic
  PROVE
  /\ L = 2 /\ prog.masque = {} /\ prog.boite = <<>> /\ prog.nom = "taille"
  /\ Lg(1) = 8 /\ Op(1, 1) = "write" /\ Ar(1, 1) = 1 /\ A3(1, 1) = 5
  /\ Op(1, 2) = "fork" /\ Ar(1, 2) = 2 /\ Op(1, 3) = "suspend" /\ Ar(1, 3) = {"USR1"}
  /\ Op(1, 4) = "lseek" /\ Ar(1, 4) = 1 /\ Op(1, 5) = "write" /\ Ar(1, 5) = 1 /\ A3(1, 5) = 2
  /\ Op(1, 6) = "write" /\ Ar(1, 6) = 1 /\ A3(1, 6) = 2
  /\ Op(1, 7) = "kill" /\ Ar(1, 7) = 2 /\ A3(1, 7) = "USR1" /\ Op(1, 8) = "wait"
  /\ Lg(2) = 4 /\ Op(2, 1) = "write" /\ Ar(2, 1) = 1 /\ A3(2, 1) = 3
  /\ Op(2, 2) = "kill" /\ Ar(2, 2) = 1 /\ A3(2, 2) = "USR1"
  /\ Op(2, 3) = "suspend" /\ Ar(2, 3) = {"USR1"}
  /\ Op(2, 4) = "write" /\ Ar(2, 4) = 2 /\ A3(2, 4) = 2
BY DEF P!taille_fic, P!Deux, L, Lg, Op, Ar, A3

LEMMA Table_ex2 ==
  ASSUME prog \in {P!ex2, P!fils1_fils2}
  PROVE
  /\ L = 5 /\ prog.masque = {} /\ prog.boite = <<>>
  /\ Lg(1) = 6 /\ Op(1, 1) = "fork" /\ Ar(1, 1) = 2 /\ Op(1, 2) = "fork" /\ Ar(1, 2) = 3
  /\ Op(1, 3) = "waitpid" /\ Ar(1, 3) = 2 /\ Op(1, 4) = "dit" /\ Op(1, 5) = "waitpid" /\ Ar(1, 5) = 3
  /\ Op(1, 6) = "dit"
  /\ Lg(2) = 4 /\ Op(2, 1) = "dit" /\ Op(2, 2) = "fork" /\ Ar(2, 2) = 4 /\ Op(2, 3) = "wait"
  /\ Op(2, 4) = "dit"
  /\ Lg(3) = 4 /\ Op(3, 1) = "dit" /\ Op(3, 2) = "fork" /\ Ar(3, 2) = 5 /\ Op(3, 3) = "wait"
  /\ Op(3, 4) = "dit"
  /\ Lg(4) = 1 /\ Op(4, 1) = "dit"
  /\ Lg(5) = 1 /\ Op(5, 1) = "dit"
<1>1. CASE prog = P!ex2
  BY <1>1 DEF P!ex2, P!Deux, L, Lg, Op, Ar, A3
<1>2. CASE prog = P!fils1_fils2
  BY <1>2 DEF P!fils1_fils2, P!ex2, P!Deux, L, Lg, Op, Ar, A3
<1> QED BY <1>1, <1>2

LEMMA Table_ex2c ==
  ASSUME prog = P!ex2c
  PROVE
  /\ L = 5 /\ prog.masque = {} /\ prog.boite = <<>> /\ prog.nom = "ex2c"
  /\ Lg(1) = 4 /\ Op(1, 1) = "fork" /\ Ar(1, 1) = 2 /\ Op(1, 2) = "fork" /\ Ar(1, 2) = 3
  /\ Op(1, 3) = "wait" /\ Op(1, 4) = "wait"
  /\ Lg(2) = 3 /\ Op(2, 1) = "fork" /\ Ar(2, 1) = 4 /\ Op(2, 2) = "dit" /\ Op(2, 3) = "wait"
  /\ Lg(3) = 3 /\ Op(3, 1) = "fork" /\ Ar(3, 1) = 5 /\ Op(3, 2) = "dit" /\ Op(3, 3) = "wait"
  /\ Lg(4) = 1 /\ Op(4, 1) = "dit"
  /\ Lg(5) = 1 /\ Op(5, 1) = "dit"
BY DEF P!ex2c, P!Deux, L, Lg, Op, Ar, A3

LEMMA Table_posix ==
  ASSUME prog = P!posix
  PROVE
  /\ L = 4 /\ prog.masque = {} /\ prog.boite = <<>> /\ prog.nom = "posix"
  /\ Lg(1) = 3 /\ Op(1, 1) = "fork" /\ Ar(1, 1) = 2 /\ Op(1, 2) = "fork" /\ Ar(1, 2) = 3
  /\ Op(1, 3) = "fork" /\ Ar(1, 3) = 4
  /\ Lg(2) = 3 /\ Op(2, 1) = "lit" /\ Ar(2, 1) = 1 /\ Op(2, 2) = "dit" /\ Op(2, 3) = "retour"
  /\ Lg(3) = 3 /\ Op(3, 1) = "lit" /\ Ar(3, 1) = 1 /\ Op(3, 2) = "dit" /\ Op(3, 3) = "retour"
  /\ Lg(4) = 3 /\ Op(4, 1) = "lit" /\ Ar(4, 1) = 1 /\ Op(4, 2) = "dit" /\ Op(4, 3) = "retour"
BY DEF P!posix, P!Deux, L, Lg, Op, Ar, A3

LEMMA Table_libc ==
  ASSUME prog = P!libc
  PROVE
  /\ L = 4 /\ prog.masque = {} /\ prog.boite = <<>> /\ prog.nom = "libc"
  /\ Lg(1) = 3 /\ Op(1, 1) = "fork" /\ Ar(1, 1) = 2 /\ Op(1, 2) = "fork" /\ Ar(1, 2) = 3
  /\ Op(1, 3) = "fork" /\ Ar(1, 3) = 4
  /\ Lg(2) = 3 /\ Op(2, 1) = "lit" /\ Ar(2, 1) = 9 /\ Op(2, 2) = "dit" /\ Op(2, 3) = "retour"
  /\ Lg(3) = 3 /\ Op(3, 1) = "lit" /\ Ar(3, 1) = 9 /\ Op(3, 2) = "dit" /\ Op(3, 3) = "retour"
  /\ Lg(4) = 3 /\ Op(4, 1) = "lit" /\ Ar(4, 1) = 9 /\ Op(4, 2) = "dit" /\ Op(4, 3) = "retour"
BY DEF P!libc, P!Deux, L, Lg, Op, Ar, A3

LEMMA Table_sem_anonymes ==
  ASSUME prog = P!sem_anonymes
  PROVE
  /\ L = 3 /\ prog.masque = {} /\ prog.boite = <<>> /\ prog.nom = "sem"
  /\ Lg(1) = 4 /\ Op(1, 1) = "fork" /\ Ar(1, 1) = 2 /\ Op(1, 2) = "dit"
  /\ Op(1, 3) = "sempost" /\ Ar(1, 3) = 1 /\ Op(1, 4) = "wait"
  /\ Lg(2) = 5 /\ Op(2, 1) = "fork" /\ Ar(2, 1) = 3 /\ Op(2, 2) = "semwait" /\ Ar(2, 2) = 1
  /\ Op(2, 3) = "dit" /\ Op(2, 4) = "sempost" /\ Ar(2, 4) = 2 /\ Op(2, 5) = "wait"
  /\ Lg(3) = 3 /\ Op(3, 1) = "semwait" /\ Ar(3, 1) = 2 /\ Op(3, 2) = "dit" /\ Op(3, 3) = "wait"
BY DEF P!sem_anonymes, P!Deux, L, Lg, Op, Ar, A3

LEMMA Bien_ex3 ==
  ASSUME prog = P!ex3
  PROVE  Bien
<1>1. \A p \in 1 .. L : p = 1 \/ p = 2 \/ p = 3 \/ p = 4 \/ p = 5
  BY Table_ex3
<1>2. \A p \in 1 .. L : Lg(p) \in 0 .. 5
  BY <1>1, Table_ex3
<1>3. \A p \in 1 .. L : \A k \in 1 .. Lg(p) : k = 1 \/ k = 2 \/ k = 3 \/ k = 4 \/ k = 5
  BY <1>2
<1>4. ASSUME NEW p \in 1 .. L, NEW k \in 1 .. Lg(p), Op(p, k) = "fork"
      PROVE  <<p, k, Ar(p, k)>> \in {<<1, 1, 2>>, <<1, 2, 3>>, <<2, 1, 4>>, <<3, 1, 5>>}
  BY <1>1, <1>2, <1>3, <1>4, Table_ex3
<1>5. ASSUME NEW p \in 1 .. L, NEW k \in 1 .. Lg(p) PROVE AppelJuste(p, k)
  BY <1>1, <1>2, <1>3, Table_ex3 DEF AppelJuste, P!Deux
<1>6. ASSUME NEW p \in 1 .. L, NEW k \in 1 .. Lg(p), NEW j \in 1 .. Lg(p), Op(p, k) = "retour"
      PROVE  Op(p, j) # "fork"
  BY <1>1, <1>2, <1>3, <1>6, Table_ex3
<1>7. L \in 1 .. MaxProcessus
  BY Table_ex3, MCProcessusAssumption DEF P!ProcessusAssumption
<1>8. prog.masque \subseteq P!Deux
  BY Table_ex3
<1>9. prog.boite \in Seq(Nat)
  BY Table_ex3, EmptySeq
<1>10. ASSUME NEW p \in 1 .. L, NEW r \in 1 .. L, NEW k \in 1 .. Lg(p), NEW j \in 1 .. Lg(r),
              Op(p, k) = "fork", Op(r, j) = "fork", Ar(p, k) = Ar(r, j)
       PROVE  p = r /\ k = j
  BY <1>4, <1>10
<1>11. \A p \in 1 .. L : Lg(p) \in Nat
  BY <1>2
<1> QED BY <1>11, <1>5, <1>6, <1>7, <1>8, <1>9, <1>10 DEF Bien

LEMMA Bien_ex3c ==
  ASSUME prog = P!ex3c
  PROVE  Bien
<1>1. \A p \in 1 .. L : p = 1 \/ p = 2 \/ p = 3 \/ p = 4 \/ p = 5
  BY Table_ex3c
<1>2. \A p \in 1 .. L : Lg(p) \in 0 .. 5
  BY <1>1, Table_ex3c
<1>3. \A p \in 1 .. L : \A k \in 1 .. Lg(p) : k = 1 \/ k = 2 \/ k = 3 \/ k = 4 \/ k = 5
  BY <1>2
<1>4. ASSUME NEW p \in 1 .. L, NEW k \in 1 .. Lg(p), Op(p, k) = "fork"
      PROVE  <<p, k, Ar(p, k)>> \in {<<1, 1, 2>>, <<1, 2, 3>>, <<2, 1, 4>>, <<3, 1, 5>>}
  BY <1>1, <1>2, <1>3, <1>4, Table_ex3c
<1>5. ASSUME NEW p \in 1 .. L, NEW k \in 1 .. Lg(p) PROVE AppelJuste(p, k)
  BY <1>1, <1>2, <1>3, Table_ex3c DEF AppelJuste, P!Deux
<1>6. ASSUME NEW p \in 1 .. L, NEW k \in 1 .. Lg(p), NEW j \in 1 .. Lg(p), Op(p, k) = "retour"
      PROVE  Op(p, j) # "fork"
  BY <1>1, <1>2, <1>3, <1>6, Table_ex3c
<1>7. L \in 1 .. MaxProcessus
  BY Table_ex3c, MCProcessusAssumption DEF P!ProcessusAssumption
<1>8. prog.masque \subseteq P!Deux
  BY Table_ex3c
<1>9. prog.boite \in Seq(Nat)
  BY Table_ex3c, EmptySeq
<1>10. ASSUME NEW p \in 1 .. L, NEW r \in 1 .. L, NEW k \in 1 .. Lg(p), NEW j \in 1 .. Lg(r),
              Op(p, k) = "fork", Op(r, j) = "fork", Ar(p, k) = Ar(r, j)
       PROVE  p = r /\ k = j
  BY <1>4, <1>10
<1>11. \A p \in 1 .. L : Lg(p) \in Nat
  BY <1>2
<1> QED BY <1>11, <1>5, <1>6, <1>7, <1>8, <1>9, <1>10 DEF Bien

LEMMA Bien_mauvaise_methode ==
  ASSUME prog = P!mauvaise_methode
  PROVE  Bien
<1>1. \A p \in 1 .. L : p = 1 \/ p = 2 \/ p = 3 \/ p = 4 \/ p = 5
  BY Table_mauvaise_methode
<1>2. \A p \in 1 .. L : Lg(p) \in 0 .. 5
  BY <1>1, Table_mauvaise_methode
<1>3. \A p \in 1 .. L : \A k \in 1 .. Lg(p) : k = 1 \/ k = 2 \/ k = 3 \/ k = 4 \/ k = 5
  BY <1>2
<1>4. ASSUME NEW p \in 1 .. L, NEW k \in 1 .. Lg(p), Op(p, k) = "fork"
      PROVE  <<p, k, Ar(p, k)>> \in {<<1, 1, 2>>, <<1, 2, 3>>, <<2, 1, 4>>, <<3, 1, 5>>}
  BY <1>1, <1>2, <1>3, <1>4, Table_mauvaise_methode
<1>5. ASSUME NEW p \in 1 .. L, NEW k \in 1 .. Lg(p) PROVE AppelJuste(p, k)
  BY <1>1, <1>2, <1>3, Table_mauvaise_methode DEF AppelJuste, P!Deux
<1>6. ASSUME NEW p \in 1 .. L, NEW k \in 1 .. Lg(p), NEW j \in 1 .. Lg(p), Op(p, k) = "retour"
      PROVE  Op(p, j) # "fork"
  BY <1>1, <1>2, <1>3, <1>6, Table_mauvaise_methode
<1>7. L \in 1 .. MaxProcessus
  BY Table_mauvaise_methode, MCProcessusAssumption DEF P!ProcessusAssumption
<1>8. prog.masque \subseteq P!Deux
  BY Table_mauvaise_methode
<1>9. prog.boite \in Seq(Nat)
  BY Table_mauvaise_methode, EmptySeq
<1>10. ASSUME NEW p \in 1 .. L, NEW r \in 1 .. L, NEW k \in 1 .. Lg(p), NEW j \in 1 .. Lg(r),
              Op(p, k) = "fork", Op(r, j) = "fork", Ar(p, k) = Ar(r, j)
       PROVE  p = r /\ k = j
  BY <1>4, <1>10
<1>11. \A p \in 1 .. L : Lg(p) \in Nat
  BY <1>2
<1> QED BY <1>11, <1>5, <1>6, <1>7, <1>8, <1>9, <1>10 DEF Bien

LEMMA Bien_p2_p1_p3 ==
  ASSUME prog = P!p2_p1_p3
  PROVE  Bien
<1>1. \A p \in 1 .. L : p = 1 \/ p = 2 \/ p = 3
  BY Table_p2_p1_p3
<1>2. \A p \in 1 .. L : Lg(p) \in 0 .. 5
  BY <1>1, Table_p2_p1_p3
<1>3. \A p \in 1 .. L : \A k \in 1 .. Lg(p) : k = 1 \/ k = 2 \/ k = 3 \/ k = 4 \/ k = 5
  BY <1>2
<1>4. ASSUME NEW p \in 1 .. L, NEW k \in 1 .. Lg(p), Op(p, k) = "fork"
      PROVE  <<p, k, Ar(p, k)>> \in {<<1, 1, 2>>, <<2, 1, 3>>}
  BY <1>1, <1>2, <1>3, <1>4, Table_p2_p1_p3
<1>5. ASSUME NEW p \in 1 .. L, NEW k \in 1 .. Lg(p) PROVE AppelJuste(p, k)
  BY <1>1, <1>2, <1>3, Table_p2_p1_p3 DEF AppelJuste, P!Deux
<1>6. ASSUME NEW p \in 1 .. L, NEW k \in 1 .. Lg(p), NEW j \in 1 .. Lg(p), Op(p, k) = "retour"
      PROVE  Op(p, j) # "fork"
  BY <1>1, <1>2, <1>3, <1>6, Table_p2_p1_p3
<1>7. L \in 1 .. MaxProcessus
  BY Table_p2_p1_p3, MCProcessusAssumption DEF P!ProcessusAssumption
<1>8. prog.masque \subseteq P!Deux
  BY Table_p2_p1_p3
<1>9. prog.boite \in Seq(Nat)
  BY Table_p2_p1_p3, EmptySeq
<1>10. ASSUME NEW p \in 1 .. L, NEW r \in 1 .. L, NEW k \in 1 .. Lg(p), NEW j \in 1 .. Lg(r),
              Op(p, k) = "fork", Op(r, j) = "fork", Ar(p, k) = Ar(r, j)
       PROVE  p = r /\ k = j
  BY <1>4, <1>10
<1>11. \A p \in 1 .. L : Lg(p) \in Nat
  BY <1>2
<1> QED BY <1>11, <1>5, <1>6, <1>7, <1>8, <1>9, <1>10 DEF Bien

LEMMA Bien_taille_fic ==
  ASSUME prog = P!taille_fic
  PROVE  Bien
<1>1. \A p \in 1 .. L : p = 1 \/ p = 2
  BY Table_taille_fic
<1>2. \A p \in 1 .. L : Lg(p) \in 0 .. 8
  BY <1>1, Table_taille_fic
<1>3. \A p \in 1 .. L : \A k \in 1 .. Lg(p) : k = 1 \/ k = 2 \/ k = 3 \/ k = 4 \/ k = 5 \/ k = 6 \/ k = 7 \/ k = 8
  BY <1>2
<1>4. ASSUME NEW p \in 1 .. L, NEW k \in 1 .. Lg(p), Op(p, k) = "fork"
      PROVE  <<p, k, Ar(p, k)>> \in {<<1, 2, 2>>}
  BY <1>1, <1>2, <1>3, <1>4, Table_taille_fic
<1>5. ASSUME NEW p \in 1 .. L, NEW k \in 1 .. Lg(p) PROVE AppelJuste(p, k)
  BY <1>1, <1>2, <1>3, Table_taille_fic DEF AppelJuste, P!Deux
<1>6. ASSUME NEW p \in 1 .. L, NEW k \in 1 .. Lg(p), NEW j \in 1 .. Lg(p), Op(p, k) = "retour"
      PROVE  Op(p, j) # "fork"
  BY <1>1, <1>2, <1>3, <1>6, Table_taille_fic
<1>7. L \in 1 .. MaxProcessus
  BY Table_taille_fic, MCProcessusAssumption DEF P!ProcessusAssumption
<1>8. prog.masque \subseteq P!Deux
  BY Table_taille_fic
<1>9. prog.boite \in Seq(Nat)
  BY Table_taille_fic, EmptySeq
<1>10. ASSUME NEW p \in 1 .. L, NEW r \in 1 .. L, NEW k \in 1 .. Lg(p), NEW j \in 1 .. Lg(r),
              Op(p, k) = "fork", Op(r, j) = "fork", Ar(p, k) = Ar(r, j)
       PROVE  p = r /\ k = j
  BY <1>4, <1>10
<1>11. \A p \in 1 .. L : Lg(p) \in Nat
  BY <1>2
<1> QED BY <1>11, <1>5, <1>6, <1>7, <1>8, <1>9, <1>10 DEF Bien

LEMMA Bien_ex2 ==
  ASSUME prog \in {P!ex2, P!fils1_fils2}
  PROVE  Bien
<1>1. \A p \in 1 .. L : p = 1 \/ p = 2 \/ p = 3 \/ p = 4 \/ p = 5
  BY Table_ex2
<1>2. \A p \in 1 .. L : Lg(p) \in 0 .. 6
  BY <1>1, Table_ex2
<1>3. \A p \in 1 .. L : \A k \in 1 .. Lg(p) : k = 1 \/ k = 2 \/ k = 3 \/ k = 4 \/ k = 5 \/ k = 6
  BY <1>2
<1>4. ASSUME NEW p \in 1 .. L, NEW k \in 1 .. Lg(p), Op(p, k) = "fork"
      PROVE  <<p, k, Ar(p, k)>> \in {<<1, 1, 2>>, <<1, 2, 3>>, <<2, 2, 4>>, <<3, 2, 5>>}
  BY <1>1, <1>2, <1>3, <1>4, Table_ex2
<1>5. ASSUME NEW p \in 1 .. L, NEW k \in 1 .. Lg(p) PROVE AppelJuste(p, k)
  BY <1>1, <1>2, <1>3, Table_ex2 DEF AppelJuste, P!Deux
<1>6. ASSUME NEW p \in 1 .. L, NEW k \in 1 .. Lg(p), NEW j \in 1 .. Lg(p), Op(p, k) = "retour"
      PROVE  Op(p, j) # "fork"
  BY <1>1, <1>2, <1>3, <1>6, Table_ex2
<1>7. L \in 1 .. MaxProcessus
  BY Table_ex2, MCProcessusAssumption DEF P!ProcessusAssumption
<1>8. prog.masque \subseteq P!Deux
  BY Table_ex2
<1>9. prog.boite \in Seq(Nat)
  BY Table_ex2, EmptySeq
<1>10. ASSUME NEW p \in 1 .. L, NEW r \in 1 .. L, NEW k \in 1 .. Lg(p), NEW j \in 1 .. Lg(r),
              Op(p, k) = "fork", Op(r, j) = "fork", Ar(p, k) = Ar(r, j)
       PROVE  p = r /\ k = j
  BY <1>4, <1>10
<1>11. \A p \in 1 .. L : Lg(p) \in Nat
  BY <1>2
<1> QED BY <1>11, <1>5, <1>6, <1>7, <1>8, <1>9, <1>10 DEF Bien

LEMMA Bien_ex2c ==
  ASSUME prog = P!ex2c
  PROVE  Bien
<1>1. \A p \in 1 .. L : p = 1 \/ p = 2 \/ p = 3 \/ p = 4 \/ p = 5
  BY Table_ex2c
<1>2. \A p \in 1 .. L : Lg(p) \in 0 .. 4
  BY <1>1, Table_ex2c
<1>3. \A p \in 1 .. L : \A k \in 1 .. Lg(p) : k = 1 \/ k = 2 \/ k = 3 \/ k = 4
  BY <1>2
<1>4. ASSUME NEW p \in 1 .. L, NEW k \in 1 .. Lg(p), Op(p, k) = "fork"
      PROVE  <<p, k, Ar(p, k)>> \in {<<1, 1, 2>>, <<1, 2, 3>>, <<2, 1, 4>>, <<3, 1, 5>>}
  BY <1>1, <1>2, <1>3, <1>4, Table_ex2c
<1>5. ASSUME NEW p \in 1 .. L, NEW k \in 1 .. Lg(p) PROVE AppelJuste(p, k)
  BY <1>1, <1>2, <1>3, Table_ex2c DEF AppelJuste, P!Deux
<1>6. ASSUME NEW p \in 1 .. L, NEW k \in 1 .. Lg(p), NEW j \in 1 .. Lg(p), Op(p, k) = "retour"
      PROVE  Op(p, j) # "fork"
  BY <1>1, <1>2, <1>3, <1>6, Table_ex2c
<1>7. L \in 1 .. MaxProcessus
  BY Table_ex2c, MCProcessusAssumption DEF P!ProcessusAssumption
<1>8. prog.masque \subseteq P!Deux
  BY Table_ex2c
<1>9. prog.boite \in Seq(Nat)
  BY Table_ex2c, EmptySeq
<1>10. ASSUME NEW p \in 1 .. L, NEW r \in 1 .. L, NEW k \in 1 .. Lg(p), NEW j \in 1 .. Lg(r),
              Op(p, k) = "fork", Op(r, j) = "fork", Ar(p, k) = Ar(r, j)
       PROVE  p = r /\ k = j
  BY <1>4, <1>10
<1>11. \A p \in 1 .. L : Lg(p) \in Nat
  BY <1>2
<1> QED BY <1>11, <1>5, <1>6, <1>7, <1>8, <1>9, <1>10 DEF Bien

LEMMA Bien_posix ==
  ASSUME prog = P!posix
  PROVE  Bien
<1>1. \A p \in 1 .. L : p = 1 \/ p = 2 \/ p = 3 \/ p = 4
  BY Table_posix
<1>2. \A p \in 1 .. L : Lg(p) \in 0 .. 3
  BY <1>1, Table_posix
<1>3. \A p \in 1 .. L : \A k \in 1 .. Lg(p) : k = 1 \/ k = 2 \/ k = 3
  BY <1>2
<1>4. ASSUME NEW p \in 1 .. L, NEW k \in 1 .. Lg(p), Op(p, k) = "fork"
      PROVE  <<p, k, Ar(p, k)>> \in {<<1, 1, 2>>, <<1, 2, 3>>, <<1, 3, 4>>}
  BY <1>1, <1>2, <1>3, <1>4, Table_posix
<1>5. ASSUME NEW p \in 1 .. L, NEW k \in 1 .. Lg(p) PROVE AppelJuste(p, k)
  BY <1>1, <1>2, <1>3, Table_posix DEF AppelJuste, P!Deux
<1>6. ASSUME NEW p \in 1 .. L, NEW k \in 1 .. Lg(p), NEW j \in 1 .. Lg(p), Op(p, k) = "retour"
      PROVE  Op(p, j) # "fork"
  BY <1>1, <1>2, <1>3, <1>6, Table_posix
<1>7. L \in 1 .. MaxProcessus
  BY Table_posix, MCProcessusAssumption DEF P!ProcessusAssumption
<1>8. prog.masque \subseteq P!Deux
  BY Table_posix
<1>9. prog.boite \in Seq(Nat)
  BY Table_posix, EmptySeq
<1>10. ASSUME NEW p \in 1 .. L, NEW r \in 1 .. L, NEW k \in 1 .. Lg(p), NEW j \in 1 .. Lg(r),
              Op(p, k) = "fork", Op(r, j) = "fork", Ar(p, k) = Ar(r, j)
       PROVE  p = r /\ k = j
  BY <1>4, <1>10
<1>11. \A p \in 1 .. L : Lg(p) \in Nat
  BY <1>2
<1> QED BY <1>11, <1>5, <1>6, <1>7, <1>8, <1>9, <1>10 DEF Bien

LEMMA Bien_libc ==
  ASSUME prog = P!libc
  PROVE  Bien
<1>1. \A p \in 1 .. L : p = 1 \/ p = 2 \/ p = 3 \/ p = 4
  BY Table_libc
<1>2. \A p \in 1 .. L : Lg(p) \in 0 .. 3
  BY <1>1, Table_libc
<1>3. \A p \in 1 .. L : \A k \in 1 .. Lg(p) : k = 1 \/ k = 2 \/ k = 3
  BY <1>2
<1>4. ASSUME NEW p \in 1 .. L, NEW k \in 1 .. Lg(p), Op(p, k) = "fork"
      PROVE  <<p, k, Ar(p, k)>> \in {<<1, 1, 2>>, <<1, 2, 3>>, <<1, 3, 4>>}
  BY <1>1, <1>2, <1>3, <1>4, Table_libc
<1>5. ASSUME NEW p \in 1 .. L, NEW k \in 1 .. Lg(p) PROVE AppelJuste(p, k)
  BY <1>1, <1>2, <1>3, Table_libc DEF AppelJuste, P!Deux
<1>6. ASSUME NEW p \in 1 .. L, NEW k \in 1 .. Lg(p), NEW j \in 1 .. Lg(p), Op(p, k) = "retour"
      PROVE  Op(p, j) # "fork"
  BY <1>1, <1>2, <1>3, <1>6, Table_libc
<1>7. L \in 1 .. MaxProcessus
  BY Table_libc, MCProcessusAssumption DEF P!ProcessusAssumption
<1>8. prog.masque \subseteq P!Deux
  BY Table_libc
<1>9. prog.boite \in Seq(Nat)
  BY Table_libc, EmptySeq
<1>10. ASSUME NEW p \in 1 .. L, NEW r \in 1 .. L, NEW k \in 1 .. Lg(p), NEW j \in 1 .. Lg(r),
              Op(p, k) = "fork", Op(r, j) = "fork", Ar(p, k) = Ar(r, j)
       PROVE  p = r /\ k = j
  BY <1>4, <1>10
<1>11. \A p \in 1 .. L : Lg(p) \in Nat
  BY <1>2
<1> QED BY <1>11, <1>5, <1>6, <1>7, <1>8, <1>9, <1>10 DEF Bien

LEMMA Bien_sem_anonymes ==
  ASSUME prog = P!sem_anonymes
  PROVE  Bien
<1>1. \A p \in 1 .. L : p = 1 \/ p = 2 \/ p = 3
  BY Table_sem_anonymes
<1>2. \A p \in 1 .. L : Lg(p) \in 0 .. 5
  BY <1>1, Table_sem_anonymes
<1>3. \A p \in 1 .. L : \A k \in 1 .. Lg(p) : k = 1 \/ k = 2 \/ k = 3 \/ k = 4 \/ k = 5
  BY <1>2
<1>4. ASSUME NEW p \in 1 .. L, NEW k \in 1 .. Lg(p), Op(p, k) = "fork"
      PROVE  <<p, k, Ar(p, k)>> \in {<<1, 1, 2>>, <<2, 1, 3>>}
  BY <1>1, <1>2, <1>3, <1>4, Table_sem_anonymes
<1>5. ASSUME NEW p \in 1 .. L, NEW k \in 1 .. Lg(p) PROVE AppelJuste(p, k)
  BY <1>1, <1>2, <1>3, Table_sem_anonymes DEF AppelJuste, P!Deux
<1>6. ASSUME NEW p \in 1 .. L, NEW k \in 1 .. Lg(p), NEW j \in 1 .. Lg(p), Op(p, k) = "retour"
      PROVE  Op(p, j) # "fork"
  BY <1>1, <1>2, <1>3, <1>6, Table_sem_anonymes
<1>7. L \in 1 .. MaxProcessus
  BY Table_sem_anonymes, MCProcessusAssumption DEF P!ProcessusAssumption
<1>8. prog.masque \subseteq P!Deux
  BY Table_sem_anonymes
<1>9. prog.boite \in Seq(Nat)
  BY Table_sem_anonymes, EmptySeq
<1>10. ASSUME NEW p \in 1 .. L, NEW r \in 1 .. L, NEW k \in 1 .. Lg(p), NEW j \in 1 .. Lg(r),
              Op(p, k) = "fork", Op(r, j) = "fork", Ar(p, k) = Ar(r, j)
       PROVE  p = r /\ k = j
  BY <1>4, <1>10
<1>11. \A p \in 1 .. L : Lg(p) \in Nat
  BY <1>2
<1> QED BY <1>11, <1>5, <1>6, <1>7, <1>8, <1>9, <1>10 DEF Bien

(* The parameters, in numbers.                                           *)
LEMMA Nombre == N \in Nat \ {0} /\ N + 1 \in 1 .. MaxProcessus /\ N + 1 \in Nat
BY MCProcessusAssumption DEF P!ProcessusAssumption

(* A natural is even or odd: main alternates fork and wait in some       *)
(* programs.                                                             *)
LEMMA Parite == \A k \in Nat : \E q \in Nat : k = 2 * q \/ k = 2 * q + 1
<1> TAKE k \in Nat
<1>1. k \div 2 \in Nat /\ (k = 2 * (k \div 2) \/ k = 2 * (k \div 2) + 1)
  OBVIOUS
<1> QED BY <1>1

LEMMA Table_chaine_kill ==
  ASSUME prog = P!chaine_kill
  PROVE
  /\ L = N + 1 /\ prog.masque = P!Deux /\ prog.boite = <<>> /\ prog.nom = "chaine"
  /\ Lg(1) = 3 /\ Op(1, 1) = "fork" /\ Ar(1, 1) = 2 /\ Op(1, 2) = "suspend" /\ Ar(1, 2) = {"USR1"} /\ Op(1, 3) = "dit"
  /\ \A p \in 2 .. N : /\ Lg(p) = 4 /\ Op(p, 1) = "fork" /\ Ar(p, 1) = p + 1
                        /\ Op(p, 2) = "suspend" /\ Ar(p, 2) = {"USR1"} /\ Op(p, 3) = "dit"
                        /\ Op(p, 4) = "kill" /\ Ar(p, 4) = p - 1 /\ A3(p, 4) = "USR1"
  /\ Lg(N + 1) = 5 /\ Op(N + 1, 1) = "dit" /\ Op(N + 1, 2) = "kill" /\ Ar(N + 1, 2) = N /\ A3(N + 1, 2) = "USR1"
  /\ Op(N + 1, 3) = "suspend" /\ Ar(N + 1, 3) = {"USR1"} /\ Op(N + 1, 4) = "dit"
  /\ Op(N + 1, 5) = "kill" /\ Ar(N + 1, 5) = N /\ A3(N + 1, 5) = "USR1"
BY Nombre DEF P!chaine_kill, P!Deux, L, Lg, Op, Ar, A3

LEMMA Table_chaine_val ==
  ASSUME prog = P!chaine_val
  PROVE
  /\ L = N + 1 /\ prog.masque = {} /\ prog.boite = <<>> /\ prog.nom = "val"
  /\ Lg(1) = 3 /\ Op(1, 1) = "fork" /\ Ar(1, 1) = 2 /\ Op(1, 2) = "statut" /\ Ar(1, 2) = 2 /\ Op(1, 3) = "dit"
  /\ \A p \in 2 .. N : /\ Lg(p) = 2 /\ Op(p, 1) = "fork" /\ Ar(p, 1) = p + 1
                        /\ Op(p, 2) = "statut" /\ Ar(p, 2) = p + 1
  /\ Lg(N + 1) = 1 /\ Op(N + 1, 1) = "alea"
BY Nombre DEF P!chaine_val, P!Deux, L, Lg, Op, Ar, A3

LEMMA Table_ex1c ==
  ASSUME prog = P!ex1c
  PROVE
  /\ L = N + 1 /\ prog.masque = {} /\ prog.boite = <<>> /\ prog.nom = "ex1c"
  /\ \A p \in 1 .. N : /\ Lg(p) = 4 /\ Op(p, 1) = "lit" /\ Ar(p, 1) = 1 /\ Op(p, 2) = "fork" /\ Ar(p, 2) = p + 1
                        /\ Op(p, 3) = "wait" /\ Op(p, 4) = "dit"
  /\ Lg(N + 1) = 0
BY Nombre DEF P!ex1c, P!Deux, L, Lg, Op, Ar, A3

LEMMA Table_ex1 ==
  ASSUME prog = P!ex1
  PROVE
  /\ L = N + 1 /\ prog.masque = {} /\ prog.boite = <<>> /\ prog.nom = "ex1"
  /\ Lg(1) = 2 * N + 2 /\ Op(1, 1) = "pose" /\ Ar(1, 1) = P!Lisible(N + 1) /\ Op(1, 2) = "dit"
  /\ \A q \in 2 .. N + 1 : Op(1, 2 * q - 1) = "fork" /\ Ar(1, 2 * q - 1) = q /\ Op(1, 2 * q) = "wait"
  /\ \A p \in 2 .. N + 1 : Lg(p) = 2 /\ Op(p, 1) = "pose" /\ Ar(p, 1) = P!Lisible(N + 2 - p) /\ Op(p, 2) = "dit"
BY Nombre DEF P!ex1, P!Pread, P!Deux, L, Lg, Op, Ar, A3

LEMMA Table_nfork ==
  ASSUME prog = P!nfork
  PROVE
  /\ L = N + 1 /\ prog.masque = {} /\ prog.boite = <<>> /\ prog.nom = "nfork"
  /\ Lg(1) = 2 * N + 1
  /\ \A k \in 1 .. N : Op(1, k) = "fork" /\ Ar(1, k) = k + 1
  /\ \A k \in N + 1 .. 2 * N : Op(1, k) = "wait"
  /\ Op(1, 2 * N + 1) = "dit"
  /\ \A p \in 2 .. N + 1 : Lg(p) = 1 /\ Op(p, 1) = "dit"
BY Nombre DEF P!nfork, P!Deux, L, Lg, Op, Ar, A3

LEMMA Table_memoire ==
  ASSUME prog \in {P!memoire, P!addition(<<>>), P!addition(<< 5 >>)}
  PROVE
  /\ L = N + 1 /\ prog.masque = {} /\ prog.boite \in {<<>>, << 5 >>} /\ prog.nom \in {"memoire", "addition"}
  /\ Lg(1) = 2 * N + 2
  /\ \A k \in 1 .. N : Op(1, k) = "fork" /\ Ar(1, k) = k + 1
  /\ \A k \in N + 1 .. 2 * N : Op(1, k) = "waitpid" /\ Ar(1, k) = k - N + 1
  /\ Op(1, 2 * N + 1) = "somme" /\ Op(1, 2 * N + 2) = "dit"
  /\ \A p \in 2 .. N + 1 : Lg(p) = 2 /\ Op(p, 1) = "alea" /\ Op(p, 2) = "depose"
<1>1. /\ prog.texte = P!memoire.texte /\ prog.masque = {} /\ prog.boite \in {<<>>, << 5 >>}
      /\ prog.nom \in {"memoire", "addition"}
  <2>1. CASE prog = P!memoire
    BY <2>1 DEF P!memoire
  <2>2. CASE prog = P!addition(<<>>)
    BY <2>2 DEF P!memoire, P!addition
  <2>3. CASE prog = P!addition(<< 5 >>)
    BY <2>3 DEF P!memoire, P!addition
  <2> QED BY <2>1, <2>2, <2>3
<1> QED BY <1>1, Nombre DEF P!memoire, L, Lg, Op, Ar, A3

LEMMA Table_datagramme ==
  ASSUME prog = P!datagramme
  PROVE
  /\ L = N + 1 /\ prog.masque = {} /\ prog.boite = <<>> /\ prog.nom = "datagramme"
  /\ Lg(1) = 3 * N + 1
  /\ \A q \in 2 .. N + 1 : Op(1, 2 * q - 3) = "fork" /\ Ar(1, 2 * q - 3) = q /\ Op(1, 2 * q - 2) = "retire"
  /\ \A k \in 2 * N + 1 .. 3 * N : Op(1, k) = "waitpid" /\ Ar(1, k) = k - 2 * N + 1
  /\ Op(1, 3 * N + 1) = "dit"
  /\ \A p \in 2 .. N + 1 : Lg(p) = 2 /\ Op(p, 1) = "alea" /\ Op(p, 2) = "depose"
BY Nombre DEF P!datagramme, P!Deux, L, Lg, Op, Ar, A3

LEMMA Bien_chaine_kill ==
  ASSUME prog = P!chaine_kill
  PROVE  Bien
<1>1. /\ L \in 1 .. MaxProcessus /\ L = N + 1 /\ N \in Nat \ {0}
      /\ prog.masque \subseteq P!Deux /\ prog.boite \in Seq(Nat)
  <2>1. prog.masque \subseteq P!Deux
    BY Table_chaine_kill
  <2>2. prog.boite \in Seq(Nat)
    <3>1. prog.boite \in {<<>>, << 5 >>}
      BY Table_chaine_kill
    <3>2. CASE prog.boite = <<>>
      BY <3>2, EmptySeq
    <3>3. CASE prog.boite = << 5 >>
      BY <3>3
    <3> QED BY <3>1, <3>2, <3>3
  <2> QED BY <2>1, <2>2, Nombre, Table_chaine_kill
<1>2. \A p \in 1 .. L : Lg(p) \in Nat
  BY <1>1, Table_chaine_kill
<1>3. ASSUME NEW p \in 1 .. L, NEW k \in 1 .. Lg(p)
      PROVE  \/ Op(p, k) = "fork" /\ Ar(p, k) = p + 1 /\ p <= N /\ k = 1
             \/ Op(p, k) = "suspend" /\ Ar(p, k) = {"USR1"}
             \/ Op(p, k) = "dit"
             \/ Op(p, k) = "kill" /\ Ar(p, k) \in 1 .. N /\ A3(p, k) = "USR1"
  <2>1. p = 1 \/ p \in 2 .. N \/ p = N + 1
    BY <1>1
  <2>2. CASE p = 1
    <3>1. Lg(1) \in {3, 4}
      BY <1>1, Table_chaine_kill
    <3>2. k = 1 \/ k = 2 \/ k = 3 \/ k = 4
      BY <2>2, <3>1
    <3> QED BY <2>2, <3>1, <3>2, <1>1, Table_chaine_kill
  <2>3. CASE p \in 2 .. N
    <3>1. Lg(p) \in {2, 4}
      BY <2>3, <1>1, Table_chaine_kill
    <3>2. k = 1 \/ k = 2 \/ k = 3 \/ k = 4
      BY <3>1
    <3> QED BY <2>3, <3>1, <3>2, <1>1, Table_chaine_kill
  <2>4. CASE p = N + 1
    BY <2>4, <1>1, <1>2, Table_chaine_kill
  <2> QED BY <2>1, <2>2, <2>3, <2>4
<1>4. ASSUME NEW p \in 1 .. L, NEW k \in 1 .. Lg(p) PROVE AppelJuste(p, k)
  BY <1>1, <1>3 DEF AppelJuste, P!Deux
<1>5. ASSUME NEW p \in 1 .. L, NEW r \in 1 .. L, NEW k \in 1 .. Lg(p), NEW j \in 1 .. Lg(r),
             Op(p, k) = "fork", Op(r, j) = "fork", Ar(p, k) = Ar(r, j)
      PROVE  p = r /\ k = j
  BY <1>1, <1>3, <1>5
<1>6. ASSUME NEW p \in 1 .. L, NEW k \in 1 .. Lg(p) PROVE Op(p, k) # "retour"
  BY <1>3
<1> QED BY <1>1, <1>2, <1>4, <1>5, <1>6 DEF Bien

LEMMA Bien_chaine_val ==
  ASSUME prog = P!chaine_val
  PROVE  Bien
<1>1. /\ L \in 1 .. MaxProcessus /\ L = N + 1 /\ N \in Nat \ {0}
      /\ prog.masque \subseteq P!Deux /\ prog.boite \in Seq(Nat)
  <2>1. prog.masque \subseteq P!Deux
    BY Table_chaine_val
  <2>2. prog.boite \in Seq(Nat)
    <3>1. prog.boite \in {<<>>, << 5 >>}
      BY Table_chaine_val
    <3>2. CASE prog.boite = <<>>
      BY <3>2, EmptySeq
    <3>3. CASE prog.boite = << 5 >>
      BY <3>3
    <3> QED BY <3>1, <3>2, <3>3
  <2> QED BY <2>1, <2>2, Nombre, Table_chaine_val
<1>2. \A p \in 1 .. L : Lg(p) \in Nat
  BY <1>1, Table_chaine_val
<1>3. ASSUME NEW p \in 1 .. L, NEW k \in 1 .. Lg(p)
      PROVE  \/ Op(p, k) = "fork" /\ Ar(p, k) = p + 1 /\ p <= N /\ k = 1
             \/ Op(p, k) = "statut" /\ Ar(p, k) = p + 1 /\ p <= N
             \/ Op(p, k) \in {"dit", "alea"}
  <2>1. p = 1 \/ p \in 2 .. N \/ p = N + 1
    BY <1>1
  <2>2. CASE p = 1
    <3>1. Lg(1) \in {3, 4}
      BY <1>1, Table_chaine_val
    <3>2. k = 1 \/ k = 2 \/ k = 3 \/ k = 4
      BY <2>2, <3>1
    <3> QED BY <2>2, <3>1, <3>2, <1>1, Table_chaine_val
  <2>3. CASE p \in 2 .. N
    <3>1. Lg(p) \in {2, 4}
      BY <2>3, <1>1, Table_chaine_val
    <3>2. k = 1 \/ k = 2 \/ k = 3 \/ k = 4
      BY <3>1
    <3> QED BY <2>3, <3>1, <3>2, <1>1, Table_chaine_val
  <2>4. CASE p = N + 1
    BY <2>4, <1>1, <1>2, Table_chaine_val
  <2> QED BY <2>1, <2>2, <2>3, <2>4
<1>4. ASSUME NEW p \in 1 .. L, NEW k \in 1 .. Lg(p) PROVE AppelJuste(p, k)
  BY <1>1, <1>3 DEF AppelJuste, P!Deux
<1>5. ASSUME NEW p \in 1 .. L, NEW r \in 1 .. L, NEW k \in 1 .. Lg(p), NEW j \in 1 .. Lg(r),
             Op(p, k) = "fork", Op(r, j) = "fork", Ar(p, k) = Ar(r, j)
      PROVE  p = r /\ k = j
  BY <1>1, <1>3, <1>5
<1>6. ASSUME NEW p \in 1 .. L, NEW k \in 1 .. Lg(p) PROVE Op(p, k) # "retour"
  BY <1>3
<1> QED BY <1>1, <1>2, <1>4, <1>5, <1>6 DEF Bien

LEMMA Bien_ex1c ==
  ASSUME prog = P!ex1c
  PROVE  Bien
<1>1. /\ L \in 1 .. MaxProcessus /\ L = N + 1 /\ N \in Nat \ {0}
      /\ prog.masque \subseteq P!Deux /\ prog.boite \in Seq(Nat)
  <2>1. prog.masque \subseteq P!Deux
    BY Table_ex1c
  <2>2. prog.boite \in Seq(Nat)
    <3>1. prog.boite \in {<<>>, << 5 >>}
      BY Table_ex1c
    <3>2. CASE prog.boite = <<>>
      BY <3>2, EmptySeq
    <3>3. CASE prog.boite = << 5 >>
      BY <3>3
    <3> QED BY <3>1, <3>2, <3>3
  <2> QED BY <2>1, <2>2, Nombre, Table_ex1c
<1>2. \A p \in 1 .. L : Lg(p) \in Nat
  BY <1>1, Table_ex1c
<1>3. ASSUME NEW p \in 1 .. L, NEW k \in 1 .. Lg(p)
      PROVE  \/ Op(p, k) = "fork" /\ Ar(p, k) = p + 1 /\ p <= N /\ k = 2
             \/ Op(p, k) = "lit" /\ Ar(p, k) = 1
             \/ Op(p, k) \in {"wait", "dit"}
  <2>1. p = 1 \/ p \in 2 .. N \/ p = N + 1
    BY <1>1
  <2>2. CASE p = 1
    <3>1. Lg(1) \in {3, 4}
      BY <1>1, Table_ex1c
    <3>2. k = 1 \/ k = 2 \/ k = 3 \/ k = 4
      BY <2>2, <3>1
    <3> QED BY <2>2, <3>1, <3>2, <1>1, Table_ex1c
  <2>3. CASE p \in 2 .. N
    <3>1. Lg(p) \in {2, 4}
      BY <2>3, <1>1, Table_ex1c
    <3>2. k = 1 \/ k = 2 \/ k = 3 \/ k = 4
      BY <3>1
    <3> QED BY <2>3, <3>1, <3>2, <1>1, Table_ex1c
  <2>4. CASE p = N + 1
    BY <2>4, <1>1, <1>2, Table_ex1c
  <2> QED BY <2>1, <2>2, <2>3, <2>4
<1>4. ASSUME NEW p \in 1 .. L, NEW k \in 1 .. Lg(p) PROVE AppelJuste(p, k)
  BY <1>1, <1>3 DEF AppelJuste, P!Deux
<1>5. ASSUME NEW p \in 1 .. L, NEW r \in 1 .. L, NEW k \in 1 .. Lg(p), NEW j \in 1 .. Lg(r),
             Op(p, k) = "fork", Op(r, j) = "fork", Ar(p, k) = Ar(r, j)
      PROVE  p = r /\ k = j
  BY <1>1, <1>3, <1>5
<1>6. ASSUME NEW p \in 1 .. L, NEW k \in 1 .. Lg(p) PROVE Op(p, k) # "retour"
  BY <1>3
<1> QED BY <1>1, <1>2, <1>4, <1>5, <1>6 DEF Bien

LEMMA Bien_ex1 ==
  ASSUME prog = P!ex1
  PROVE  Bien
<1>0. \A q \in Nat : P!Lisible(q) \in Nat
  BY DEF P!Lisible
<1>1. /\ L \in 1 .. MaxProcessus /\ L = N + 1 /\ N \in Nat \ {0}
      /\ prog.masque \subseteq P!Deux /\ prog.boite \in Seq(Nat)
  <2>1. prog.masque \subseteq P!Deux
    BY Table_ex1
  <2>2. prog.boite \in Seq(Nat)
    <3>1. prog.boite \in {<<>>, << 5 >>}
      BY Table_ex1
    <3>2. CASE prog.boite = <<>>
      BY <3>2, EmptySeq
    <3>3. CASE prog.boite = << 5 >>
      BY <3>3
    <3> QED BY <3>1, <3>2, <3>3
  <2> QED BY <2>1, <2>2, Nombre, Table_ex1
<1>2. \A p \in 1 .. L : Lg(p) \in Nat
  <2>1. \A p \in 1 .. L : p = 1 \/ p \in 2 .. N + 1
    BY <1>1
  <2> QED BY <2>1, <1>1, Table_ex1, SMTT(30)
<1>3. ASSUME NEW p \in 1 .. L, NEW k \in 1 .. Lg(p)
      PROVE  \/ Op(p, k) = "fork" /\ p = 1 /\ Ar(p, k) \in 2 .. N + 1 /\ k = 2 * Ar(p, k) - 1
             \/ Op(p, k) = "pose" /\ Ar(p, k) \in Nat
             \/ Op(p, k) \in {"wait", "dit"}
  <2>1. CASE p = 1
    <3>1. Lg(1) = 2 * N + 2
      BY Table_ex1
    <3>2. PICK q \in Nat : k = 2 * q \/ k = 2 * q + 1
      <4>1. k \in Nat
        BY <2>1, <3>1, Nombre
      <4> QED BY <4>1, Parite
    <3>3. k = 1 \/ k = 2 \/ (q + 1 \in 2 .. N + 1 /\ k = 2 * (q + 1) - 1) \/ (q \in 2 .. N + 1 /\ k = 2 * q)
      BY <2>1, <3>1, <3>2, <1>1
    <3>4. CASE k = 1 \/ k = 2
      <4>1. N + 1 \in Nat
        BY <1>1
      <4>2. Op(1, 1) = "pose" /\ Ar(1, 1) \in Nat /\ Op(1, 2) = "dit"
        BY <1>0, <4>1, Table_ex1
      <4> QED BY <2>1, <3>4, <4>2
    <3>5. CASE q + 1 \in 2 .. N + 1 /\ k = 2 * (q + 1) - 1
      BY <2>1, <3>5, <1>1, Table_ex1
    <3>6. CASE q \in 2 .. N + 1 /\ k = 2 * q
      BY <2>1, <3>6, <1>1, Table_ex1
    <3> QED BY <3>3, <3>4, <3>5, <3>6
  <2>2. CASE p \in 2 .. N + 1
    <3>1. Lg(p) = 2 /\ P!Lisible(N + 2 - p) \in Nat
      BY <2>2, <1>0, <1>1, Table_ex1
    <3>2. k = 1 \/ k = 2
      BY <3>1
    <3> QED BY <2>2, <3>1, <3>2, <1>1, Table_ex1
  <2>3. p = 1 \/ p \in 2 .. N + 1
    BY <1>1
  <2> QED BY <2>1, <2>2, <2>3
<1>4. ASSUME NEW p \in 1 .. L, NEW k \in 1 .. Lg(p) PROVE AppelJuste(p, k)
  BY <1>1, <1>3 DEF AppelJuste, P!Deux
<1>5. ASSUME NEW p \in 1 .. L, NEW r \in 1 .. L, NEW k \in 1 .. Lg(p), NEW j \in 1 .. Lg(r),
             Op(p, k) = "fork", Op(r, j) = "fork", Ar(p, k) = Ar(r, j)
      PROVE  p = r /\ k = j
  BY <1>1, <1>3, <1>5
<1>6. ASSUME NEW p \in 1 .. L, NEW k \in 1 .. Lg(p) PROVE Op(p, k) # "retour"
  BY <1>3
<1> QED BY <1>1, <1>2, <1>4, <1>5, <1>6 DEF Bien

LEMMA Bien_nfork ==
  ASSUME prog = P!nfork
  PROVE  Bien
<1>1. /\ L \in 1 .. MaxProcessus /\ L = N + 1 /\ N \in Nat \ {0}
      /\ prog.masque \subseteq P!Deux /\ prog.boite \in Seq(Nat)
  <2>1. prog.masque \subseteq P!Deux
    BY Table_nfork
  <2>2. prog.boite \in Seq(Nat)
    <3>1. prog.boite \in {<<>>, << 5 >>}
      BY Table_nfork
    <3>2. CASE prog.boite = <<>>
      BY <3>2, EmptySeq
    <3>3. CASE prog.boite = << 5 >>
      BY <3>3
    <3> QED BY <3>1, <3>2, <3>3
  <2> QED BY <2>1, <2>2, Nombre, Table_nfork
<1>2. \A p \in 1 .. L : Lg(p) \in Nat
  <2>1. \A p \in 1 .. L : p = 1 \/ p \in 2 .. N + 1
    BY <1>1
  <2> QED BY <2>1, <1>1, Table_nfork
<1>3. ASSUME NEW p \in 1 .. L, NEW k \in 1 .. Lg(p)
      PROVE  \/ Op(p, k) = "fork" /\ p = 1 /\ k \in 1 .. N /\ Ar(p, k) = k + 1
             \/ Op(p, k) \in {"wait", "dit"}
  <2>1. CASE p = 1
    <3>1. k \in 1 .. N \/ k \in N + 1 .. 2 * N \/ k = 2 * N + 1
      <4>1. Lg(1) = 2 * N + 1
        BY Table_nfork
      <4> QED BY <2>1, Nombre, <4>1
    <3> QED BY <2>1, <3>1, <1>1, Table_nfork
  <2>2. CASE p \in 2 .. N + 1
    <3>1. Lg(p) \in {1, 2} /\ N + 2 - p \in Nat
      BY <2>2, <1>1, Table_nfork
    <3>2. k = 1 \/ k = 2
      BY <3>1
    <3> QED BY <2>2, <3>1, <3>2, <1>1, Table_nfork
  <2>3. p = 1 \/ p \in 2 .. N + 1
    BY <1>1
  <2> QED BY <2>1, <2>2, <2>3
<1>4. ASSUME NEW p \in 1 .. L, NEW k \in 1 .. Lg(p) PROVE AppelJuste(p, k)
  BY <1>1, <1>3 DEF AppelJuste, P!Deux
<1>5. ASSUME NEW p \in 1 .. L, NEW r \in 1 .. L, NEW k \in 1 .. Lg(p), NEW j \in 1 .. Lg(r),
             Op(p, k) = "fork", Op(r, j) = "fork", Ar(p, k) = Ar(r, j)
      PROVE  p = r /\ k = j
  BY <1>1, <1>3, <1>5
<1>6. ASSUME NEW p \in 1 .. L, NEW k \in 1 .. Lg(p) PROVE Op(p, k) # "retour"
  BY <1>3
<1> QED BY <1>1, <1>2, <1>4, <1>5, <1>6 DEF Bien

LEMMA Bien_memoire ==
  ASSUME prog \in {P!memoire, P!addition(<<>>), P!addition(<< 5 >>)}
  PROVE  Bien
<1>1. /\ L \in 1 .. MaxProcessus /\ L = N + 1 /\ N \in Nat \ {0}
      /\ prog.masque \subseteq P!Deux /\ prog.boite \in Seq(Nat)
  <2>1. prog.masque \subseteq P!Deux
    BY Table_memoire
  <2>2. prog.boite \in Seq(Nat)
    <3>1. prog.boite \in {<<>>, << 5 >>}
      BY Table_memoire
    <3>2. CASE prog.boite = <<>>
      BY <3>2, EmptySeq
    <3>3. CASE prog.boite = << 5 >>
      BY <3>3
    <3> QED BY <3>1, <3>2, <3>3
  <2> QED BY <2>1, <2>2, Nombre, Table_memoire
<1>2. \A p \in 1 .. L : Lg(p) \in Nat
  <2>1. \A p \in 1 .. L : p = 1 \/ p \in 2 .. N + 1
    BY <1>1
  <2> QED BY <2>1, <1>1, Table_memoire
<1>3. ASSUME NEW p \in 1 .. L, NEW k \in 1 .. Lg(p)
      PROVE  \/ Op(p, k) = "fork" /\ p = 1 /\ k \in 1 .. N /\ Ar(p, k) = k + 1
             \/ Op(p, k) = "waitpid" /\ Ar(p, k) \in 2 .. N + 1
             \/ Op(p, k) \in {"somme", "dit", "alea", "depose"}
  <2>1. CASE p = 1
    <3>1. k \in 1 .. N \/ k \in N + 1 .. 2 * N \/ k = 2 * N + 1 \/ k = 2 * N + 2
      <4>1. Lg(1) = 2 * N + 2
        BY Table_memoire
      <4> QED BY <2>1, Nombre, <4>1
    <3>2. k \in N + 1 .. 2 * N => k - N + 1 \in 2 .. N + 1
      BY <1>1
    <3> QED BY <2>1, <3>1, <3>2, <1>1, Table_memoire
  <2>2. CASE p \in 2 .. N + 1
    <3>1. Lg(p) \in {1, 2} /\ N + 2 - p \in Nat
      BY <2>2, <1>1, Table_memoire
    <3>2. k = 1 \/ k = 2
      BY <3>1
    <3> QED BY <2>2, <3>1, <3>2, <1>1, Table_memoire
  <2>3. p = 1 \/ p \in 2 .. N + 1
    BY <1>1
  <2> QED BY <2>1, <2>2, <2>3
<1>4. ASSUME NEW p \in 1 .. L, NEW k \in 1 .. Lg(p) PROVE AppelJuste(p, k)
  BY <1>1, <1>3, SMTT(30) DEF AppelJuste, P!Deux
<1>5. ASSUME NEW p \in 1 .. L, NEW r \in 1 .. L, NEW k \in 1 .. Lg(p), NEW j \in 1 .. Lg(r),
             Op(p, k) = "fork", Op(r, j) = "fork", Ar(p, k) = Ar(r, j)
      PROVE  p = r /\ k = j
  BY <1>1, <1>3, <1>5, SMTT(30)
<1>6. ASSUME NEW p \in 1 .. L, NEW k \in 1 .. Lg(p) PROVE Op(p, k) # "retour"
  BY <1>3
<1> QED BY <1>1, <1>2, <1>4, <1>5, <1>6 DEF Bien

LEMMA Bien_datagramme ==
  ASSUME prog = P!datagramme
  PROVE  Bien
<1>1. /\ L \in 1 .. MaxProcessus /\ L = N + 1 /\ N \in Nat \ {0}
      /\ prog.masque \subseteq P!Deux /\ prog.boite \in Seq(Nat)
  <2>1. prog.masque \subseteq P!Deux
    BY Table_datagramme
  <2>2. prog.boite \in Seq(Nat)
    <3>1. prog.boite \in {<<>>, << 5 >>}
      BY Table_datagramme
    <3>2. CASE prog.boite = <<>>
      BY <3>2, EmptySeq
    <3>3. CASE prog.boite = << 5 >>
      BY <3>3
    <3> QED BY <3>1, <3>2, <3>3
  <2> QED BY <2>1, <2>2, Nombre, Table_datagramme
<1>2. \A p \in 1 .. L : Lg(p) \in Nat
  <2>1. \A p \in 1 .. L : p = 1 \/ p \in 2 .. N + 1
    BY <1>1
  <2> QED BY <2>1, <1>1, Table_datagramme
<1>3. ASSUME NEW p \in 1 .. L, NEW k \in 1 .. Lg(p)
      PROVE  \/ Op(p, k) = "fork" /\ p = 1 /\ Ar(p, k) \in 2 .. N + 1 /\ k = 2 * Ar(p, k) - 3
             \/ Op(p, k) = "waitpid" /\ Ar(p, k) \in 2 .. N + 1
             \/ Op(p, k) \in {"retire", "dit", "alea", "depose"}
  <2>1. CASE p = 1
    <3>1. Lg(1) = 3 * N + 1
      BY Table_datagramme
    <3>2. PICK q \in Nat : k = 2 * q \/ k = 2 * q + 1
      <4>1. k \in Nat
        BY <2>1, <3>1, Nombre
      <4> QED BY <4>1, Parite
    <3>3. \/ k = 3 * N + 1 \/ k \in 2 * N + 1 .. 3 * N
          \/ q + 2 \in 2 .. N + 1 /\ k = 2 * (q + 2) - 3
          \/ q + 1 \in 2 .. N + 1 /\ k = 2 * (q + 1) - 2
      BY <2>1, <3>1, <3>2, <1>1
    <3>4. CASE k = 3 * N + 1
      BY <2>1, <3>4, <1>1, Table_datagramme
    <3>5. CASE k \in 2 * N + 1 .. 3 * N
      <4>1. k - 2 * N + 1 \in 2 .. N + 1
        BY <3>5, <1>1
      <4> QED BY <2>1, <3>5, <4>1, Table_datagramme
    <3>6. CASE q + 2 \in 2 .. N + 1 /\ k = 2 * (q + 2) - 3
      BY <2>1, <3>6, <1>1, Table_datagramme
    <3>7. CASE q + 1 \in 2 .. N + 1 /\ k = 2 * (q + 1) - 2
      BY <2>1, <3>7, <1>1, Table_datagramme
    <3> QED BY <3>3, <3>4, <3>5, <3>6, <3>7
  <2>2. CASE p \in 2 .. N + 1
    <3>1. Lg(p) \in {1, 2} /\ N + 2 - p \in Nat
      BY <2>2, <1>1, Table_datagramme
    <3>2. k = 1 \/ k = 2
      BY <3>1
    <3> QED BY <2>2, <3>1, <3>2, <1>1, Table_datagramme
  <2>3. p = 1 \/ p \in 2 .. N + 1
    BY <1>1
  <2> QED BY <2>1, <2>2, <2>3
<1>4. ASSUME NEW p \in 1 .. L, NEW k \in 1 .. Lg(p) PROVE AppelJuste(p, k)
  BY <1>1, <1>3 DEF AppelJuste, P!Deux
<1>5. ASSUME NEW p \in 1 .. L, NEW r \in 1 .. L, NEW k \in 1 .. Lg(p), NEW j \in 1 .. Lg(r),
             Op(p, k) = "fork", Op(r, j) = "fork", Ar(p, k) = Ar(r, j)
      PROVE  p = r /\ k = j
  BY <1>1, <1>3, <1>5
<1>6. ASSUME NEW p \in 1 .. L, NEW k \in 1 .. Lg(p) PROVE Op(p, k) # "retour"
  BY <1>3
<1> QED BY <1>1, <1>2, <1>4, <1>5, <1>6 DEF Bien

(* Every program of Programmes is well formed, for any N.                *)
LEMMA BienTous == prog \in P!Programmes => Bien
BY Bien_ex3, Bien_ex3c, Bien_mauvaise_methode, Bien_p2_p1_p3, Bien_taille_fic, Bien_ex2, Bien_ex2c, Bien_posix, Bien_libc, Bien_sem_anonymes,
   Bien_chaine_kill, Bien_chaine_val, Bien_ex1c, Bien_ex1, Bien_nfork, Bien_memoire, Bien_datagramme DEF P!Programmes

HIDE DEF P!P, P!Fork, P!Kill, P!Suspend, P!Pending, P!Wait, P!Waitpid, P!Statut, P!Dit, P!Pose, P!Alea,
        P!Depose, P!Retire, P!Somme, P!Lit, P!Retour, P!Ecrit, P!Lseek, P!SemWait, P!SemPost

(* d[p][k] bounds the sons that p has and has not waited for when it is at *)
(* call k; it has none left at its end.                                    *)
Reserve(g, d) ==
    /\ d \in [1 .. Len(g.texte) -> [Nat -> Nat]]
    /\ \A p \in 1 .. Len(g.texte) : d[p][Len(g.texte[p]) + 1] = 0
    /\ \A p \in 1 .. Len(g.texte) : \A k \in 1 .. Len(g.texte[p]) :
         LET o == g.texte[p][k][1]
         IN  /\ o # "retour"
             /\ o = "fork" => d[p][k + 1] >= d[p][k] + 1
             /\ o \in {"wait", "waitpid", "statut"} => d[p][k + 1] + 1 >= d[p][k]
             /\ o = "lit" => d[p][k] = 0
             /\ o \notin {"fork", "wait", "waitpid", "statut"} => d[p][k + 1] >= d[p][k]
             /\ o \in {"waitpid", "statut"} =>
                   \E j \in 1 .. k - 1 : g.texte[p][j][1] = "fork" /\ g.texte[p][j][2] = g.texte[p][k][2]

(* A bound of the program that runs, when it has one.                    *)
DoitDe(g) == CHOOSE d : Reserve(g, d)
Doit      == DoitDe(prog)

(* The same in the terms of the program that runs.                         *)
AttendAvec(d) ==
    /\ d \in [1 .. L -> [Nat -> Nat]]
    /\ \A p \in 1 .. L : d[p][Lg(p) + 1] = 0
    /\ \A p \in 1 .. L : \A k \in 1 .. Lg(p) :
         /\ Op(p, k) # "retour"
         /\ Op(p, k) = "fork" => d[p][k + 1] >= d[p][k] + 1
         /\ Op(p, k) \in {"wait", "waitpid", "statut"} => d[p][k + 1] + 1 >= d[p][k]
         /\ Op(p, k) = "lit" => d[p][k] = 0
         /\ Op(p, k) \notin {"fork", "wait", "waitpid", "statut"} => d[p][k + 1] >= d[p][k]
         /\ Op(p, k) \in {"waitpid", "statut"} => \E j \in 1 .. k - 1 : Op(p, j) = "fork" /\ Ar(p, j) = Ar(p, k)

(* The chosen bound is one.                                              *)
LEMMA DoitOK == ASSUME NEW d, AttendAvec(d) PROVE AttendAvec(Doit)
<1>1. \A e : AttendAvec(e) <=> Reserve(prog, e)
  BY DEF AttendAvec, Reserve, L, Lg, Op, Ar
<1>2. Reserve(prog, d)
  BY <1>1
<1>3. Reserve(prog, Doit)
  BY <1>2 DEF Doit, DoitDe
<1> QED BY <1>1, <1>3

(* A process that runs has no more sons to wait for than its bound at ip *)
(* says.                                                                 *)
Sursis == \A p \in P!Pids : etat[p] = "vif" => Cardinality(P!Fils(p)) <= Doit[p][ip[p]]

(* Who has ended has only sons that have ended, and that were waited     *)
(* for.                                                                  *)
Orphelins == \A q \in P!Pids : pere[q] # 0 /\ P!Termine(pere[q]) => etat[q] = "fini"

(* The sons of a process can be counted.                                 *)
LEMMA FilsFinis == ASSUME NEW p PROVE IsFiniteSet(P!Fils(p)) /\ Cardinality(P!Fils(p)) \in Nat
<1>1. IsFiniteSet(P!Pids)
  BY MCProcessusAssumption, FS_Interval DEF P!ProcessusAssumption, P!Pids
<1>2. P!Fils(p) \subseteq P!Pids
  BY DEF P!Fils
<1> QED BY <1>1, <1>2, FS_Subset, FS_CardinalityType

(* The processes of a program have pids, and 0 is none.                  *)
LEMMA Pids0 == Bien => 1 .. L \subseteq P!Pids /\ 0 \notin P!Pids
BY MCProcessusAssumption DEF P!ProcessusAssumption, Bien, P!Pids

(* Nobody has a son at first.                                            *)
LEMMA SursisInit ==
  ASSUME Bien, AttendAvec(Doit), P!Init
  PROVE  Sursis /\ Orphelins
<1>1. \A q \in P!Pids : pere[q] = 0
  BY DEF P!Init
<1>2. \A p \in P!Pids : etat[p] = "vif" => p = 1 /\ ip[p] = 1
  BY DEF P!Init
<1>3. \A p \in 1 .. L : P!Fils(p) = {}
  BY <1>1 DEF P!Fils
<1>4. 1 \in 1 .. L /\ Doit[1][1] \in Nat
  <2>1. 1 \in 1 .. L
    BY DEF Bien
  <2>2. Doit \in [1 .. L -> [Nat -> Nat]]
    BY DEF AttendAvec
  <2> QED BY <2>1, <2>2
<1> QED BY <1>1, <1>2, <1>3, <1>4, FS_EmptySet DEF Sursis, Orphelins

(* fork adds a son, and the bound grows by one.                          *)
LEMMA SursisFork ==
  ASSUME Bien, Types, Places, AttendAvec(Doit), Sursis, Orphelins, NEW p \in P!Pids, P!ForkP(p)
  PROVE  Sursis' /\ Orphelins'
<1>0. PICK q \in P!Pids : q = P!Arg(p)
  BY ForkPlaces
<1>1. /\ p \in 1 .. L /\ etat[p] = "vif" /\ ip[p] \in 1 .. Lg(p) /\ Op(p, ip[p]) = "fork"
  BY AuPas DEF P!ForkP
<1>2. q \in P!Pids /\ q # p /\ etat[q] = "absent" /\ UNCHANGED prog
  BY <1>0, ForkPlaces
<1>3. etat' = [etat EXCEPT ![q] = "vif"] /\ pere' = [pere EXCEPT ![q] = p] /\ ip' = [ip EXCEPT ![p] = ip[p] + 1]
  BY <1>0 DEF P!ForkP, P!Suite
<1> HIDE DEF P!Pids
<1>4. /\ etat'[q] = "vif" /\ pere'[q] = p /\ ip'[p] = ip[p] + 1
      /\ \A r \in P!Pids : r # q => etat'[r] = etat[r] /\ pere'[r] = pere[r]
      /\ \A r \in P!Pids : r # p => ip'[r] = ip[r]
  BY <1>1, <1>2, <1>3 DEF Types
<1>5. \A r \in P!Pids : pere[r] # q
  <2> SUFFICES ASSUME NEW r \in P!Pids, pere[r] = q PROVE FALSE
    OBVIOUS
  <2>1. q # 0
    BY <1>2, Pids0
  <2> QED BY <2>1, <1>2 DEF Places
<1>6. pere[q] = 0 /\ 0 \notin P!Pids /\ p # 0 /\ ip[q] = 1
  BY <1>2, Pids0 DEF Places
<1>7. Doit' = Doit
  BY <1>2 DEF Doit
<1>8. P!Fils(p)' = P!Fils(p) \cup {q} /\ q \notin P!Fils(p)
  BY <1>2, <1>4, <1>6 DEF P!Fils
<1>9. Cardinality(P!Fils(p)') = Cardinality(P!Fils(p)) + 1
  BY <1>8, FilsFinis, FS_AddElement
<1>10. P!Fils(q)' = {}
  <2>1. \A r \in P!Pids : pere'[r] # q
    BY <1>2, <1>4, <1>5
  <2> QED BY <2>1 DEF P!Fils
<1>11. ASSUME NEW r \in P!Pids, r # p, r # q PROVE P!Fils(r)' = P!Fils(r)
  BY <1>2, <1>4, <1>6, <1>11 DEF P!Fils
<1>12. Sursis'
  <2> SUFFICES ASSUME NEW r \in P!Pids, etat'[r] = "vif" PROVE Cardinality(P!Fils(r)') <= Doit[r][ip'[r]]
    BY <1>7 DEF Sursis
  <2>1. CASE r = p
    <3>1. Cardinality(P!Fils(p)) <= Doit[p][ip[p]] /\ Cardinality(P!Fils(p)) \in Nat
      BY <1>1, FilsFinis DEF Sursis
    <3>2. Doit[p][ip[p] + 1] >= Doit[p][ip[p]] + 1 /\ Doit[p][ip[p] + 1] \in Nat /\ Doit[p][ip[p]] \in Nat
      <4>1. Doit[p] \in [Nat -> Nat] /\ ip[p] \in Nat /\ ip[p] + 1 \in Nat
        <5>1. ip[p] \in Nat \ {0}
          BY DEF Types
        <5>2. Doit \in [1 .. L -> [Nat -> Nat]]
          BY DEF AttendAvec
        <5>3. Doit[p] \in [Nat -> Nat]
          BY <5>2, <1>1
        <5> QED BY <5>1, <5>3
      <4> QED BY <4>1, <1>1 DEF AttendAvec
    <3> QED BY <2>1, <3>1, <3>2, <1>4, <1>9
  <2>2. CASE r = q
    <3>1. q \in 1 .. L
      BY <1>0, <1>1, AuPas DEF AppelJuste, P!ForkP
    <3>2. Doit[q][1] \in Nat
      BY <3>1 DEF AttendAvec
    <3>3. Cardinality(P!Fils(q)') = 0 /\ ip'[q] = 1
      BY <1>2, <1>4, <1>6, <1>10, FS_EmptySet
    <3>4. Cardinality(P!Fils(q)') <= Doit[q][ip'[q]]
      BY <3>2, <3>3
    <3> QED BY <2>2, <3>4
  <2>3. CASE r # p /\ r # q
    BY <2>3, <1>4, <1>11 DEF Sursis
  <2> QED BY <2>1, <2>2, <2>3
<1>13. Orphelins'
  <2> SUFFICES ASSUME NEW r \in P!Pids, pere'[r] # 0, P!Termine(pere[r])' PROVE etat'[r] = "fini"
    BY DEF Orphelins
  <2>1. CASE r = q
    BY <2>1, <1>1, <1>2, <1>4 DEF P!Termine
  <2>2. CASE r # q
    <3>1. pere'[r] = pere[r] /\ pere[r] \in P!Pids
      BY <2>2, <1>4, Pids0 DEF Places
    <3>2. pere[r] # q
      BY <1>5
    <3>3. P!Termine(pere[r])
      BY <3>1, <3>2, <1>4 DEF P!Termine
    <3> QED BY <2>2, <3>1, <3>3, <1>4 DEF Orphelins
  <2> QED BY <2>1, <2>2
<1> QED BY <1>12, <1>13

(* A process ends where its bound is 0; its zombie is still to wait for. *)
LEMMA SursisExit ==
  ASSUME Bien, Types, Places, AttendAvec(Doit), Sursis, Orphelins, NEW p \in P!Pids, P!Exit(p)
  PROVE  Sursis' /\ Orphelins'
<1>1. /\ p \in 1 .. L /\ etat[p] = "vif" /\ ip[p] = Lg(p) + 1 /\ UNCHANGED <<prog, pere, ip>>
  <2>1. etat[p] = "vif" /\ UNCHANGED <<prog, pere, ip>> /\ ip[p] > Lg(p)
    BY DEF P!Exit, P!Texte, Lg
  <2>2. p \in 1 .. L /\ ip[p] \in 1 .. Lg(p) + 1 /\ Lg(p) \in Nat
    BY <2>1 DEF Places, Bien
  <2> QED BY <2>1, <2>2
<1>2. P!Fils(p) = {}
  <2>1. Doit[p][ip[p]] = 0
    BY <1>1 DEF AttendAvec
  <2>2. Cardinality(P!Fils(p)) <= 0
    BY <1>1, <2>1 DEF Sursis
  <2> QED BY <2>2, FilsFinis, FS_EmptySet
<1>3. Doit' = Doit
  BY <1>1 DEF Doit
<1>4. etat' = [q \in P!Pids |->
                   IF q = p THEN (IF pere[p] # 0 /\ etat[pere[p]] = "vif" THEN "zombie" ELSE "fini")
                   ELSE IF pere[q] = p /\ etat[q] = "zombie" THEN "fini" ELSE etat[q]]
  BY DEF P!Exit
<1> HIDE DEF P!Pids
<1>5. \A q \in P!Pids : pere[q] = p => etat[q] = "fini"
  <2> SUFFICES ASSUME NEW q \in P!Pids, pere[q] = p PROVE etat[q] = "fini"
    OBVIOUS
  <2>1. etat[q] \notin {"vif", "zombie"}
    BY <1>2 DEF P!Fils
  <2>2. etat[q] # "absent"
    BY <1>1 DEF Places
  <2> QED BY <2>1, <2>2 DEF Types
<1>6. pere[p] # p
  BY <1>1, <1>5
<1>7. /\ \A q \in P!Pids : q # p => etat'[q] = etat[q]
      /\ etat'[p] \in {"zombie", "fini"}
      /\ pere[p] # 0 /\ etat[pere[p]] = "vif" => etat'[p] = "zombie"
  BY <1>4, <1>5
<1>8. ASSUME NEW r \in P!Pids, r # p, etat[r] = "vif" PROVE P!Fils(r)' = P!Fils(r)
  <2>0. r # 0
    BY Pids0
  <2>1. \A q \in P!Pids : (pere'[q] = r /\ etat'[q] \in {"vif", "zombie"}) <=> (pere[q] = r /\ etat[q] \in {"vif", "zombie"})
    BY <1>1, <1>7, <1>8, <2>0
  <2> QED BY <2>1 DEF P!Fils
<1>9. Sursis'
  <2> SUFFICES ASSUME NEW r \in P!Pids, etat'[r] = "vif" PROVE Cardinality(P!Fils(r)') <= Doit[r][ip[r]]
    BY <1>1, <1>3 DEF Sursis
  <2>1. r # p /\ etat[r] = "vif"
    BY <1>7
  <2> QED BY <2>1, <1>8 DEF Sursis
<1>10. Orphelins'
  <2> SUFFICES ASSUME NEW q \in P!Pids, pere[q] # 0, P!Termine(pere[q])' PROVE etat'[q] = "fini"
    BY <1>1 DEF Orphelins
  <2>0. pere[q] \in P!Pids
    BY Pids0 DEF Places
  <2>1. CASE pere[q] = p
    BY <2>1, <1>5, <1>6, <1>7
  <2>2. CASE pere[q] # p
    <3>1. P!Termine(pere[q])
      BY <2>0, <2>2, <1>1, <1>7 DEF P!Termine
    <3>2. etat[q] = "fini"
      BY <3>1 DEF Orphelins
    <3> QED BY <3>2, <1>1, <1>7
  <2> QED BY <2>1, <2>2
<1> QED BY <1>9, <1>10

(* wait takes a son away unless there is none; waitpid takes one that    *)
(* was forked before.                                                    *)
LEMMA SursisWait ==
  ASSUME Bien, Types, Places, AttendAvec(Doit), Sursis, Orphelins, NEW p \in P!Pids, P!WaitP(p)
  PROVE  Sursis' /\ Orphelins'
<1>0. P!A(p, "wait") \/ P!A(p, "waitpid") \/ P!A(p, "statut")
  BY DEF P!WaitP
<1>1. /\ p \in 1 .. L /\ etat[p] = "vif" /\ ip[p] \in 1 .. Lg(p) /\ Op(p, ip[p]) \in {"wait", "waitpid", "statut"}
      /\ UNCHANGED <<prog, pere>> /\ ip' = [ip EXCEPT ![p] = ip[p] + 1] /\ P!Arg(p) = Ar(p, ip[p])
  BY <1>0, AuPas DEF P!WaitP, P!Suite
<1>3. Doit' = Doit
  BY <1>1 DEF Doit
<1> HIDE DEF P!Pids
<1>2. \/ UNCHANGED etat /\ P!Fils(p) = {}
      \/ \E q \in P!Pids : pere[q] = p /\ etat[q] = "zombie" /\ etat' = [etat EXCEPT ![q] = "fini"]
  <2>1. CASE P!A(p, "wait")
    BY <2>1 DEF P!WaitP, P!Fils, P!A
  <2>2. CASE ~P!A(p, "wait")
    <3>1. /\ P!A(p, "waitpid") \/ P!A(p, "statut")
          /\ etat[P!Arg(p)] = "zombie" /\ etat' = [etat EXCEPT ![P!Arg(p)] = "fini"]
      BY <2>2 DEF P!WaitP
    <3>2. Op(p, ip[p]) \in {"waitpid", "statut"}
      BY <3>1, AuPas
    <3>3. PICK j \in 1 .. ip[p] - 1 : Op(p, j) = "fork" /\ Ar(p, j) = Ar(p, ip[p])
      BY <1>1, <3>2 DEF AttendAvec
    <3>4. j \in 1 .. Lg(p) /\ Lg(p) \in Nat /\ Ar(p, j) = P!Arg(p) /\ Ar(p, j) \in P!Pids /\ Ar(p, j) # 1
      <4>1. Lg(p) \in Nat
        BY <1>1 DEF Bien
      <4>2. j \in 1 .. Lg(p)
        BY <4>1, <1>1
      <4>3. Ar(p, j) \in 2 .. L
        BY <4>2, <1>1, <3>3 DEF Bien, AppelJuste
      <4>4. Ar(p, j) \in 1 .. L /\ Ar(p, j) # 1
        BY <4>3 DEF Bien
      <4> QED BY <4>1, <4>2, <4>4, <1>1, <3>3, Pids0
    <3>5. pere[Ar(p, j)] = p
      <4>1. pere[Ar(p, j)] # 0
        BY <3>1, <3>4 DEF Places
      <4>2. PICK k \in 1 .. Lg(pere[Ar(p, j)]) : Op(pere[Ar(p, j)], k) = "fork" /\ Ar(pere[Ar(p, j)], k) = Ar(p, j)
        BY <4>1, <3>4 DEF Places
      <4>3. pere[Ar(p, j)] \in 1 .. L
        BY <4>1, <3>4 DEF Places
      <4> QED BY <4>2, <4>3, <3>3, <3>4, <1>1 DEF Bien
    <3> QED BY <3>1, <3>4, <3>5
  <2> QED BY <2>1, <2>2
<1>4. /\ Doit[p][ip[p] + 1] + 1 >= Doit[p][ip[p]] /\ Doit[p][ip[p] + 1] \in Nat /\ Doit[p][ip[p]] \in Nat
      /\ ip[p] \in Nat
  <2>1. ip[p] \in Nat \ {0}
    BY DEF Types
  <2>2. Doit[p] \in [Nat -> Nat]
    BY <1>1 DEF AttendAvec
  <2>3. ip[p] + 1 \in Nat
    BY <2>1
  <2>4. Doit[p][ip[p] + 1] + 1 >= Doit[p][ip[p]]
    BY <1>1 DEF AttendAvec
  <2> QED BY <2>1, <2>2, <2>3, <2>4
<1>5. ip'[p] = ip[p] + 1 /\ \A r \in P!Pids : r # p => ip'[r] = ip[r]
  BY <1>1 DEF Types
<1>6. CASE UNCHANGED etat /\ P!Fils(p) = {}
  <2>1. \A r \in P!Pids : P!Fils(r)' = P!Fils(r)
    BY <1>1, <1>6 DEF P!Fils
  <2>2. Sursis'
    <3> SUFFICES ASSUME NEW r \in P!Pids, etat[r] = "vif" PROVE Cardinality(P!Fils(r)') <= Doit[r][ip'[r]]
      BY <1>3, <1>6 DEF Sursis
    <3>1. CASE r = p
      BY <3>1, <2>1, <1>4, <1>5, <1>6, FS_EmptySet
    <3>2. CASE r # p
      BY <3>2, <2>1, <1>5 DEF Sursis
    <3> QED BY <3>1, <3>2
  <2>3. Orphelins'
    BY <1>1, <1>6 DEF Orphelins, P!Termine
  <2> QED BY <2>2, <2>3
<1>7. CASE \E q \in P!Pids : pere[q] = p /\ etat[q] = "zombie" /\ etat' = [etat EXCEPT ![q] = "fini"]
  <2>0. PICK q \in P!Pids : pere[q] = p /\ etat[q] = "zombie" /\ etat' = [etat EXCEPT ![q] = "fini"]
    BY <1>7
  <2>1. etat'[q] = "fini" /\ \A r \in P!Pids : r # q => etat'[r] = etat[r]
    BY <2>0 DEF Types
  <2>2. P!Fils(p)' = P!Fils(p) \ {q} /\ q \in P!Fils(p)
    BY <2>0, <2>1, <1>1 DEF P!Fils
  <2>3. Cardinality(P!Fils(p)') = Cardinality(P!Fils(p)) - 1
    BY <2>2, FilsFinis, FS_RemoveElement
  <2>4. ASSUME NEW r \in P!Pids, r # p PROVE P!Fils(r)' = P!Fils(r)
    BY <2>0, <2>1, <2>4, <1>1 DEF P!Fils
  <2>5. Sursis'
    <3> SUFFICES ASSUME NEW r \in P!Pids, etat'[r] = "vif" PROVE Cardinality(P!Fils(r)') <= Doit[r][ip'[r]]
      BY <1>3 DEF Sursis
    <3>1. etat[r] = "vif"
      BY <2>1, <2>0
    <3>2. CASE r = p
      <4>1. Cardinality(P!Fils(p)) <= Doit[p][ip[p]] /\ Cardinality(P!Fils(p)) \in Nat
        BY <1>1, FilsFinis DEF Sursis
      <4> QED BY <3>2, <4>1, <2>3, <1>4, <1>5
    <3>3. CASE r # p
      BY <3>1, <3>3, <2>4, <1>5 DEF Sursis
    <3> QED BY <3>2, <3>3
  <2>6. Orphelins'
    <3> SUFFICES ASSUME NEW r \in P!Pids, pere[r] # 0, P!Termine(pere[r])' PROVE etat'[r] = "fini"
      BY <1>1 DEF Orphelins
    <3>0. pere[r] \in P!Pids
      BY Pids0 DEF Places
    <3>1. P!Termine(pere[r])
      BY <3>0, <2>0, <2>1, <1>1 DEF P!Termine
    <3>2. etat[r] = "fini"
      BY <3>1 DEF Orphelins
    <3> QED BY <3>2, <2>1
  <2> QED BY <2>5, <2>6
<1> QED BY <1>2, <1>6, <1>7

(* The other steps leave the sons as they are.                           *)
LEMMA SursisCalme ==
  ASSUME Bien, Types, Places, AttendAvec(Doit), Sursis, Orphelins, NEW p \in P!Pids, Calme(p)
  PROVE  Sursis' /\ Orphelins'
<1>1. UNCHANGED <<prog, etat, pere>> /\ etat[p] = "vif" /\ p \in 1 .. L
  BY CalmeOK DEF Places
<1>2. Doit' = Doit
  BY <1>1 DEF Doit
<1>3. \A r : P!Fils(r)' = P!Fils(r)
  BY <1>1 DEF P!Fils
<1>4. Orphelins'
  BY <1>1 DEF Orphelins, P!Termine
<1>5. ip \in [P!Pids -> Nat \ {0}] /\ Doit[p] \in [Nat -> Nat] /\ Lg(p) \in Nat
  BY <1>1 DEF Types, AttendAvec, Bien
<1> HIDE DEF P!Pids
<1>6. \/ ip'[p] = ip[p]
      \/ ip'[p] \in Nat /\ Doit[p][ip'[p]] >= Doit[p][ip[p]]
      \/ Doit[p][ip[p]] = 0 /\ ip'[p] \in Nat
  <2>1. CASE ip' = ip
    BY <2>1
  <2>2. CASE ip[p] \in 1 .. Lg(p) /\ Monte(p) /\ Op(p, ip[p]) \notin {"fork", "wait", "waitpid", "statut"}
    <3>1. ip'[p] = ip[p] + 1
      BY <2>2, <1>5 DEF Monte
    <3>2. Doit[p][ip[p] + 1] >= Doit[p][ip[p]]
      BY <2>2, <1>1 DEF AttendAvec
    <3> QED BY <3>1, <3>2, <1>5
  <2>3. CASE ip[p] \in 1 .. Lg(p) /\ Op(p, ip[p]) = "retour"
    BY <2>3, <1>1 DEF AttendAvec
  <2>4. CASE ip[p] \in 1 .. Lg(p) /\ ip' = [ip EXCEPT ![p] = Lg(p) + 1] /\ Op(p, ip[p]) = "lit"
    <3>1. Doit[p][ip[p]] = 0
      BY <2>4, <1>1 DEF AttendAvec
    <3> QED BY <3>1, <2>4, <1>5
  <2> QED BY <2>1, <2>2, <2>3, <2>4, CalmeOK
<1>7. \A r \in P!Pids : r # p => ip'[r] = ip[r]
  BY CalmeOK, <1>5 DEF Monte
<1>8. Sursis'
  <2> SUFFICES ASSUME NEW r \in P!Pids, etat[r] = "vif" PROVE Cardinality(P!Fils(r)) <= Doit[r][ip'[r]]
    BY <1>1, <1>2, <1>3 DEF Sursis
  <2>1. Cardinality(P!Fils(r)) <= Doit[r][ip[r]] /\ Cardinality(P!Fils(r)) \in Nat
    BY FilsFinis DEF Sursis
  <2>2. CASE r = p
    <3>1. ip'[p] \in Nat => Doit[p][ip'[p]] \in Nat
      BY <1>5
    <3>2. Doit[p][ip[p]] \in Nat
      BY <1>5
    <3> QED BY <2>1, <2>2, <3>1, <3>2, <1>6
  <2>3. CASE r # p
    BY <2>1, <2>3, <1>7
  <2> QED BY <2>2, <2>3
<1> QED BY <1>4, <1>8

LEMMA Attend_ex2 ==
  ASSUME prog \in {P!ex2, P!fils1_fils2}
  PROVE  \E d : AttendAvec(d)
<1> DEFINE d == [p \in 1 .. L |-> [k \in Nat |-> IF p = 1 THEN (IF k = 3 THEN 2 ELSE IF k \in {2, 4, 5} THEN 1 ELSE 0)
                                                 ELSE IF p \in {2, 3} /\ k = 3 THEN 1 ELSE 0]]
<1>1. L = 5 /\ Lg(1) = 6 /\ Lg(2) = 4 /\ Lg(3) = 4 /\ Lg(4) = 1 /\ Lg(5) = 1
  BY Table_ex2
<1>2. \A p \in 1 .. L : p = 1 \/ p = 2 \/ p = 3 \/ p = 4 \/ p = 5
  BY <1>1
<1>3. \A p \in 1 .. L : \A k \in 1 .. Lg(p) : k = 1 \/ k = 2 \/ k = 3 \/ k = 4 \/ k = 5 \/ k = 6
  BY <1>1, <1>2
<1>4. d \in [1 .. L -> [Nat -> Nat]]
  OBVIOUS
<1>5. \A p \in 1 .. L : d[p][Lg(p) + 1] = 0
  BY <1>1, <1>2
<1>6. ASSUME NEW p \in 1 .. L, NEW k \in 1 .. Lg(p)
      PROVE  /\ Op(p, k) # "retour"
             /\ Op(p, k) = "fork" => d[p][k + 1] >= d[p][k] + 1
             /\ Op(p, k) \in {"wait", "waitpid", "statut"} => d[p][k + 1] + 1 >= d[p][k]
             /\ Op(p, k) = "lit" => d[p][k] = 0
             /\ Op(p, k) \notin {"fork", "wait", "waitpid", "statut"} => d[p][k + 1] >= d[p][k]
  BY <1>1, <1>2, <1>3, Table_ex2
<1>7. ASSUME NEW p \in 1 .. L, NEW k \in 1 .. Lg(p), Op(p, k) \in {"waitpid", "statut"}
      PROVE  \E j \in 1 .. k - 1 : Op(p, j) = "fork" /\ Ar(p, j) = Ar(p, k)
  <2>1. p = 1 /\ (k = 3 \/ k = 5)
    BY <1>1, <1>2, <1>3, <1>7, Table_ex2
  <2>2. 1 \in 1 .. 2 /\ 2 \in 1 .. 4 /\ 3 - 1 = 2 /\ 5 - 1 = 4
    OBVIOUS
  <2> QED BY <2>1, <2>2, Table_ex2
<1> HIDE DEF d
<1>8. AttendAvec(d)
  BY <1>4, <1>5, <1>6, <1>7 DEF AttendAvec
<1> QED BY <1>8

LEMMA Attend_ex2c ==
  ASSUME prog = P!ex2c
  PROVE  \E d : AttendAvec(d)
<1> DEFINE d == [p \in 1 .. L |-> [k \in Nat |-> IF p = 1 THEN (IF k = 3 THEN 2 ELSE IF k \in {2, 4} THEN 1 ELSE 0)
                                                 ELSE IF p \in {2, 3} /\ k \in {2, 3} THEN 1 ELSE 0]]
<1>1. L = 5 /\ Lg(1) = 4 /\ Lg(2) = 3 /\ Lg(3) = 3 /\ Lg(4) = 1 /\ Lg(5) = 1
  BY Table_ex2c
<1>2. \A p \in 1 .. L : p = 1 \/ p = 2 \/ p = 3 \/ p = 4 \/ p = 5
  BY <1>1
<1>3. \A p \in 1 .. L : \A k \in 1 .. Lg(p) : k = 1 \/ k = 2 \/ k = 3 \/ k = 4
  BY <1>1, <1>2
<1>4. d \in [1 .. L -> [Nat -> Nat]]
  OBVIOUS
<1>5. \A p \in 1 .. L : d[p][Lg(p) + 1] = 0
  BY <1>1, <1>2
<1>6. ASSUME NEW p \in 1 .. L, NEW k \in 1 .. Lg(p)
      PROVE  /\ Op(p, k) \notin {"retour", "waitpid", "statut"}
             /\ Op(p, k) = "fork" => d[p][k + 1] >= d[p][k] + 1
             /\ Op(p, k) \in {"wait", "waitpid", "statut"} => d[p][k + 1] + 1 >= d[p][k]
             /\ Op(p, k) = "lit" => d[p][k] = 0
             /\ Op(p, k) \notin {"fork", "wait", "waitpid", "statut"} => d[p][k + 1] >= d[p][k]
  BY <1>1, <1>2, <1>3, Table_ex2c
<1> HIDE DEF d
<1>8. AttendAvec(d)
  BY <1>4, <1>5, <1>6 DEF AttendAvec
<1> QED BY <1>8

LEMMA Attend_ex1c ==
  ASSUME prog = P!ex1c
  PROVE  \E d : AttendAvec(d)
<1> DEFINE d == [p \in 1 .. L |-> [k \in Nat |-> IF p <= N /\ k = 3 THEN 1 ELSE 0]]
<1>1. L = N + 1 /\ Lg(N + 1) = 0 /\ \A p \in 1 .. N : Lg(p) = 4
  BY Table_ex1c
<1>2. \A p \in 1 .. L : p \in 1 .. N \/ p = N + 1
  BY <1>1, Nombre
<1>3. \A p \in 1 .. L : \A k \in 1 .. Lg(p) : p \in 1 .. N /\ (k = 1 \/ k = 2 \/ k = 3 \/ k = 4)
  BY <1>1, <1>2
<1>4. d \in [1 .. L -> [Nat -> Nat]]
  OBVIOUS
<1>5. \A p \in 1 .. L : d[p][Lg(p) + 1] = 0
  BY <1>1, <1>2, Nombre
<1>6. ASSUME NEW p \in 1 .. L, NEW k \in 1 .. Lg(p)
      PROVE  /\ Op(p, k) \notin {"retour", "waitpid", "statut"}
             /\ Op(p, k) = "fork" => d[p][k + 1] >= d[p][k] + 1
             /\ Op(p, k) \in {"wait", "waitpid", "statut"} => d[p][k + 1] + 1 >= d[p][k]
             /\ Op(p, k) = "lit" => d[p][k] = 0
             /\ Op(p, k) \notin {"fork", "wait", "waitpid", "statut"} => d[p][k + 1] >= d[p][k]
  BY <1>1, <1>2, <1>3, Table_ex1c, Nombre
<1> HIDE DEF d
<1>8. AttendAvec(d)
  BY <1>4, <1>5, <1>6 DEF AttendAvec
<1> QED BY <1>8

LEMMA Attend_chaine_val ==
  ASSUME prog = P!chaine_val
  PROVE  \E d : AttendAvec(d)
<1> DEFINE d == [p \in 1 .. L |-> [k \in Nat |-> IF p <= N /\ k = 2 THEN 1 ELSE 0]]
<1>1. L = N + 1 /\ Lg(1) = 3 /\ Lg(N + 1) = 1 /\ \A p \in 2 .. N : Lg(p) = 2
  BY Table_chaine_val
<1>2. \A p \in 1 .. L : p = 1 \/ p \in 2 .. N \/ p = N + 1
  BY <1>1, Nombre
<1>3. \A p \in 1 .. L : \A k \in 1 .. Lg(p) : k = 1 \/ k = 2 \/ k = 3
  BY <1>1, <1>2
<1>4. d \in [1 .. L -> [Nat -> Nat]]
  OBVIOUS
<1>5. \A p \in 1 .. L : d[p][Lg(p) + 1] = 0
  BY <1>1, <1>2, Nombre
<1>6. ASSUME NEW p \in 1 .. L, NEW k \in 1 .. Lg(p)
      PROVE  /\ Op(p, k) \notin {"retour", "waitpid", "wait", "lit"}
             /\ Op(p, k) = "fork" => d[p][k + 1] >= d[p][k] + 1
             /\ Op(p, k) = "statut" => d[p][k + 1] + 1 >= d[p][k] /\ k = 2 /\ Op(p, 1) = "fork" /\ Ar(p, 1) = Ar(p, 2)
             /\ Op(p, k) \notin {"fork", "wait", "waitpid", "statut"} => d[p][k + 1] >= d[p][k]
  <2>1. CASE p = 1
    BY <2>1, <1>1, <1>3, Table_chaine_val, Nombre
  <2>2. CASE p \in 2 .. N
    BY <2>2, <1>1, <1>3, Table_chaine_val, Nombre
  <2>3. CASE p = N + 1
    BY <2>3, <1>1, <1>3, Table_chaine_val, Nombre
  <2> QED BY <2>1, <2>2, <2>3, <1>2
<1>7. ASSUME NEW p \in 1 .. L, NEW k \in 1 .. Lg(p), Op(p, k) \in {"waitpid", "statut"}
      PROVE  \E j \in 1 .. k - 1 : Op(p, j) = "fork" /\ Ar(p, j) = Ar(p, k)
  <2>1. Op(p, k) = "statut"
    BY <1>6, <1>7
  <2>2. k = 2 /\ Op(p, 1) = "fork" /\ Ar(p, 1) = Ar(p, 2)
    BY <1>6, <2>1
  <2>3. 1 \in 1 .. k - 1
    BY <2>2
  <2> QED BY <2>2, <2>3
<1> HIDE DEF d
<1>8. AttendAvec(d)
  BY <1>4, <1>5, <1>6, <1>7 DEF AttendAvec
<1> QED BY <1>8

LEMMA Attend_nfork ==
  ASSUME prog = P!nfork
  PROVE  \E d : AttendAvec(d)
<1> DEFINE d == [p \in 1 .. L |-> [k \in Nat |-> IF p = 1 /\ k \in 1 .. N + 1 THEN k - 1
                                                 ELSE IF p = 1 /\ k \in N + 1 .. 2 * N + 1 THEN 2 * N + 1 - k ELSE 0]]
<1>1. L = N + 1 /\ Lg(1) = 2 * N + 1 /\ \A p \in 2 .. N + 1 : Lg(p) = 1
  BY Table_nfork
<1>2. \A p \in 1 .. L : p = 1 \/ p \in 2 .. N + 1
  BY <1>1, Nombre
<1>3. \A k \in 1 .. Lg(1) : k \in 1 .. N \/ k \in N + 1 .. 2 * N \/ k = 2 * N + 1
  BY <1>1, Nombre
<1>4. d \in [1 .. L -> [Nat -> Nat]]
  <2>1. ASSUME NEW k \in Nat PROVE (k \in 1 .. N + 1 => k - 1 \in Nat) /\ (k \in N + 1 .. 2 * N + 1 => 2 * N + 1 - k \in Nat)
    BY Nombre
  <2> QED BY <2>1
<1>5. \A p \in 1 .. L : d[p][Lg(p) + 1] = 0
  BY <1>1, <1>2, Nombre
<1>6. ASSUME NEW p \in 1 .. L, NEW k \in 1 .. Lg(p)
      PROVE  /\ Op(p, k) \notin {"retour", "waitpid", "statut", "lit"}
             /\ Op(p, k) = "fork" => d[p][k + 1] >= d[p][k] + 1
             /\ Op(p, k) = "wait" => d[p][k + 1] + 1 >= d[p][k]
             /\ Op(p, k) \notin {"fork", "wait", "waitpid", "statut"} => d[p][k + 1] >= d[p][k]
  <2>1. CASE p = 1 /\ k \in 1 .. N
    <3>1. d[1][k] = k - 1 /\ d[1][k + 1] = k
      BY <2>1, <1>1, Nombre
    <3> QED BY <2>1, <3>1, Table_nfork, Nombre
  <2>2. CASE p = 1 /\ k \in N + 1 .. 2 * N
    <3>1. d[1][k] = 2 * N + 1 - k /\ d[1][k + 1] = 2 * N - k
      BY <2>2, <1>1, Nombre
    <3> QED BY <2>2, <3>1, Table_nfork, Nombre
  <2>3. CASE p = 1 /\ k = 2 * N + 1
    <3>1. d[1][k] = 0 /\ d[1][k + 1] = 0
      BY <2>3, <1>1, Nombre
    <3> QED BY <2>3, <3>1, Table_nfork, Nombre
  <2>4. CASE p \in 2 .. N + 1
    <3>1. d[p][k] = 0 /\ d[p][k + 1] = 0 /\ k = 1
      BY <2>4, <1>1, Nombre
    <3> QED BY <2>4, <3>1, Table_nfork, Nombre
  <2> QED BY <2>1, <2>2, <2>3, <2>4, <1>2, <1>3
<1> HIDE DEF d
<1>8. AttendAvec(d)
  BY <1>4, <1>5, <1>6 DEF AttendAvec
<1> QED BY <1>8

LEMMA Attend_memoire ==
  ASSUME prog \in {P!memoire, P!addition(<<>>), P!addition(<< 5 >>)}
  PROVE  \E d : AttendAvec(d)
<1> DEFINE d == [p \in 1 .. L |-> [k \in Nat |-> IF p = 1 /\ k \in 1 .. N + 1 THEN k - 1
                                                 ELSE IF p = 1 /\ k \in N + 1 .. 2 * N + 1 THEN 2 * N + 1 - k ELSE 0]]
<1>1. L = N + 1 /\ Lg(1) = 2 * N + 2 /\ \A p \in 2 .. N + 1 : Lg(p) = 2
  BY Table_memoire
<1>2. \A p \in 1 .. L : p = 1 \/ p \in 2 .. N + 1
  BY <1>1, Nombre
<1>3. \A k \in 1 .. Lg(1) : k \in 1 .. N \/ k \in N + 1 .. 2 * N \/ k = 2 * N + 1 \/ k = 2 * N + 2
  BY <1>1, Nombre
<1>4. d \in [1 .. L -> [Nat -> Nat]]
  <2>1. ASSUME NEW k \in Nat PROVE (k \in 1 .. N + 1 => k - 1 \in Nat) /\ (k \in N + 1 .. 2 * N + 1 => 2 * N + 1 - k \in Nat)
    BY Nombre
  <2> QED BY <2>1
<1>5. \A p \in 1 .. L : d[p][Lg(p) + 1] = 0
  BY <1>1, <1>2, Nombre
<1>6. ASSUME NEW p \in 1 .. L, NEW k \in 1 .. Lg(p)
      PROVE  /\ Op(p, k) \notin {"retour", "wait", "statut", "lit"}
             /\ Op(p, k) = "fork" => d[p][k + 1] >= d[p][k] + 1
             /\ Op(p, k) = "waitpid" => d[p][k + 1] + 1 >= d[p][k] /\ p = 1 /\ k \in N + 1 .. 2 * N
             /\ Op(p, k) \notin {"fork", "wait", "waitpid", "statut"} => d[p][k + 1] >= d[p][k]
  <2>1. CASE p = 1 /\ k \in 1 .. N
    <3>1. d[1][k] = k - 1 /\ d[1][k + 1] = k
      BY <2>1, <1>1, Nombre
    <3> QED BY <2>1, <3>1, Table_memoire, Nombre
  <2>2. CASE p = 1 /\ k \in N + 1 .. 2 * N
    <3>1. d[1][k] = 2 * N + 1 - k /\ d[1][k + 1] = 2 * N - k
      BY <2>2, <1>1, Nombre
    <3>2. Op(1, k) = "waitpid"
      BY <2>2, Table_memoire
    <3> HIDE DEF d
    <3> QED BY <2>2, <3>1, <3>2, Nombre
  <2>3. CASE p = 1 /\ (k = 2 * N + 1 \/ k = 2 * N + 2)
    <3>1. d[1][k] = 0 /\ d[1][k + 1] = 0
      BY <2>3, <1>1, Nombre
    <3>2. Op(1, k) \in {"somme", "dit"}
      BY <2>3, Table_memoire
    <3> HIDE DEF d
    <3> QED BY <2>3, <3>1, <3>2
  <2>4. CASE p \in 2 .. N + 1
    <3>1. d[p][k] = 0 /\ d[p][k + 1] = 0 /\ (k = 1 \/ k = 2)
      BY <2>4, <1>1, Nombre
    <3> QED BY <2>4, <3>1, Table_memoire, Nombre
  <2> QED BY <2>1, <2>2, <2>3, <2>4, <1>2, <1>3
<1>7. ASSUME NEW p \in 1 .. L, NEW k \in 1 .. Lg(p), Op(p, k) \in {"waitpid", "statut"}
      PROVE  \E j \in 1 .. k - 1 : Op(p, j) = "fork" /\ Ar(p, j) = Ar(p, k)
  <2>1. p = 1 /\ k \in N + 1 .. 2 * N
    BY <1>6, <1>7
  <2>2. k - N \in 1 .. N /\ k - N \in 1 .. k - 1 /\ (k - N) + 1 = k - N + 1
    BY <2>1, Nombre
  <2> QED BY <2>1, <2>2, Table_memoire
<1> HIDE DEF d
<1>8. AttendAvec(d)
  BY <1>4, <1>5, <1>6, <1>7 DEF AttendAvec
<1> QED BY <1>8

LEMMA Attend_ex1 ==
  ASSUME prog = P!ex1
  PROVE  \E d : AttendAvec(d)
<1> DEFINE d == [p \in 1 .. L |-> [k \in Nat |-> IF p = 1 /\ \E q \in 2 .. N + 1 : k = 2 * q THEN 1 ELSE 0]]
<1>1. L = N + 1 /\ Lg(1) = 2 * N + 2 /\ \A p \in 2 .. N + 1 : Lg(p) = 2
  BY Table_ex1
<1>2. \A p \in 1 .. L : p = 1 \/ p \in 2 .. N + 1
  BY <1>1, Nombre
<1>4. d \in [1 .. L -> [Nat -> Nat]]
  OBVIOUS
<1>5. \A p \in 1 .. L : d[p][Lg(p) + 1] = 0
  <2>1. 2 * N + 3 \in Nat /\ 3 \in Nat /\ \A q \in 2 .. N + 1 : 2 * N + 3 # 2 * q
    BY Nombre
  <2>2. 1 \in 1 .. L /\ d[1][2 * N + 3] = 0
    BY <1>1, <2>1, Nombre
  <2>3. \A p \in 2 .. N + 1 : d[p][3] = 0
    BY <1>1, Nombre
  <2> QED BY <1>1, <1>2, <2>2, <2>3, Nombre
<1>6. ASSUME NEW p \in 1 .. L, NEW k \in 1 .. Lg(p)
      PROVE  /\ Op(p, k) \notin {"retour", "waitpid", "statut", "lit"}
             /\ Op(p, k) = "fork" => d[p][k + 1] >= d[p][k] + 1
             /\ Op(p, k) = "wait" => d[p][k + 1] + 1 >= d[p][k]
             /\ Op(p, k) \notin {"fork", "wait", "waitpid", "statut"} => d[p][k + 1] >= d[p][k]
  <2>1. CASE p = 1
    <3>0. Lg(1) = 2 * N + 2 /\ k \in Nat /\ k + 1 \in Nat
      BY <1>1, <2>1, Nombre
    <3>2. PICK q \in Nat : k = 2 * q \/ k = 2 * q + 1
      BY <3>0, Parite
    <3>3. k = 1 \/ k = 2 \/ (q + 1 \in 2 .. N + 1 /\ k = 2 * (q + 1) - 1) \/ (q \in 2 .. N + 1 /\ k = 2 * q)
      BY <2>1, <3>0, <3>2, <1>1, Nombre
    <3>4. CASE k = 1 \/ k = 2
      <4>1. \A r \in 2 .. N + 1 : k # 2 * r /\ k + 1 # 2 * r
        BY <3>4, Nombre
      <4>2. d[1][k] = 0 /\ d[1][k + 1] = 0
        BY <4>1, <3>0, <1>1, Nombre
      <4> QED BY <2>1, <3>4, <4>2, Table_ex1
    <3>5. CASE q + 1 \in 2 .. N + 1 /\ k = 2 * (q + 1) - 1
      <4>1. \A r \in 2 .. N + 1 : k # 2 * r
        BY <3>5, Nombre
      <4>2. k + 1 = 2 * (q + 1)
        BY <3>5, Nombre
      <4>3. d[1][k] = 0 /\ d[1][k + 1] = 1
        BY <4>1, <4>2, <3>0, <3>5, <1>1, Nombre
      <4> QED BY <2>1, <3>5, <4>3, Table_ex1
    <3>6. CASE q \in 2 .. N + 1 /\ k = 2 * q
      <4>1. \A r \in 2 .. N + 1 : k + 1 # 2 * r
        BY <3>6, Nombre
      <4>2. d[1][k] = 1 /\ d[1][k + 1] = 0
        BY <4>1, <3>0, <3>6, <1>1, Nombre
      <4> QED BY <2>1, <3>6, <4>2, Table_ex1
    <3> HIDE DEF d
    <3> QED BY <3>3, <3>4, <3>5, <3>6
  <2>2. CASE p \in 2 .. N + 1
    <3>1. d[p][k] = 0 /\ d[p][k + 1] = 0 /\ (k = 1 \/ k = 2)
      BY <2>2, <1>1, Nombre
    <3> QED BY <2>2, <3>1, Table_ex1, Nombre
  <2> HIDE DEF d
  <2> QED BY <2>1, <2>2, <1>2
<1> HIDE DEF d
<1>8. AttendAvec(d)
  BY <1>4, <1>5, <1>6 DEF AttendAvec
<1> QED BY <1>8

LEMMA Attend_datagramme ==
  ASSUME prog = P!datagramme
  PROVE  \E d : AttendAvec(d)
<1> DEFINE d == [p \in 1 .. L |-> [k \in Nat |-> IF p = 1 /\ k \in 1 .. 2 * N + 1 THEN k \div 2
                                                 ELSE IF p = 1 /\ k \in 2 * N + 1 .. 3 * N + 1 THEN 3 * N + 1 - k ELSE 0]]
<1>1. L = N + 1 /\ Lg(1) = 3 * N + 1 /\ \A p \in 2 .. N + 1 : Lg(p) = 2
  BY Table_datagramme
<1>2. \A p \in 1 .. L : p = 1 \/ p \in 2 .. N + 1
  BY <1>1, Nombre
<1>4. d \in [1 .. L -> [Nat -> Nat]]
  <2>1. ASSUME NEW k \in Nat PROVE k \div 2 \in Nat /\ (k \in 2 * N + 1 .. 3 * N + 1 => 3 * N + 1 - k \in Nat)
    BY Nombre
  <2> QED BY <2>1
<1>5. \A p \in 1 .. L : d[p][Lg(p) + 1] = 0
  BY <1>1, <1>2, Nombre
<1>6. ASSUME NEW p \in 1 .. L, NEW k \in 1 .. Lg(p)
      PROVE  /\ Op(p, k) \notin {"retour", "wait", "statut", "lit"}
             /\ Op(p, k) = "fork" => d[p][k + 1] >= d[p][k] + 1
             /\ Op(p, k) = "waitpid" => d[p][k + 1] + 1 >= d[p][k] /\ p = 1 /\ k \in 2 * N + 1 .. 3 * N
             /\ Op(p, k) \notin {"fork", "wait", "waitpid", "statut"} => d[p][k + 1] >= d[p][k]
  <2>1. CASE p = 1
    <3>0. Lg(1) = 3 * N + 1 /\ k \in Nat /\ k + 1 \in Nat
      BY <1>1, <2>1, Nombre
    <3>2. PICK q \in Nat : k = 2 * q \/ k = 2 * q + 1
      BY <3>0, Parite
    <3>3. \/ k = 3 * N + 1 \/ k \in 2 * N + 1 .. 3 * N
          \/ q + 2 \in 2 .. N + 1 /\ k = 2 * (q + 2) - 3
          \/ q + 1 \in 2 .. N + 1 /\ k = 2 * (q + 1) - 2
      BY <2>1, <3>0, <3>2, <1>1, Nombre
    <3>4. CASE k = 3 * N + 1
      <4>1. d[1][k] = 0 /\ d[1][k + 1] = 0
        BY <3>4, <1>1, Nombre
      <4> QED BY <2>1, <3>4, <4>1, Table_datagramme
    <3>5. CASE k \in 2 * N + 1 .. 3 * N
      <4>1. d[1][k] = 3 * N + 1 - k
        <5>1. CASE k = 2 * N + 1
          <6>1. k \div 2 = N /\ 3 * N + 1 - k = N
            BY <5>1, Nombre
          <6> QED BY <5>1, <6>1, <1>1, Nombre
        <5>2. CASE k # 2 * N + 1
          BY <5>2, <3>5, <1>1, Nombre
        <5> QED BY <5>1, <5>2
      <4>2. d[1][k + 1] = 3 * N - k
        BY <3>5, <1>1, Nombre
      <4>3. Op(1, k) = "waitpid"
        BY <3>5, Table_datagramme
      <4> HIDE DEF d
      <4> QED BY <2>1, <3>5, <4>1, <4>2, <4>3, Nombre
    <3>6. CASE q + 2 \in 2 .. N + 1 /\ k = 2 * (q + 2) - 3
      <4>1. k \div 2 = q /\ (k + 1) \div 2 = q + 1 /\ k \in 1 .. 2 * N + 1 /\ k + 1 \in 1 .. 2 * N + 1
        BY <3>6, Nombre
      <4>2. d[1][k] = q /\ d[1][k + 1] = q + 1
        BY <4>1, <3>0, <1>1, Nombre
      <4> QED BY <2>1, <3>6, <4>2, Table_datagramme
    <3>7. CASE q + 1 \in 2 .. N + 1 /\ k = 2 * (q + 1) - 2
      <4>1. k \div 2 = q /\ (k + 1) \div 2 = q /\ k \in 1 .. 2 * N + 1 /\ k + 1 \in 1 .. 2 * N + 1
        BY <3>7, Nombre
      <4>2. d[1][k] = q /\ d[1][k + 1] = q
        BY <4>1, <3>0, <1>1, Nombre
      <4> QED BY <2>1, <3>7, <4>2, Table_datagramme
    <3> HIDE DEF d
    <3> QED BY <3>3, <3>4, <3>5, <3>6, <3>7
  <2>2. CASE p \in 2 .. N + 1
    <3>1. d[p][k] = 0 /\ d[p][k + 1] = 0 /\ (k = 1 \/ k = 2)
      BY <2>2, <1>1, Nombre
    <3> QED BY <2>2, <3>1, Table_datagramme, Nombre
  <2> HIDE DEF d
  <2> QED BY <2>1, <2>2, <1>2
<1>7. ASSUME NEW p \in 1 .. L, NEW k \in 1 .. Lg(p), Op(p, k) \in {"waitpid", "statut"}
      PROVE  \E j \in 1 .. k - 1 : Op(p, j) = "fork" /\ Ar(p, j) = Ar(p, k)
  <2>1. p = 1 /\ k \in 2 * N + 1 .. 3 * N
    BY <1>6, <1>7
  <2> DEFINE q == k - 2 * N + 1
  <2>2. q \in 2 .. N + 1 /\ 2 * q - 3 \in 1 .. k - 1
    BY <2>1, Nombre
  <2>3. Op(1, 2 * q - 3) = "fork" /\ Ar(1, 2 * q - 3) = q /\ Ar(1, k) = q
    BY <2>1, <2>2, Table_datagramme
  <2> QED BY <2>1, <2>2, <2>3
<1> HIDE DEF d
<1>8. AttendAvec(d)
  BY <1>4, <1>5, <1>6, <1>7 DEF AttendAvec
<1> QED BY <1>8

(* The names of the programs.                                            *)
LEMMA Noms ==
  /\ P!ex3.nom = "ex3" /\ P!ex3c.nom = "ex3c" /\ P!mauvaise_methode.nom = "mauvaise" /\ P!p2_p1_p3.nom = "p2"
  /\ P!chaine_kill.nom = "chaine" /\ P!chaine_val.nom = "val" /\ P!taille_fic.nom = "taille" /\ P!ex1.nom = "ex1"
  /\ P!ex1c.nom = "ex1c" /\ P!ex2.nom = "ex2" /\ P!fils1_fils2.nom = "fils1" /\ P!ex2c.nom = "ex2c"
  /\ P!nfork.nom = "nfork" /\ P!addition(<<>>).nom = "addition" /\ P!addition(<< 5 >>).nom = "addition"
  /\ P!memoire.nom = "memoire" /\ P!datagramme.nom = "datagramme" /\ P!posix.nom = "posix" /\ P!libc.nom = "libc"
  /\ P!sem_anonymes.nom = "sem"
<1> USE DEF P!P
<1>1. /\ P!ex3.nom = "ex3" /\ P!ex3c.nom = "ex3c" /\ P!mauvaise_methode.nom = "mauvaise" /\ P!p2_p1_p3.nom = "p2"
      /\ P!chaine_kill.nom = "chaine" /\ P!chaine_val.nom = "val" /\ P!taille_fic.nom = "taille" /\ P!ex1.nom = "ex1"
  BY DEF P!ex3, P!ex3c, P!mauvaise_methode, P!p2_p1_p3, P!chaine_kill, P!chaine_val, P!taille_fic, P!ex1
<1>2. P!ex1c.nom = "ex1c" /\ P!ex2.nom = "ex2" /\ P!fils1_fils2.nom = "fils1" /\ P!ex2c.nom = "ex2c" /\ P!nfork.nom = "nfork"
  BY DEF P!ex1c, P!ex2, P!fils1_fils2, P!ex2c, P!nfork
<1>3. P!addition(<<>>).nom = "addition" /\ P!addition(<< 5 >>).nom = "addition" /\ P!memoire.nom = "memoire"
  BY DEF P!addition, P!memoire
<1>4. P!datagramme.nom = "datagramme" /\ P!posix.nom = "posix" /\ P!libc.nom = "libc" /\ P!sem_anonymes.nom = "sem"
  BY DEF P!datagramme, P!posix, P!libc, P!sem_anonymes
<1> QED BY <1>1, <1>2, <1>3, <1>4

(* The name of a program tells which it is.                              *)
LEMMA ParNom ==
  ASSUME prog \in P!Programmes
  PROVE  /\ prog.nom = "ex3" => prog = P!ex3
         /\ prog.nom = "ex3c" => prog = P!ex3c
         /\ prog.nom = "mauvaise" => prog = P!mauvaise_methode
         /\ prog.nom = "p2" => prog = P!p2_p1_p3
         /\ prog.nom = "chaine" => prog = P!chaine_kill
         /\ prog.nom = "val" => prog = P!chaine_val
         /\ prog.nom = "taille" => prog = P!taille_fic
         /\ prog.nom = "ex1" => prog = P!ex1
         /\ prog.nom = "ex1c" => prog = P!ex1c
         /\ prog.nom \in {"ex2", "fils1"} => prog \in {P!ex2, P!fils1_fils2}
         /\ prog.nom = "ex2c" => prog = P!ex2c
         /\ prog.nom = "nfork" => prog = P!nfork
         /\ prog.nom \in {"addition", "memoire"} => prog \in {P!memoire, P!addition(<<>>), P!addition(<< 5 >>)}
         /\ prog.nom = "datagramme" => prog = P!datagramme
         /\ prog.nom = "posix" => prog = P!posix
         /\ prog.nom = "libc" => prog = P!libc
BY Noms DEF P!Programmes

(* The programs whose fathers wait for all their sons.                   *)
Attend == P!Nom({"ex1", "ex1c", "ex2", "fils1", "ex2c", "nfork", "val", "addition", "memoire", "datagramme"})

(* Each of them has a bound.                                             *)
LEMMA AttendBorne ==
  ASSUME prog \in P!Programmes, Attend
  PROVE  AttendAvec(Doit)
<1>1. \/ prog = P!chaine_val \/ prog = P!ex1 \/ prog = P!ex1c \/ prog \in {P!ex2, P!fils1_fils2} \/ prog = P!ex2c
      \/ prog = P!nfork \/ prog \in {P!memoire, P!addition(<<>>), P!addition(<< 5 >>)} \/ prog = P!datagramme
  BY ParNom DEF Attend, P!Nom
<1>2. \E d : AttendAvec(d)
  BY <1>1, Attend_chaine_val, Attend_ex1, Attend_ex1c, Attend_ex2, Attend_ex2c, Attend_nfork, Attend_memoire,
     Attend_datagramme
<1> QED BY <1>2, DoitOK

(* Every process has the mask that main set before the first fork.       *)
Masques == \A p \in P!Pids : masque[p] = prog.masque

(* The part of the invariant that every program shares.                  *)
Base == Bien /\ Types /\ Places /\ Masques

(* The fathers that wait for all their sons.                             *)
Attendus == Attend => Sursis /\ Orphelins

(* The first state satisfies both.                                       *)
LEMMA BaseInit == P!Init => Base /\ Attendus
<1> SUFFICES ASSUME P!Init PROVE Base /\ Attendus
  OBVIOUS
<1>1. prog \in P!Programmes
  BY DEF P!Init
<1>2. Bien
  BY <1>1, BienTous
<1>3. Masques
  BY DEF P!Init, Masques
<1>4. Attendus
  BY <1>1, <1>2, AttendBorne, SursisInit DEF Attendus
<1> QED BY <1>2, <1>3, <1>4, TypesInit, PlacesInit DEF Base

(* The program never changes.                                            *)
LEMMA BienReste == Bien /\ prog' = prog => Bien'
BY DEF Bien, AppelJuste, L, Lg, Op, Ar, A3

(* No step changes a mask for good: sigsuspend puts it back.             *)
LEMMA MasquesPas ==
  ASSUME Base, NEW p \in P!Pids, P!Pas(p)
  PROVE  Masques' /\ prog' = prog
<1>0. masque \in [P!Pids -> SUBSET P!Deux]
  BY DEF Base, Types
<1>1. CASE P!ForkP(p)
  <2>1. P!Arg(p) \in P!Pids /\ prog' = prog
    BY <1>1, ForkPlaces DEF Base
  <2>2. masque' = [masque EXCEPT ![P!Arg(p)] = masque[p]]
    BY <1>1 DEF P!ForkP
  <2> QED BY <2>1, <2>2, <1>0 DEF Masques, Base
<1>2. CASE P!Exit(p) \/ P!WaitP(p)
  BY <1>2 DEF P!Exit, P!WaitP, P!svars, Masques, Base
<1>3. CASE Calme(p)
  <2>1. prog' = prog
    BY <1>3, CalmeOK DEF Base
  <2>2. masque' = masque
    BY <1>3 DEF Calme, P!KillP, P!PendingP, P!DitP, P!ValeurP, P!LitP, P!RetourP, P!EcritP, P!SemP, P!Delivre, P!svars
  <2> QED BY <2>1, <2>2 DEF Masques, Base
<1> QED BY <1>1, <1>2, <1>3, PasCalme

(* Every step keeps the shared part and the fathers that wait.           *)
LEMMA BasePas ==
  ASSUME Base, Attendus, NEW p \in P!Pids, P!Pas(p)
  PROVE  Base' /\ Attendus'
<1> USE DEF Base
<1>1. Masques' /\ prog' = prog /\ Bien'
  BY MasquesPas, BienReste
<1>2. Attend' = Attend
  BY <1>1 DEF Attend, P!Nom
<1>3. Attend => AttendAvec(Doit)
  BY AttendBorne DEF Types
<1>4. CASE P!ForkP(p)
  BY <1>1, <1>2, <1>3, <1>4, ForkPlaces, TypesFork, SursisFork DEF Attendus
<1>5. CASE P!Exit(p)
  BY <1>1, <1>2, <1>3, <1>5, FiniPlaces, TypesFini, SursisExit DEF Attendus
<1>6. CASE P!WaitP(p)
  BY <1>1, <1>2, <1>3, <1>6, FiniPlaces, TypesFini, SursisWait DEF Attendus
<1>7. CASE Calme(p)
  <2>1. P!Cumul(boite, Len(boite)) \in Nat
    <3>1. boite \in Seq(Nat) /\ Len(boite) \in Nat /\ \A k \in 1 .. Len(boite) : boite[k] \in Nat
      BY SMTT(30) DEF Types
    <3> QED BY <3>1, CumulOK
  <2>2. Types'
    BY <1>7, <2>1, TypesCalme
  <2>3. Places'
    BY <1>7, CalmeOK, QuietOK
  <2> QED BY <1>1, <1>2, <1>3, <1>7, <2>2, <2>3, SursisCalme DEF Attendus
<1> QED BY <1>4, <1>5, <1>6, <1>7, PasCalme

(* So does a step that changes nothing.                                  *)
LEMMA BaseStable ==
  ASSUME Base, Attendus, UNCHANGED P!vars
  PROVE  Base' /\ Attendus'
<1> USE DEF P!vars, P!svars, P!dvars
<1>1. Bien'
  BY BienReste DEF Base
<1>2. Types'
  BY DEF Base, Types
<1>3. Places'
  BY DEF Base, Places, L, Lg, Op, Ar, P!Termine
<1>4. Masques'
  BY DEF Base, Masques
<1>5. Attendus'
  BY DEF Attendus, Attend, P!Nom, Sursis, Orphelins, P!Termine, P!Fils, Doit
<1> QED BY <1>1, <1>2, <1>3, <1>4, <1>5 DEF Base

(* The shared part holds in every state.                                 *)
LEMMA BaseInvariant == P!Spec => [](Base /\ Attendus)
<1>1. P!Init => Base /\ Attendus
  BY BaseInit
<1>2. Base /\ Attendus /\ [P!Next]_(P!vars) => (Base /\ Attendus)'
  BY BasePas, BaseStable DEF P!Next
<1> QED BY <1>1, <1>2, PTL DEF P!Spec

(* Who has ended has waited for its sons, and these for theirs.          *)
LEMMA FilsAvantOK == Base /\ Attendus => P!FilsAvant
<1> SUFFICES ASSUME Base, Attendus, Attend, NEW p \in P!Pids, NEW q \in P!Pids, pere[q] = p, P!Termine(p)
             PROVE  P!Termine(q)
  BY DEF P!FilsAvant, Attend
<1>1. p # 0
  BY Pids0 DEF Base
<1>2. etat[q] = "fini"
  BY <1>1 DEF Attendus, Orphelins
<1> QED BY <1>2 DEF P!Termine

(* The signals: who has sent one, and what a call that waits for one tells.*)
Emis(q, s) == \E r \in 1 .. L : \E k \in 1 .. Lg(r) : k < ip[r] /\ Op(r, k) = "kill" /\ Ar(r, k) = q /\ A3(r, k) = s

(* The programs whose processes never go back and never skip calls.      *)
SansBoucle == \A p \in 1 .. L : \A k \in 1 .. Lg(p) : Op(p, k) \notin {"retour", "lit"}

(* Each signal is sent to each process by one call at most.              *)
Uniques == \A p, r \in 1 .. L : \A k \in 1 .. Lg(p), j \in 1 .. Lg(r) :
             Op(p, k) = "kill" /\ Op(r, j) = "kill" /\ Ar(p, k) = Ar(r, j) /\ A3(p, k) = A3(r, j) => p = r /\ k = j

(* The signal was sent, and it was handled.                              *)
Recu(p, s) == Emis(p, s) /\ s \notin pendants[p]

(* A pending signal was sent.                                            *)
SEmis == \A q \in P!Pids, s \in P!Deux : s \in pendants[q] => Emis(q, s)

(* Who has passed a sigsuspend has handled one of its signals.           *)
SSuspend == \A p \in 1 .. L : \A k \in 1 .. Lg(p) :
              k < ip[p] /\ Op(p, k) = "suspend" => \E s \in Ar(p, k) : Recu(p, s)

(* Two calls of sigsuspend have handled two different signals.           *)
SDeux == \A p \in 1 .. L : \A k, j \in 1 .. Lg(p) :
           k < j /\ j < ip[p] /\ Op(p, k) = "suspend" /\ Op(p, j) = "suspend" =>
             \E s \in Ar(p, k), t \in Ar(p, j) : s # t /\ Recu(p, s) /\ Recu(p, t)

(* Who has passed a wait on sigpending was sent all its signals.         *)
SPending == \A p \in 1 .. L : \A k \in 1 .. Lg(p) :
              k < ip[p] /\ Op(p, k) = "pending" => \A s \in Ar(p, k) : Emis(p, s)

(* Who has passed a display has displayed.                               *)
SDit == \A p \in 1 .. L : \A k \in 1 .. Lg(p) : k < ip[p] /\ Op(p, k) = "dit" => P!Affiche(p)

(* The invariant of the programs where each signal is sent once.         *)
Signaux == SEmis /\ SSuspend /\ SDeux /\ SPending /\ SDit

(* The programs that it is about.                                        *)
Appelle == SansBoucle /\ Uniques

(* Without loops a process only goes forward.                              *)
LEMMA Avance ==
  ASSUME Base, SansBoucle, NEW p \in P!Pids, P!Pas(p)
  PROVE  /\ p \in 1 .. L /\ etat[p] = "vif" /\ prog' = prog /\ ip \in [P!Pids -> Nat \ {0}] /\ 1 .. L \subseteq P!Pids
         /\ ip[p] \in 1 .. Lg(p) + 1 /\ Lg(p) \in Nat
         /\ ip' = ip \/ (ip[p] \in 1 .. Lg(p) /\ Monte(p))
<1> USE DEF Base
<1>0. 1 .. L \subseteq P!Pids /\ ip \in [P!Pids -> Nat \ {0}]
  BY Pids0 DEF Types
<1>1. CASE P!ForkP(p)
  <2>1. P!A(p, "fork") /\ P!Suite(p)
    BY <1>1 DEF P!ForkP
  <2> QED BY <1>0, <2>1, <1>1, ForkPlaces, AuPas DEF Monte, P!Suite, Places
<1>2. CASE P!Exit(p)
  <2>1. etat[p] = "vif" /\ UNCHANGED <<prog, ip>>
    BY <1>2 DEF P!Exit
  <2> QED BY <1>0, <2>1 DEF Places, Bien
<1>3. CASE P!WaitP(p)
  <2>1. (P!A(p, "wait") \/ P!A(p, "waitpid") \/ P!A(p, "statut")) /\ P!Suite(p) /\ prog' = prog
    BY <1>3 DEF P!WaitP
  <2> QED BY <1>0, <2>1, AuPas DEF Monte, P!Suite, Places
<1>4. CASE Calme(p)
  <2>1. etat[p] = "vif" /\ prog' = prog
    BY <1>4, CalmeOK
  <2>2. p \in 1 .. L /\ ip[p] \in 1 .. Lg(p) + 1 /\ Lg(p) \in Nat
    BY <2>1 DEF Places, Bien
  <2> QED BY <1>0, <2>1, <2>2, <1>4, CalmeOK DEF SansBoucle
<1> QED BY <1>1, <1>2, <1>3, <1>4, PasCalme

(* A signal stays sent, and only kill sends one.                         *)
LEMMA EmisReste ==
  ASSUME Base, SansBoucle, NEW p \in P!Pids, P!Pas(p), NEW q, NEW s
  PROVE  /\ Emis(q, s) => Emis(q, s)'
         /\ Emis(q, s)' <=> Emis(q, s) \/ (ip[p] \in 1 .. Lg(p) /\ Monte(p) /\ Op(p, ip[p]) = "kill" /\ Ar(p, ip[p]) = q /\ A3(p, ip[p]) = s)
<1>1. /\ p \in 1 .. L /\ prog' = prog /\ ip \in [P!Pids -> Nat \ {0}] /\ 1 .. L \subseteq P!Pids
      /\ ip' = ip \/ (ip[p] \in 1 .. Lg(p) /\ Monte(p))
  BY Avance
<1>2. L' = L /\ (\A r, k : Lg(r)' = Lg(r) /\ Op(r, k)' = Op(r, k) /\ Ar(r, k)' = Ar(r, k) /\ A3(r, k)' = A3(r, k))
  BY <1>1 DEF L, Lg, Op, Ar, A3
<1>3. \A r \in 1 .. L : ip[r] \in Nat /\ ip'[r] \in Nat /\ (r # p => ip'[r] = ip[r])
  BY <1>1 DEF Monte
<1>4. CASE ip' = ip
  <2>1. Emis(q, s)' <=> Emis(q, s)
    BY <1>2, <1>4 DEF Emis
  <2>2. ~Monte(p)
    <3>1. ip[p] \in Nat
      BY <1>1, <1>3
    <3> QED BY <1>1, <1>4, <3>1 DEF Monte
  <2> QED BY <2>1, <2>2
<1>5. CASE ip[p] \in 1 .. Lg(p) /\ Monte(p)
  <2>1. ip'[p] = ip[p] + 1
    BY <1>5, <1>1 DEF Monte
  <2>2. \A r \in 1 .. L : \A k \in 1 .. Lg(r) : k < ip'[r] <=> k < ip[r] \/ (r = p /\ k = ip[p])
    BY <2>1, <1>1, <1>3
  <2>3. Emis(q, s)' <=> \E r \in 1 .. L : \E k \in 1 .. Lg(r) : k < ip'[r] /\ Op(r, k) = "kill" /\ Ar(r, k) = q /\ A3(r, k) = s
    BY <1>2 DEF Emis
  <2>4. Emis(q, s)' <=> Emis(q, s) \/ (Op(p, ip[p]) = "kill" /\ Ar(p, ip[p]) = q /\ A3(p, ip[p]) = s)
    BY <2>2, <2>3, <1>1, <1>5 DEF Emis
  <2> QED BY <2>4, <1>5
<1> QED BY <1>1, <1>4, <1>5

(* What was displayed stays displayed.                                   *)
LEMMA AfficheReste ==
  ASSUME Types, NEW x, NEW o, NEW v, trace' = Append(trace, <<x, o, v>>), NEW p
  PROVE  /\ P!Affiche(p) => P!Affiche(p)'
         /\ o = "dit" => P!Affiche(x)'
<1>1. trace \in Seq(Traces)
  BY DEF Types
<1>2. /\ Len(trace) \in Nat /\ Len(trace') = Len(trace) + 1 /\ trace'[Len(trace) + 1] = <<x, o, v>>
      /\ \A k \in 1 .. Len(trace) : trace'[k] = trace[k]
  BY <1>1, AppendProperties, LenProperties
<1>3. 1 .. Len(trace) \subseteq 1 .. Len(trace') /\ Len(trace) + 1 \in 1 .. Len(trace')
  BY <1>2
<1>4. P!Affiche(p) => P!Affiche(p)'
  BY <1>2, <1>3 DEF P!Affiche
<1>5. o = "dit" => P!Affiche(x)'
  <2> SUFFICES ASSUME o = "dit" PROVE P!Affiche(x)'
    OBVIOUS
  <2>1. trace'[Len(trace) + 1][1] = x /\ trace'[Len(trace) + 1][2] = "dit"
    BY <1>2
  <2> QED BY <1>3, <2>1 DEF P!Affiche
<1> QED BY <1>4, <1>5

(* What a step of p at its call k does, by the name of the call.           *)
Rien == UNCHANGED <<etat, pere, pendants, val, trace, boite, pos, taille, tampon, perdu>>

(* fork                                                                  *)
EFork(p, k) ==
    /\ Op(p, k) = "fork" /\ Monte(p) /\ Ar(p, k) \in 2 .. L /\ etat[Ar(p, k)] = "absent" /\ Ar(p, k) # p
    /\ etat' = [etat EXCEPT ![Ar(p, k)] = "vif"] /\ pere' = [pere EXCEPT ![Ar(p, k)] = p]
    /\ UNCHANGED <<pendants, val, trace, boite, pos, taille, tampon, perdu>>

(* wait                                                                  *)
EWait(p, k) ==
    /\ Op(p, k) = "wait" /\ Monte(p)
    /\ \/ \E q \in P!Fils(p) : etat[q] = "zombie" /\ etat' = [etat EXCEPT ![q] = "fini"]
       \/ P!Fils(p) = {} /\ UNCHANGED etat
    /\ UNCHANGED <<pere, pendants, val, trace, boite, pos, taille, tampon, perdu>>

(* waitpid, with or without the status                                   *)
EWaitpid(p, k) ==
    /\ Op(p, k) \in {"waitpid", "statut"} /\ Monte(p) /\ Ar(p, k) \in 2 .. L
    /\ etat[Ar(p, k)] = "zombie" /\ etat' = [etat EXCEPT ![Ar(p, k)] = "fini"]
    /\ val' = IF Op(p, k) = "statut" THEN [val EXCEPT ![p] = val[Ar(p, k)]] ELSE val
    /\ UNCHANGED <<pere, pendants, trace, boite, pos, taille, tampon, perdu>>

(* kill                                                                  *)
EKill(p, k) ==
    /\ Op(p, k) = "kill" /\ Monte(p) /\ Ar(p, k) \in 1 .. L /\ A3(p, k) \in P!Deux
    /\ pendants' = IF etat[Ar(p, k)] = "vif" THEN [pendants EXCEPT ![Ar(p, k)] = @ \cup {A3(p, k)}] ELSE pendants
    /\ UNCHANGED <<etat, pere, val, trace, boite, pos, taille, tampon, perdu>>

(* sigsuspend                                                            *)
ESuspend(p, k) ==
    /\ Op(p, k) = "suspend" /\ Monte(p)
    /\ \E s \in P!Deux :
         /\ s \in pendants[p] /\ s \in Ar(p, k)
         /\ perdu' = (perdu \/ pendants[p] \ (prog.masque \cup {s}) # {})
         /\ pendants' = [pendants EXCEPT ![p] = @ \ {s}]
         /\ trace' = Append(trace, <<p, s, 0>>)
    /\ UNCHANGED <<etat, pere, val, boite, pos, taille, tampon>>

(* sigpending in a loop                                                  *)
EPending(p, k) == Op(p, k) = "pending" /\ Ar(p, k) \subseteq pendants[p] /\ Monte(p) /\ Rien

(* printf                                                                *)
EDit(p, k) ==
    /\ Op(p, k) = "dit" /\ Monte(p) /\ trace' = Append(trace, <<p, "dit", val[p]>>)
    /\ UNCHANGED <<etat, pere, pendants, val, boite, pos, taille, tampon, perdu>>

(* the calls on val and on the shared file, memory or socket             *)
EValeur(p, k) ==
    /\ Monte(p) /\ UNCHANGED <<etat, pere, pendants, trace, pos, taille, tampon, perdu>>
    /\ \/ Op(p, k) = "pose" /\ val' = [val EXCEPT ![p] = Ar(p, k)] /\ UNCHANGED boite
       \/ Op(p, k) = "alea" /\ (\E v \in Nat : val' = [val EXCEPT ![p] = v]) /\ UNCHANGED boite
       \/ Op(p, k) = "depose" /\ boite' = Append(boite, val[p]) /\ UNCHANGED val
       \/ /\ Op(p, k) = "retire" /\ boite # <<>>
          /\ boite' = Tail(boite) /\ val' = [val EXCEPT ![p] = @ + Head(boite)]
       \/ Op(p, k) = "somme" /\ val' = [val EXCEPT ![p] = @ + P!Cumul(boite, Len(boite))] /\ UNCHANGED boite

(* read, through the buffer of the process                               *)
ELit(p, k) ==
    /\ Op(p, k) = "lit"
    /\ \/ /\ tampon[p] # <<>> /\ val' = [val EXCEPT ![p] = Head(tampon[p])]
          /\ tampon' = [tampon EXCEPT ![p] = Tail(@)] /\ Monte(p) /\ UNCHANGED pos
       \/ /\ tampon[p] = <<>> /\ pos[1] < Longueur
          /\ \E d \in 1 .. Ar(p, k) :
               /\ pos[1] + d <= Longueur
               /\ tampon' = [tampon EXCEPT ![p] = [j \in 1 .. d |-> pos[1] + j]]
               /\ pos' = [pos EXCEPT ![1] = @ + d]
          /\ UNCHANGED <<ip, val>>
       \/ /\ tampon[p] = <<>> /\ pos[1] >= Longueur
          /\ ip' = [ip EXCEPT ![p] = Lg(p) + 1] /\ UNCHANGED <<val, tampon, pos>>
    /\ UNCHANGED <<etat, pere, pendants, trace, boite, taille, perdu>>

(* the end of a loop                                                     *)
ERetour(p, k) == Op(p, k) = "retour" /\ ip' = [ip EXCEPT ![p] = 1] /\ Rien

(* write and lseek                                                       *)
EEcrit(p, k) ==
    /\ Monte(p) /\ Ar(p, k) \in {1, 2} /\ UNCHANGED <<etat, pere, pendants, val, trace, boite, tampon, perdu>>
    /\ \/ /\ Op(p, k) = "write" /\ pos' = [pos EXCEPT ![Ar(p, k)] = @ + A3(p, k)]
          /\ taille' = P!Max({taille, pos'[Ar(p, k)]})
       \/ Op(p, k) = "lseek" /\ pos' = [pos EXCEPT ![Ar(p, k)] = 0] /\ UNCHANGED taille

(* sem_wait and sem_post                                                 *)
ESem(p, k) == Op(p, k) \in {"semwait", "sempost"} /\ Monte(p) /\ Rien

(* All of them.                                                          *)
Effet(p, k) ==
    \/ EFork(p, k) \/ EWait(p, k) \/ EWaitpid(p, k) \/ EKill(p, k) \/ ESuspend(p, k) \/ EPending(p, k)
    \/ EDit(p, k) \/ EValeur(p, k) \/ ELit(p, k) \/ ERetour(p, k) \/ EEcrit(p, k) \/ ESem(p, k)

(* The end, and a signal that comes elsewhere than in sigsuspend.          *)
EFin(p) ==
    /\ ip[p] = Lg(p) + 1
    /\ etat' = [q \in P!Pids |->
                  IF q = p THEN (IF pere[p] # 0 /\ etat[pere[p]] = "vif" THEN "zombie" ELSE "fini")
                  ELSE IF pere[q] = p /\ etat[q] = "zombie" THEN "fini" ELSE etat[q]]
    /\ UNCHANGED <<pere, ip, pendants, val, trace, boite, pos, taille, tampon, perdu>>

(* A signal that nothing blocks, elsewhere than in sigsuspend.           *)
EDehors(p) ==
    /\ \E s \in P!Deux : /\ s \in pendants[p] /\ s \notin prog.masque
                         /\ pendants' = [pendants EXCEPT ![p] = @ \ {s}]
                         /\ trace' = Append(trace, <<p, s, 0>>)
    /\ perdu' = TRUE /\ (ip[p] \in 1 .. Lg(p) => Op(p, ip[p]) # "suspend")
    /\ UNCHANGED <<etat, pere, ip, val, boite, pos, taille, tampon>>

(* Every step of Processus is one of these.                              *)
LEMMA Effets ==
  ASSUME Base, NEW p \in P!Pids, P!Pas(p)
  PROVE  /\ p \in 1 .. L /\ etat[p] = "vif" /\ prog' = prog /\ Lg(p) \in Nat /\ ip[p] \in 1 .. Lg(p) + 1
         /\ EFin(p) \/ EDehors(p) \/ (ip[p] \in 1 .. Lg(p) /\ Effet(p, ip[p]))
<1> USE DEF Base
<1>0. P!Suite(p) => Monte(p)
  BY DEF P!Suite, Monte
<1>1. ASSUME NEW c, P!A(p, c)
      PROVE  /\ etat[p] = "vif" /\ ip[p] \in 1 .. Lg(p) /\ Op(p, ip[p]) = c /\ Lg(p) = Len(P!Texte(p))
             /\ P!Arg(p) = Ar(p, ip[p]) /\ AppelJuste(p, ip[p]) /\ A3(p, ip[p]) = P!Texte(p)[ip[p]][3]
  BY <1>1, AuPas DEF A3, P!Texte
<1>2. prog' = prog /\ masque[p] = prog.masque
  BY MasquesPas DEF Masques
<1>3. etat[p] = "vif" => p \in 1 .. L /\ Lg(p) \in Nat /\ ip[p] \in 1 .. Lg(p) + 1
  BY DEF Places, Bien
<1> DEFINE Concl == etat[p] = "vif" /\ (EFin(p) \/ EDehors(p) \/ (ip[p] \in 1 .. Lg(p) /\ Effet(p, ip[p])))
<1>a. ASSUME NEW c, P!A(p, c), Effet(p, ip[p]) PROVE Concl
  BY <1>a, <1>1
<1>b. /\ EFork(p, ip[p]) => Effet(p, ip[p])
      /\ EWait(p, ip[p]) => Effet(p, ip[p])
      /\ EWaitpid(p, ip[p]) => Effet(p, ip[p])
      /\ EKill(p, ip[p]) => Effet(p, ip[p])
      /\ ESuspend(p, ip[p]) => Effet(p, ip[p])
      /\ EPending(p, ip[p]) => Effet(p, ip[p])
      /\ EDit(p, ip[p]) => Effet(p, ip[p])
      /\ EValeur(p, ip[p]) => Effet(p, ip[p])
      /\ ELit(p, ip[p]) => Effet(p, ip[p])
      /\ ERetour(p, ip[p]) => Effet(p, ip[p])
      /\ EEcrit(p, ip[p]) => Effet(p, ip[p])
      /\ ESem(p, ip[p]) => Effet(p, ip[p])
  BY DEF Effet
<1>c. etat[p] = "vif" /\ (EFin(p) \/ EDehors(p)) => Concl
  OBVIOUS
<1> HIDE DEF Concl
<1>4. ASSUME P!ForkP(p) PROVE Concl
  <2>1. P!A(p, "fork") /\ etat[P!Arg(p)] = "absent" /\ P!Arg(p) # p
    BY <1>4, ForkPlaces DEF P!ForkP
  <2>2. EFork(p, ip[p])
    BY <1>4, <1>0, <1>1, <2>1 DEF P!ForkP, EFork, AppelJuste
  <2> QED BY <1>a, <2>1, <2>2, <1>b
<1>5. ASSUME P!Exit(p) PROVE Concl
  <2>1. ip[p] > Lg(p) /\ etat[p] = "vif"
    BY <1>5 DEF P!Exit, P!Texte, Lg
  <2>2. ip[p] = Lg(p) + 1
    BY <2>1, <1>3
  <2>3. EFin(p)
    BY <1>5, <2>2 DEF P!Exit, EFin, P!svars, P!dvars
  <2> QED BY <2>1, <2>3, <1>c
<1>6. ASSUME P!WaitP(p) PROVE Concl
  <2>1. ASSUME P!A(p, "wait") PROVE Concl
    <3>1. \/ \E q \in P!Fils(p) : etat[q] = "zombie" /\ etat' = [etat EXCEPT ![q] = "fini"]
          \/ P!Fils(p) = {} /\ UNCHANGED etat
      BY <1>6, <2>1, <1>1 DEF P!WaitP
    <3>2. UNCHANGED <<val, pere, pendants, trace, boite, pos, taille, tampon, perdu>> /\ Monte(p)
      BY <1>6, <2>1, <1>1, <1>0 DEF P!WaitP, P!svars, P!dvars
    <3>3. EWait(p, ip[p])
      BY <3>1, <3>2, <2>1, <1>1 DEF EWait
    <3> QED BY <1>a, <2>1, <3>3, <1>b
  <2>2. ASSUME NEW c \in {"waitpid", "statut"}, P!A(p, c) PROVE Concl
    <3>1. Op(p, ip[p]) = c /\ ~P!A(p, "wait") /\ (P!A(p, "statut") <=> c = "statut")
      BY <2>2, <1>1
    <3>2. EWaitpid(p, ip[p])
      BY <1>6, <2>2, <1>0, <1>1, <3>1 DEF P!WaitP, EWaitpid, P!svars, P!dvars, AppelJuste
    <3> QED BY <1>a, <2>2, <3>2, <1>b
  <2> QED BY <2>1, <2>2, <1>6 DEF P!WaitP
<1>7. ASSUME P!KillP(p) PROVE Concl
  <2>1. EKill(p, ip[p])
    BY <1>7, <1>0, <1>1 DEF P!KillP, EKill, AppelJuste, P!dvars
  <2> QED BY <1>7, <1>a, <2>1, <1>b DEF P!KillP
<1>8. ASSUME P!PendingP(p) PROVE Concl
  <2>1. EPending(p, ip[p])
    BY <1>8, <1>0, <1>1 DEF P!PendingP, EPending, Rien, P!dvars, P!svars
  <2> QED BY <1>8, <1>a, <2>1, <1>b DEF P!PendingP
<1>9. ASSUME P!DitP(p) PROVE Concl
  <2>1. EDit(p, ip[p])
    BY <1>9, <1>0, <1>1 DEF P!DitP, EDit, P!dvars, P!svars
  <2> QED BY <1>9, <1>a, <2>1, <1>b DEF P!DitP
<1>10. ASSUME P!ValeurP(p) PROVE Concl
  <2>1. PICK c \in {"pose", "alea", "depose", "retire", "somme"} : P!A(p, c)
    BY <1>10 DEF P!ValeurP
  <2>2. Monte(p) /\ UNCHANGED <<etat, pere, pendants, trace, pos, taille, tampon, perdu>>
    BY <1>10, <1>0 DEF P!ValeurP, P!svars
  <2>3. Valeurs \subseteq Nat
    BY MCProcessusAssumption DEF P!ProcessusAssumption
  <2>4. \/ Op(p, ip[p]) = "pose" /\ val' = [val EXCEPT ![p] = Ar(p, ip[p])] /\ UNCHANGED boite
        \/ Op(p, ip[p]) = "alea" /\ (\E v \in Nat : val' = [val EXCEPT ![p] = v]) /\ UNCHANGED boite
        \/ Op(p, ip[p]) = "depose" /\ boite' = Append(boite, val[p]) /\ UNCHANGED val
        \/ /\ Op(p, ip[p]) = "retire" /\ boite # <<>>
           /\ boite' = Tail(boite) /\ val' = [val EXCEPT ![p] = @ + Head(boite)]
        \/ Op(p, ip[p]) = "somme" /\ val' = [val EXCEPT ![p] = @ + P!Cumul(boite, Len(boite))] /\ UNCHANGED boite
    BY <1>10, <1>1, <2>3 DEF P!ValeurP
  <2>5. EValeur(p, ip[p])
    BY <2>2, <2>4 DEF EValeur
  <2> QED BY <1>a, <2>1, <2>5, <1>b
<1>11. ASSUME P!LitP(p) PROVE Concl
  <2>1. P!A(p, "lit") /\ UNCHANGED <<etat, pere, pendants, trace, boite, taille, perdu>>
    BY <1>11 DEF P!LitP, P!svars
  <2>2. Op(p, ip[p]) = "lit" /\ P!Arg(p) = Ar(p, ip[p]) /\ Ar(p, ip[p]) \in Nat \ {0} /\ Lg(p) = Len(P!Texte(p))
    BY <2>1, <1>1 DEF AppelJuste
  <2>3. ASSUME tampon[p] = <<>>, pos[1] < Longueur, UNCHANGED <<ip, val>>,
               LET n0 == P!Min({P!Arg(p), Longueur - pos[1]})
               IN  /\ tampon' = [tampon EXCEPT ![p] = [k \in 1 .. n0 |-> pos[1] + k]]
                   /\ pos' = [pos EXCEPT ![1] = @ + n0]
        PROVE  ELit(p, ip[p])
    <3>1. PICK d : d = P!Min({P!Arg(p), Longueur - pos[1]})
      OBVIOUS
    <3>2. pos[1] \in Nat /\ Longueur \in Nat
      BY MCProcessusAssumption DEF P!ProcessusAssumption, Types
    <3>3. d \in 1 .. Ar(p, ip[p]) /\ pos[1] + d <= Longueur
      <4>1. Longueur - pos[1] \in Nat /\ Longueur - pos[1] > 0
        BY <3>2, <2>3
      <4>2. d \in {Ar(p, ip[p]), Longueur - pos[1]} /\ d <= Ar(p, ip[p]) /\ d <= Longueur - pos[1]
        BY <3>1, <2>2, <4>1, MinOK
      <4> QED BY <4>1, <4>2, <2>2, <3>2
    <3>4. tampon' = [tampon EXCEPT ![p] = [j \in 1 .. d |-> pos[1] + j]] /\ pos' = [pos EXCEPT ![1] = @ + d]
      BY <2>3, <3>1
    <3> QED BY <2>1, <2>2, <2>3, <3>3, <3>4 DEF ELit
  <2>4. ELit(p, ip[p])
    <3>1. CASE /\ tampon[p] # <<>> /\ val' = [val EXCEPT ![p] = Head(tampon[p])]
               /\ tampon' = [tampon EXCEPT ![p] = Tail(@)] /\ P!Suite(p) /\ UNCHANGED pos
      BY <3>1, <2>1, <2>2, <1>0 DEF ELit
    <3>2. CASE tampon[p] = <<>> /\ pos[1] >= Longueur /\ ip' = [ip EXCEPT ![p] = Len(P!Texte(p)) + 1] /\ UNCHANGED <<val, tampon, pos>>
      BY <3>2, <2>1, <2>2 DEF ELit
    <3> QED BY <1>11, <2>3, <3>1, <3>2 DEF P!LitP
  <2> QED BY <1>a, <2>1, <2>4, <1>b
<1>12. ASSUME P!RetourP(p) PROVE Concl
  <2>1. ERetour(p, ip[p])
    BY <1>12, <1>1 DEF P!RetourP, ERetour, Rien, P!dvars, P!svars
  <2> QED BY <1>12, <1>a, <2>1, <1>b DEF P!RetourP
<1>13. ASSUME P!EcritP(p) PROVE Concl
  <2>1. PICK c \in {"write", "lseek"} : P!A(p, c)
    BY <1>13 DEF P!EcritP
  <2>2. EEcrit(p, ip[p])
    BY <1>13, <1>0, <1>1, <2>1 DEF P!EcritP, EEcrit, AppelJuste, P!svars
  <2> QED BY <1>a, <2>1, <2>2, <1>b
<1>14. ASSUME P!SemP(p) PROVE Concl
  <2>1. PICK c \in {"semwait", "sempost"} : P!A(p, c)
    BY <1>14 DEF P!SemP
  <2>2. ESem(p, ip[p])
    BY <1>14, <1>0, <1>1, <2>1 DEF P!SemP, ESem, Rien, P!svars
  <2> QED BY <1>a, <2>1, <2>2, <1>b
<1>15. ASSUME NEW s \in P!Deux, P!Delivre(p, s) PROVE Concl
  <2>1. /\ etat[p] = "vif" /\ s \in pendants[p] /\ pendants' = [pendants EXCEPT ![p] = @ \ {s}]
        /\ trace' = Append(trace, <<p, s, 0>>) /\ UNCHANGED <<etat, pere, val, boite, pos, taille, tampon>>
    BY <1>15 DEF P!Delivre, P!dvars
  <2>2. ASSUME P!A(p, "suspend") PROVE Concl
    <3>1. s \in P!Arg(p) /\ P!Suite(p) /\ perdu' = (perdu \/ pendants[p] \ (masque[p] \cup {s}) # {})
      BY <1>15, <2>2 DEF P!Delivre
    <3>2. ESuspend(p, ip[p])
      BY <2>1, <2>2, <3>1, <1>0, <1>1, <1>2 DEF ESuspend
    <3> QED BY <1>a, <2>2, <3>2, <1>b
  <2>3. ASSUME ~P!A(p, "suspend") PROVE Concl
    <3>1. s \notin masque[p] /\ perdu' = TRUE /\ UNCHANGED ip
      BY <1>15, <2>3 DEF P!Delivre
    <3>2. ip[p] \in 1 .. Lg(p) => Op(p, ip[p]) # "suspend"
      <4>1. ip[p] \in 1 .. Lg(p) => ip[p] <= Len(P!Texte(p))
        BY <2>1, <1>3 DEF P!Texte, Lg
      <4> QED BY <2>1, <2>3, <4>1 DEF P!A, P!Texte, Op
    <3>3. EDehors(p)
      BY <2>1, <3>1, <3>2, <1>2 DEF EDehors
    <3> QED BY <2>1, <3>3, <1>c
  <2> QED BY <2>2, <2>3
<1>16. Concl
  BY <1>4, <1>5, <1>6, <1>7, <1>8, <1>9, <1>10, <1>11, <1>12, <1>13, <1>14, <1>15 DEF P!Pas
<1> QED BY <1>2, <1>3, <1>16 DEF Concl

(* A step that moves p is the one of its call.                             *)
LEMMA PasAppel ==
  ASSUME Base, NEW p \in P!Pids, P!Pas(p), Monte(p)
  PROVE  ip[p] \in 1 .. Lg(p) /\ Effet(p, ip[p])
<1>1. ip[p] \in Nat /\ ip \in [P!Pids -> Nat \ {0}]
  BY DEF Base, Types
<1>2. ip' # ip
  BY <1>1 DEF Monte
<1>3. ~EFin(p) /\ ~EDehors(p)
  BY <1>2 DEF EFin, EDehors
<1> QED BY <1>3, Effets

(* Who grows: a signal is sent by kill only, an entry is added to trace.   *)
LEMMA Croissent ==
  ASSUME Base, NEW p \in P!Pids, P!Pas(p)
  PROVE  /\ \A q \in P!Pids : \A s : s \in pendants'[q] /\ s \notin pendants[q] =>
               ip[p] \in 1 .. Lg(p) /\ Monte(p) /\ Op(p, ip[p]) = "kill" /\ Ar(p, ip[p]) = q /\ A3(p, ip[p]) = s
         /\ trace' = trace \/ \E o, v : trace' = Append(trace, <<p, o, v>>)
<1>0. pendants \in [P!Pids -> SUBSET P!Deux]
  BY DEF Base, Types
<1>1. CASE EFin(p)
  BY <1>1 DEF EFin
<1>2. CASE EDehors(p)
  <2>1. PICK s \in P!Deux : pendants' = [pendants EXCEPT ![p] = @ \ {s}] /\ trace' = Append(trace, <<p, s, 0>>)
    BY <1>2 DEF EDehors
  <2> QED BY <2>1, <1>0
<1>3. CASE ip[p] \in 1 .. Lg(p) /\ Effet(p, ip[p])
  <2> DEFINE k == ip[p]
  <2>1. CASE EKill(p, k)
    BY <1>0, <1>3, <2>1 DEF EKill
  <2>2. CASE ESuspend(p, k)
    <3>1. PICK s \in P!Deux : pendants' = [pendants EXCEPT ![p] = @ \ {s}] /\ trace' = Append(trace, <<p, s, 0>>)
      BY <2>2 DEF ESuspend
    <3> QED BY <3>1, <1>0
  <2>3. CASE EDit(p, k)
    BY <2>3 DEF EDit
  <2>4. CASE EFork(p, k) \/ EWait(p, k) \/ EWaitpid(p, k) \/ EPending(p, k) \/ EValeur(p, k) \/ ELit(p, k)
             \/ ERetour(p, k) \/ EEcrit(p, k) \/ ESem(p, k)
    <3>1. pendants' = pendants /\ trace' = trace
      BY <2>4 DEF EFork, EWait, EWaitpid, EPending, EValeur, ELit, ERetour, EEcrit, ESem, Rien
    <3> QED BY <3>1
  <2> QED BY <1>3, <2>1, <2>2, <2>3, <2>4 DEF Effet
<1> QED BY <1>1, <1>2, <1>3, Effets

(* A signal that has been received is not sent again.                      *)
LEMMA RecuReste ==
  ASSUME Base, Appelle, NEW p \in P!Pids, P!Pas(p), NEW q \in P!Pids, NEW s, Recu(q, s)
  PROVE  Recu(q, s)'
<1>1. Emis(q, s)'
  BY EmisReste DEF Recu, Appelle
<1>2. PICK r \in 1 .. L : \E k \in 1 .. Lg(r) : k < ip[r] /\ Op(r, k) = "kill" /\ Ar(r, k) = q /\ A3(r, k) = s
  BY DEF Recu, Emis
<1>3. ASSUME s \in pendants'[q] PROVE FALSE
  <2>1. s \notin pendants[q]
    BY DEF Recu
  <2>2. ip[p] \in 1 .. Lg(p) /\ Op(p, ip[p]) = "kill" /\ Ar(p, ip[p]) = q /\ A3(p, ip[p]) = s
    BY <1>3, <2>1, Croissent
  <2>3. p \in 1 .. L
    BY Effets
  <2>4. r = p /\ \A k \in 1 .. Lg(r) : Op(r, k) = "kill" /\ Ar(r, k) = q /\ A3(r, k) = s => k = ip[p]
    BY <1>2, <2>2, <2>3 DEF Appelle, Uniques
  <2> QED BY <1>2, <2>2, <2>4
<1> QED BY <1>1, <1>3 DEF Recu

(* No signal was sent at first, and nobody has passed a call.            *)
LEMMA SignauxInit == Base /\ P!Init => Signaux
<1> SUFFICES ASSUME Base, P!Init PROVE Signaux
  OBVIOUS
<1>1. \A p \in 1 .. L : ip[p] = 1
  BY Pids0 DEF P!Init, Base
<1>2. \A p \in 1 .. L : \A k \in 1 .. Lg(p) : ~(k < ip[p])
  <2> TAKE p \in 1 .. L
  <2> TAKE k \in 1 .. Lg(p)
  <2>1. Lg(p) \in Nat
    BY DEF Base, Bien
  <2> QED BY <2>1, <1>1
<1>3. \A q \in P!Pids : pendants[q] = {}
  BY DEF P!Init
<1>4. SDeux
  <2> SUFFICES ASSUME NEW p \in 1 .. L, NEW j \in 1 .. Lg(p), j < ip[p] PROVE FALSE
    BY DEF SDeux
  <2> QED BY <1>2
<1> QED BY <1>2, <1>3, <1>4 DEF Signaux, SEmis, SSuspend, SPending, SDit

(* Every step keeps the invariant of the signals.                        *)
LEMMA SignauxPas ==
  ASSUME Base, Appelle, Signaux, NEW p \in P!Pids, P!Pas(p)
  PROVE  Signaux'
<1>1. /\ p \in 1 .. L /\ prog' = prog /\ ip \in [P!Pids -> Nat \ {0}] /\ 1 .. L \subseteq P!Pids
      /\ ip' = ip \/ (ip[p] \in 1 .. Lg(p) /\ Monte(p)) 
  BY Avance DEF Appelle
<1>2. L' = L /\ (\A r, k : Lg(r)' = Lg(r) /\ Op(r, k)' = Op(r, k) /\ Ar(r, k)' = Ar(r, k) /\ A3(r, k)' = A3(r, k))
  BY <1>1 DEF L, Lg, Op, Ar, A3
<1> HIDE DEF P!Pids
<1>3. \A r \in 1 .. L : \A k \in 1 .. Lg(r) : k < ip'[r] => k < ip[r] \/ (r = p /\ k = ip[p] /\ Effet(p, ip[p]))
  <2> SUFFICES ASSUME NEW r \in 1 .. L, NEW k \in 1 .. Lg(r), k < ip'[r], ~(k < ip[r])
               PROVE r = p /\ k = ip[p] /\ Effet(p, ip[p])
    OBVIOUS
  <2>1. Monte(p)
    BY <1>1
  <2>2. Effet(p, ip[p])
    BY <2>1, PasAppel
  <2>3. ip[r] \in Nat /\ ip[p] \in Nat /\ Lg(r) \in Nat
    BY <1>1 DEF Base, Bien
  <2>4. r = p /\ ip'[p] = ip[p] + 1
    BY <2>1, <1>1 DEF Monte
  <2> QED BY <2>2, <2>3, <2>4
<1>4. SEmis'
  <2> SUFFICES ASSUME NEW q \in P!Pids, NEW s \in P!Deux, s \in pendants'[q] PROVE Emis(q, s)'
    BY DEF SEmis
  <2>1. CASE s \in pendants[q]
    BY <2>1, EmisReste DEF Signaux, SEmis, Appelle
  <2>2. CASE s \notin pendants[q]
    BY <2>2, Croissent, EmisReste DEF Appelle
  <2> QED BY <2>1, <2>2
<1>5. ASSUME NEW k \in 1 .. Lg(p), k = ip[p], Effet(p, k), Op(p, k) = "suspend"
      PROVE  \E s \in Ar(p, k) : s \in pendants[p] /\ Recu(p, s)'
  <2>1. ESuspend(p, k)
    BY <1>5 DEF Effet, EFork, EWait, EWaitpid, EKill, EPending, EDit, EValeur, ELit, ERetour, EEcrit, ESem
  <2>2. PICK s \in P!Deux : s \in pendants[p] /\ s \in Ar(p, k) /\ pendants' = [pendants EXCEPT ![p] = @ \ {s}]
    BY <2>1 DEF ESuspend
  <2>3. pendants \in [P!Pids -> SUBSET P!Deux]
    BY DEF Base, Types
  <2>4. s \notin pendants'[p]
    BY <2>2, <2>3
  <2>5. Emis(p, s)'
    BY <2>2, EmisReste DEF Signaux, SEmis, Appelle
  <2> QED BY <2>2, <2>4, <2>5 DEF Recu
<1>6. SSuspend'
  <2> SUFFICES ASSUME NEW q \in 1 .. L, NEW k \in 1 .. Lg(q), k < ip'[q], Op(q, k) = "suspend"
               PROVE \E s \in Ar(q, k) : Recu(q, s)'
    BY <1>2 DEF SSuspend
  <2>1. CASE k < ip[q]
    BY <2>1, <1>1, RecuReste DEF Signaux, SSuspend
  <2>2. CASE q = p /\ k = ip[p] /\ Effet(p, ip[p])
    BY <2>2, <1>5
  <2> QED BY <1>3, <2>1, <2>2
<1>7. SDeux'
  <2> SUFFICES ASSUME NEW q \in 1 .. L, NEW k \in 1 .. Lg(q), NEW j \in 1 .. Lg(q), k < j, j < ip'[q],
                      Op(q, k) = "suspend", Op(q, j) = "suspend"
               PROVE \E s \in Ar(q, k), t \in Ar(q, j) : s # t /\ Recu(q, s)' /\ Recu(q, t)'
    BY <1>2 DEF SDeux
  <2>1. CASE j < ip[q]
    BY <2>1, <1>1, RecuReste DEF Signaux, SDeux
  <2>2. CASE q = p /\ j = ip[p] /\ Effet(p, ip[p])
    <3>1. PICK t \in Ar(q, j) : t \in pendants[q] /\ Recu(q, t)'
      BY <2>2, <1>5
    <3>2. PICK s \in Ar(q, k) : Recu(q, s)
      BY <2>2 DEF Signaux, SSuspend
    <3>3. Recu(q, s)' /\ s # t
      BY <3>1, <3>2, <1>1, RecuReste DEF Recu
    <3> QED BY <3>1, <3>3
  <2> QED BY <1>3, <2>1, <2>2
<1>8. SPending'
  <2> SUFFICES ASSUME NEW q \in 1 .. L, NEW k \in 1 .. Lg(q), k < ip'[q], Op(q, k) = "pending", NEW s \in Ar(q, k)
               PROVE Emis(q, s)'
    BY <1>2 DEF SPending
  <2>1. CASE k < ip[q]
    BY <2>1, EmisReste DEF Signaux, SPending, Appelle
  <2>2. CASE q = p /\ k = ip[p] /\ Effet(p, ip[p])
    <3>1. EPending(p, k)
      BY <2>2 DEF Effet, EFork, EWait, EWaitpid, EKill, ESuspend, EDit, EValeur, ELit, ERetour, EEcrit, ESem
    <3>2. s \in pendants[p]
      BY <3>1, <2>2 DEF EPending
    <3>3. s \in P!Deux
      BY <3>2 DEF Base, Types
    <3>4. Emis(p, s)
      BY <3>2, <3>3 DEF Signaux, SEmis
    <3> QED BY <2>2, <3>4, EmisReste DEF Appelle
  <2> QED BY <1>3, <2>1, <2>2
<1>9. SDit'
  <2> SUFFICES ASSUME NEW q \in 1 .. L, NEW k \in 1 .. Lg(q), k < ip'[q], Op(q, k) = "dit"
               PROVE P!Affiche(q)'
    BY <1>2 DEF SDit
  <2>1. CASE k < ip[q]
    <3>1. P!Affiche(q)
      BY <2>1 DEF Signaux, SDit
    <3>2. CASE trace' = trace
      BY <3>1, <3>2 DEF P!Affiche
    <3>3. ASSUME NEW o, NEW v, trace' = Append(trace, <<p, o, v>>) PROVE P!Affiche(q)'
      BY <3>1, <3>3, AfficheReste DEF Base
    <3> QED BY <3>2, <3>3, Croissent
  <2>2. CASE q = p /\ k = ip[p] /\ Effet(p, ip[p])
    <3>1. EDit(p, k)
      BY <2>2 DEF Effet, EFork, EWait, EWaitpid, EKill, ESuspend, EPending, EValeur, ELit, ERetour, EEcrit, ESem
    <3>2. trace' = Append(trace, <<p, "dit", val[p]>>)
      BY <3>1 DEF EDit
    <3> QED BY <2>2, <3>2, AfficheReste DEF Base
  <2> QED BY <1>3, <2>1, <2>2
<1> QED BY <1>4, <1>6, <1>7, <1>8, <1>9 DEF Signaux

(* So does a step that changes nothing.                                  *)
LEMMA SignauxStable ==
  ASSUME Signaux, UNCHANGED P!vars
  PROVE  Signaux'
<1>1. prog' = prog /\ ip' = ip /\ pendants' = pendants /\ trace' = trace
  BY DEF P!vars, P!svars
<1>2. L' = L
  BY <1>1 DEF L
<1>3. \A p : Lg(p)' = Lg(p) /\ P!Affiche(p)' = P!Affiche(p)
  BY <1>1 DEF Lg, P!Affiche
<1>4. \A p, k : Op(p, k)' = Op(p, k) /\ Ar(p, k)' = Ar(p, k) /\ A3(p, k)' = A3(p, k)
  BY <1>1 DEF Op, Ar, A3
<1>5. \A q, s : (Emis(q, s)' <=> Emis(q, s)) /\ (Recu(q, s)' <=> Recu(q, s))
  BY <1>1, <1>2, <1>3, <1>4 DEF Emis, Recu
<1>6. SEmis'
  BY <1>1, <1>5 DEF Signaux, SEmis
<1>7. SSuspend'
  BY <1>1, <1>2, <1>3, <1>4, <1>5 DEF Signaux, SSuspend
<1>8. SDeux'
  BY <1>1, <1>2, <1>3, <1>4, <1>5 DEF Signaux, SDeux
<1>9. SPending' /\ SDit'
  BY <1>1, <1>2, <1>3, <1>4, <1>5 DEF Signaux, SPending, SDit
<1> QED BY <1>6, <1>7, <1>8, <1>9 DEF Signaux

(* ex3: each signal is sent by one call, and who has sent has displayed  *)
(* before.                                                               *)
LEMMA Appelle_ex3 ==
  ASSUME Base, prog = P!ex3
  PROVE  /\ Appelle
         /\ Emis(1, "USR2") => ip[2] > 5
         /\ Emis(2, "USR2") => ip[3] > 4
         /\ Emis(2, "USR1") => ip[4] > 2
         /\ Emis(3, "USR1") => ip[5] > 2
<1>1. \A p \in 1 .. L : p = 1 \/ p = 2 \/ p = 3 \/ p = 4 \/ p = 5
  BY Table_ex3
<1>2. \A p \in 1 .. L : Lg(p) \in 0 .. 5
  BY <1>1, Table_ex3
<1>3. \A p \in 1 .. L : \A k \in 1 .. Lg(p) : k = 1 \/ k = 2 \/ k = 3 \/ k = 4 \/ k = 5
  BY <1>2
<1>4. ASSUME NEW p \in 1 .. L, NEW k \in 1 .. Lg(p), Op(p, k) = "kill"
      PROVE  <<p, k, Ar(p, k), A3(p, k)>> \in {<<2, 5, 1, "USR2">>, <<3, 4, 2, "USR2">>, <<4, 2, 2, "USR1">>, <<5, 2, 3, "USR1">>}
  BY <1>1, <1>2, <1>3, <1>4, Table_ex3
<1>5. ASSUME NEW p \in 1 .. L, NEW k \in 1 .. Lg(p) PROVE Op(p, k) \notin {"retour", "lit"}
  BY <1>1, <1>2, <1>3, Table_ex3
<1>6. ASSUME NEW p \in 1 .. L, NEW r \in 1 .. L, NEW k \in 1 .. Lg(p), NEW j \in 1 .. Lg(r),
             Op(p, k) = "kill", Op(r, j) = "kill", Ar(p, k) = Ar(r, j), A3(p, k) = A3(r, j)
      PROVE  p = r /\ k = j
  BY <1>4, <1>6
<1>7. Appelle
  BY <1>5, <1>6 DEF Appelle, SansBoucle, Uniques
<1>8. ASSUME NEW q, NEW s, Emis(q, s)
      PROVE  \E a, b : ip[a] > b /\ <<a, b, q, s>> \in {<<2, 5, 1, "USR2">>, <<3, 4, 2, "USR2">>, <<4, 2, 2, "USR1">>, <<5, 2, 3, "USR1">>}
  <2>1. PICK a \in 1 .. L : \E b \in 1 .. Lg(a) : b < ip[a] /\ Op(a, b) = "kill" /\ Ar(a, b) = q /\ A3(a, b) = s
    BY <1>8 DEF Emis
  <2>2. PICK b \in 1 .. Lg(a) : b < ip[a] /\ Op(a, b) = "kill" /\ Ar(a, b) = q /\ A3(a, b) = s
    BY <2>1
  <2>3. ip[a] > b
    <3>1. a \in P!Pids /\ Lg(a) \in Nat
      BY Pids0 DEF Base, Bien
    <3>2. ip[a] \in Nat /\ b \in Nat
      BY <3>1 DEF Base, Types
    <3> QED BY <2>2, <3>2
  <2> QED BY <1>4, <2>2, <2>3
<1> QED BY <1>7, <1>8

(* ex3c: the same.                                                       *)
LEMMA Appelle_ex3c ==
  ASSUME Base, prog = P!ex3c
  PROVE  /\ Appelle
         /\ Emis(1, "USR2") => ip[2] > 5
         /\ Emis(2, "USR2") => ip[3] > 4
         /\ Emis(2, "USR1") => ip[4] > 2
         /\ Emis(3, "USR1") => ip[5] > 2
<1>1. \A p \in 1 .. L : p = 1 \/ p = 2 \/ p = 3 \/ p = 4 \/ p = 5
  BY Table_ex3c
<1>2. \A p \in 1 .. L : Lg(p) \in 0 .. 5
  BY <1>1, Table_ex3c
<1>3. \A p \in 1 .. L : \A k \in 1 .. Lg(p) : k = 1 \/ k = 2 \/ k = 3 \/ k = 4 \/ k = 5
  BY <1>2
<1>4. ASSUME NEW p \in 1 .. L, NEW k \in 1 .. Lg(p), Op(p, k) = "kill"
      PROVE  <<p, k, Ar(p, k), A3(p, k)>> \in {<<2, 5, 1, "USR2">>, <<3, 4, 2, "USR2">>, <<4, 2, 2, "USR1">>, <<5, 2, 3, "USR1">>}
  BY <1>1, <1>2, <1>3, <1>4, Table_ex3c
<1>5. ASSUME NEW p \in 1 .. L, NEW k \in 1 .. Lg(p) PROVE Op(p, k) \notin {"retour", "lit"}
  BY <1>1, <1>2, <1>3, Table_ex3c
<1>6. ASSUME NEW p \in 1 .. L, NEW r \in 1 .. L, NEW k \in 1 .. Lg(p), NEW j \in 1 .. Lg(r),
             Op(p, k) = "kill", Op(r, j) = "kill", Ar(p, k) = Ar(r, j), A3(p, k) = A3(r, j)
      PROVE  p = r /\ k = j
  BY <1>4, <1>6
<1>7. Appelle
  BY <1>5, <1>6 DEF Appelle, SansBoucle, Uniques
<1>8. ASSUME NEW q, NEW s, Emis(q, s)
      PROVE  \E a, b : ip[a] > b /\ <<a, b, q, s>> \in {<<2, 5, 1, "USR2">>, <<3, 4, 2, "USR2">>, <<4, 2, 2, "USR1">>, <<5, 2, 3, "USR1">>}
  <2>1. PICK a \in 1 .. L : \E b \in 1 .. Lg(a) : b < ip[a] /\ Op(a, b) = "kill" /\ Ar(a, b) = q /\ A3(a, b) = s
    BY <1>8 DEF Emis
  <2>2. PICK b \in 1 .. Lg(a) : b < ip[a] /\ Op(a, b) = "kill" /\ Ar(a, b) = q /\ A3(a, b) = s
    BY <2>1
  <2>3. ip[a] > b
    <3>1. a \in P!Pids /\ Lg(a) \in Nat
      BY Pids0 DEF Base, Bien
    <3>2. ip[a] \in Nat /\ b \in Nat
      BY <3>1 DEF Base, Types
    <3> QED BY <2>2, <3>2
  <2> QED BY <1>4, <2>2, <2>3
<1> QED BY <1>7, <1>8

(* mauvaise_methode_pending.c: the same.                                 *)
LEMMA Appelle_mauvaise_methode ==
  ASSUME Base, prog = P!mauvaise_methode
  PROVE  /\ Appelle
         /\ Emis(1, "USR1") => ip[2] > 4
         /\ Emis(2, "USR2") => ip[3] > 4
         /\ Emis(1, "USR2") => ip[3] > 5
         /\ Emis(2, "USR1") => ip[4] > 2
         /\ Emis(3, "USR1") => ip[5] > 2
<1>1. \A p \in 1 .. L : p = 1 \/ p = 2 \/ p = 3 \/ p = 4 \/ p = 5
  BY Table_mauvaise_methode
<1>2. \A p \in 1 .. L : Lg(p) \in 0 .. 5
  BY <1>1, Table_mauvaise_methode
<1>3. \A p \in 1 .. L : \A k \in 1 .. Lg(p) : k = 1 \/ k = 2 \/ k = 3 \/ k = 4 \/ k = 5
  BY <1>2
<1>4. ASSUME NEW p \in 1 .. L, NEW k \in 1 .. Lg(p), Op(p, k) = "kill"
      PROVE  <<p, k, Ar(p, k), A3(p, k)>> \in {<<2, 4, 1, "USR1">>, <<3, 4, 2, "USR2">>, <<3, 5, 1, "USR2">>, <<4, 2, 2, "USR1">>, <<5, 2, 3, "USR1">>}
  BY <1>1, <1>2, <1>3, <1>4, Table_mauvaise_methode
<1>5. ASSUME NEW p \in 1 .. L, NEW k \in 1 .. Lg(p) PROVE Op(p, k) \notin {"retour", "lit"}
  BY <1>1, <1>2, <1>3, Table_mauvaise_methode
<1>6. ASSUME NEW p \in 1 .. L, NEW r \in 1 .. L, NEW k \in 1 .. Lg(p), NEW j \in 1 .. Lg(r),
             Op(p, k) = "kill", Op(r, j) = "kill", Ar(p, k) = Ar(r, j), A3(p, k) = A3(r, j)
      PROVE  p = r /\ k = j
  BY <1>4, <1>6
<1>7. Appelle
  BY <1>5, <1>6 DEF Appelle, SansBoucle, Uniques
<1>8. ASSUME NEW q, NEW s, Emis(q, s)
      PROVE  \E a, b : ip[a] > b /\ <<a, b, q, s>> \in {<<2, 4, 1, "USR1">>, <<3, 4, 2, "USR2">>, <<3, 5, 1, "USR2">>, <<4, 2, 2, "USR1">>, <<5, 2, 3, "USR1">>}
  <2>1. PICK a \in 1 .. L : \E b \in 1 .. Lg(a) : b < ip[a] /\ Op(a, b) = "kill" /\ Ar(a, b) = q /\ A3(a, b) = s
    BY <1>8 DEF Emis
  <2>2. PICK b \in 1 .. Lg(a) : b < ip[a] /\ Op(a, b) = "kill" /\ Ar(a, b) = q /\ A3(a, b) = s
    BY <2>1
  <2>3. ip[a] > b
    <3>1. a \in P!Pids /\ Lg(a) \in Nat
      BY Pids0 DEF Base, Bien
    <3>2. ip[a] \in Nat /\ b \in Nat
      BY <3>1 DEF Base, Types
    <3> QED BY <2>2, <3>2
  <2> QED BY <1>4, <2>2, <2>3
<1> QED BY <1>7, <1>8

(* taille_fic_egal_8.c: each of the two signals is sent by one call.     *)
LEMMA Appelle_taille_fic ==
  ASSUME Base, prog = P!taille_fic
  PROVE  /\ Appelle
         /\ Emis(2, "USR1") => ip[1] > 7
         /\ Emis(1, "USR1") => ip[2] > 2
<1>1. \A p \in 1 .. L : p = 1 \/ p = 2
  BY Table_taille_fic
<1>2. \A p \in 1 .. L : Lg(p) \in 0 .. 8
  BY <1>1, Table_taille_fic
<1>3. \A p \in 1 .. L : \A k \in 1 .. Lg(p) : k = 1 \/ k = 2 \/ k = 3 \/ k = 4 \/ k = 5 \/ k = 6 \/ k = 7 \/ k = 8
  BY <1>2
<1>4. ASSUME NEW p \in 1 .. L, NEW k \in 1 .. Lg(p), Op(p, k) = "kill"
      PROVE  <<p, k, Ar(p, k), A3(p, k)>> \in {<<1, 7, 2, "USR1">>, <<2, 2, 1, "USR1">>}
  BY <1>1, <1>2, <1>3, <1>4, Table_taille_fic
<1>5. ASSUME NEW p \in 1 .. L, NEW k \in 1 .. Lg(p) PROVE Op(p, k) \notin {"retour", "lit"}
  BY <1>1, <1>2, <1>3, Table_taille_fic
<1>6. ASSUME NEW p \in 1 .. L, NEW r \in 1 .. L, NEW k \in 1 .. Lg(p), NEW j \in 1 .. Lg(r),
             Op(p, k) = "kill", Op(r, j) = "kill", Ar(p, k) = Ar(r, j), A3(p, k) = A3(r, j)
      PROVE  p = r /\ k = j
  BY <1>4, <1>6
<1>7. Appelle
  BY <1>5, <1>6 DEF Appelle, SansBoucle, Uniques
<1>8. ASSUME NEW q, NEW s, Emis(q, s)
      PROVE  \E a, b : ip[a] > b /\ <<a, b, q, s>> \in {<<1, 7, 2, "USR1">>, <<2, 2, 1, "USR1">>}
  <2>1. PICK a \in 1 .. L : \E b \in 1 .. Lg(a) : b < ip[a] /\ Op(a, b) = "kill" /\ Ar(a, b) = q /\ A3(a, b) = s
    BY <1>8 DEF Emis
  <2>2. PICK b \in 1 .. Lg(a) : b < ip[a] /\ Op(a, b) = "kill" /\ Ar(a, b) = q /\ A3(a, b) = s
    BY <2>1
  <2>3. ip[a] > b
    <3>1. a \in P!Pids /\ Lg(a) \in Nat
      BY Pids0 DEF Base, Bien
    <3>2. ip[a] \in Nat /\ b \in Nat
      BY <3>1 DEF Base, Types
    <3> QED BY <2>2, <3>2
  <2> QED BY <1>4, <2>2, <2>3
<1> QED BY <1>7, <1>8
(* Who has passed a display has displayed.                               *)
LEMMA Disent ==
  ASSUME Base, Signaux, NEW p \in 1 .. L, NEW k \in 1 .. Lg(p), Op(p, k) = "dit", ip[p] > k
  PROVE  P!Affiche(p)
<1>1. k < ip[p]
  <2>1. p \in P!Pids /\ Lg(p) \in Nat
    BY Pids0 DEF Base, Bien
  <2>2. k \in Nat /\ ip[p] \in Nat
    BY <2>1 DEF Base, Types
  <2> QED BY <2>2
<1> QED BY <1>1 DEF Signaux, SDit

(* ex3: an end tells that the signals have come up the tree.             *)
LEMMA AfficheAvant_ex3 ==
  ASSUME Base, Signaux, prog = P!ex3
  PROVE  P!AfficheAvant
<1>1. /\ \A p \in 1 .. 5 : p \in P!Pids /\ ip[p] \in Nat
      /\ \A p \in 1 .. 5 : P!Termine(p) => ip[p] = Lg(p) + 1
  BY Table_ex3, Pids0 DEF Base, Types, Places
<1>2. ip[3] > 4 => P!Affiche(3)
  <2>1. 3 \in 1 .. L /\ 3 \in 1 .. Lg(3) /\ Op(3, 3) = "dit"
    BY Table_ex3
  <2> QED BY <2>1, <1>1, Disent
<1>3. (ip[4] > 2 => P!Affiche(4)) /\ (ip[5] > 2 => P!Affiche(5))
  <2>1. 4 \in 1 .. L /\ 1 \in 1 .. Lg(4) /\ Op(4, 1) = "dit" /\ 5 \in 1 .. L /\ 1 \in 1 .. Lg(5) /\ Op(5, 1) = "dit"
    BY Table_ex3
  <2> QED BY <2>1, <1>1, Disent
<1>4. ip[2] > 5 => P!Affiche(2)
  <2>1. 2 \in 1 .. L /\ 4 \in 1 .. Lg(2) /\ Op(2, 4) = "dit"
    BY Table_ex3
  <2> QED BY <2>1, <1>1, Disent
<1>5. ip[2] > 5 => ip[4] > 2 /\ ip[3] > 4
  <2> SUFFICES ASSUME ip[2] > 5 PROVE ip[4] > 2 /\ ip[3] > 4
    OBVIOUS
  <2>1. /\ 2 \in 1 .. L /\ 2 \in 1 .. Lg(2) /\ 3 \in 1 .. Lg(2) /\ Op(2, 2) = "suspend" /\ Op(2, 3) = "suspend"
        /\ Ar(2, 2) = {"USR1"} /\ Ar(2, 3) = {"USR1", "USR2"} /\ 3 < ip[2] /\ 2 < 3
    BY Table_ex3, <1>1
  <2>2. \E s \in {"USR1"}, t \in {"USR1", "USR2"} : s # t /\ Recu(2, s) /\ Recu(2, t)
    BY <2>1 DEF Signaux, SDeux
  <2> QED BY <2>2, Appelle_ex3 DEF Recu
<1>6. ip[3] > 4 => ip[5] > 2
  <2> SUFFICES ASSUME ip[3] > 4 PROVE ip[5] > 2
    OBVIOUS
  <2>1. 3 \in 1 .. L /\ 2 \in 1 .. Lg(3) /\ Op(3, 2) = "suspend" /\ Ar(3, 2) = {"USR1"} /\ 2 < ip[3]
    BY Table_ex3, <1>1
  <2>2. Recu(3, "USR1")
    BY <2>1 DEF Signaux, SSuspend
  <2> QED BY <2>2, Appelle_ex3 DEF Recu
<1>7. ip[1] > 4 => ip[2] > 5
  <2> SUFFICES ASSUME ip[1] > 4 PROVE ip[2] > 5
    OBVIOUS
  <2>1. 1 \in 1 .. L /\ 3 \in 1 .. Lg(1) /\ Op(1, 3) = "suspend" /\ Ar(1, 3) = {"USR2"} /\ 3 < ip[1]
    BY Table_ex3, <1>1
  <2>2. Recu(1, "USR2")
    BY <2>1 DEF Signaux, SSuspend
  <2> QED BY <2>2, Appelle_ex3 DEF Recu
<1>8. /\ P!Termine(1) => ip[1] > 4
      /\ P!Termine(2) => ip[2] > 5
      /\ P!Termine(3) => ip[3] > 4
  BY <1>1, Table_ex3
<1>9. \A p \in 2 .. 5 : p = 2 \/ p = 3 \/ p = 4 \/ p = 5
  OBVIOUS
<1> QED BY <1>2, <1>3, <1>4, <1>5, <1>6, <1>7, <1>8, <1>9 DEF P!AfficheAvant

(* ex3c: the same.                                                       *)
LEMMA AfficheAvant_ex3c ==
  ASSUME Base, Signaux, prog = P!ex3c
  PROVE  P!AfficheAvant
<1>1. /\ \A p \in 1 .. 5 : p \in P!Pids /\ ip[p] \in Nat
      /\ \A p \in 1 .. 5 : P!Termine(p) => ip[p] = Lg(p) + 1
  BY Table_ex3c, Pids0 DEF Base, Types, Places
<1>2. ip[3] > 4 => P!Affiche(3)
  <2>1. 3 \in 1 .. L /\ 2 \in 1 .. Lg(3) /\ Op(3, 2) = "dit"
    BY Table_ex3c
  <2> QED BY <2>1, <1>1, Disent
<1>3. (ip[4] > 2 => P!Affiche(4)) /\ (ip[5] > 2 => P!Affiche(5))
  <2>1. 4 \in 1 .. L /\ 1 \in 1 .. Lg(4) /\ Op(4, 1) = "dit" /\ 5 \in 1 .. L /\ 1 \in 1 .. Lg(5) /\ Op(5, 1) = "dit"
    BY Table_ex3c
  <2> QED BY <2>1, <1>1, Disent
<1>4. ip[2] > 5 => P!Affiche(2)
  <2>1. 2 \in 1 .. L /\ 2 \in 1 .. Lg(2) /\ Op(2, 2) = "dit"
    BY Table_ex3c
  <2> QED BY <2>1, <1>1, Disent
<1>5. ip[2] > 5 => ip[4] > 2 /\ ip[3] > 4
  <2> SUFFICES ASSUME ip[2] > 5 PROVE ip[4] > 2 /\ ip[3] > 4
    OBVIOUS
  <2>1. /\ 2 \in 1 .. L /\ 3 \in 1 .. Lg(2) /\ 4 \in 1 .. Lg(2) /\ Op(2, 3) = "suspend" /\ Op(2, 4) = "suspend"
        /\ Ar(2, 3) = {"USR1"} /\ Ar(2, 4) = {"USR1", "USR2"} /\ 4 < ip[2] /\ 3 < 4
    BY Table_ex3c, <1>1
  <2>2. \E s \in {"USR1"}, t \in {"USR1", "USR2"} : s # t /\ Recu(2, s) /\ Recu(2, t)
    BY <2>1 DEF Signaux, SDeux
  <2> QED BY <2>2, Appelle_ex3c DEF Recu
<1>6. ip[3] > 4 => ip[5] > 2
  <2> SUFFICES ASSUME ip[3] > 4 PROVE ip[5] > 2
    OBVIOUS
  <2>1. 3 \in 1 .. L /\ 3 \in 1 .. Lg(3) /\ Op(3, 3) = "suspend" /\ Ar(3, 3) = {"USR1"} /\ 3 < ip[3]
    BY Table_ex3c, <1>1
  <2>2. Recu(3, "USR1")
    BY <2>1 DEF Signaux, SSuspend
  <2> QED BY <2>2, Appelle_ex3c DEF Recu
<1>7. ip[1] > 3 => ip[2] > 5
  <2> SUFFICES ASSUME ip[1] > 3 PROVE ip[2] > 5
    OBVIOUS
  <2>1. 1 \in 1 .. L /\ 3 \in 1 .. Lg(1) /\ Op(1, 3) = "suspend" /\ Ar(1, 3) = {"USR2"} /\ 3 < ip[1]
    BY Table_ex3c, <1>1
  <2>2. Recu(1, "USR2")
    BY <2>1 DEF Signaux, SSuspend
  <2> QED BY <2>2, Appelle_ex3c DEF Recu
<1>8. /\ P!Termine(1) => ip[1] > 3
      /\ P!Termine(2) => ip[2] > 5
      /\ P!Termine(3) => ip[3] > 4
  BY <1>1, Table_ex3c
<1>9. \A p \in 2 .. 5 : p = 2 \/ p = 3 \/ p = 4 \/ p = 5
  OBVIOUS
<1> QED BY <1>2, <1>3, <1>4, <1>5, <1>6, <1>7, <1>8, <1>9 DEF P!AfficheAvant

(* mauvaise_methode_pending.c: the same, from sigpending.                *)
LEMMA AfficheAvant_mauvaise ==
  ASSUME Base, Signaux, prog = P!mauvaise_methode
  PROVE  P!AfficheAvant
<1>1. /\ \A p \in 1 .. 5 : p \in P!Pids /\ ip[p] \in Nat
      /\ \A p \in 1 .. 5 : P!Termine(p) => ip[p] = Lg(p) + 1
  BY Table_mauvaise_methode, Pids0 DEF Base, Types, Places
<1>2. ip[3] > 4 => P!Affiche(3)
  <2>1. 3 \in 1 .. L /\ 3 \in 1 .. Lg(3) /\ Op(3, 3) = "dit"
    BY Table_mauvaise_methode
  <2> QED BY <2>1, <1>1, Disent
<1>3. (ip[4] > 2 => P!Affiche(4)) /\ (ip[5] > 2 => P!Affiche(5))
  <2>1. 4 \in 1 .. L /\ 1 \in 1 .. Lg(4) /\ Op(4, 1) = "dit" /\ 5 \in 1 .. L /\ 1 \in 1 .. Lg(5) /\ Op(5, 1) = "dit"
    BY Table_mauvaise_methode
  <2> QED BY <2>1, <1>1, Disent
<1>4. ip[2] > 4 => P!Affiche(2)
  <2>1. 2 \in 1 .. L /\ 3 \in 1 .. Lg(2) /\ Op(2, 3) = "dit"
    BY Table_mauvaise_methode
  <2> QED BY <2>1, <1>1, Disent
<1>5. ip[2] > 4 => ip[4] > 2 /\ ip[3] > 4
  <2> SUFFICES ASSUME ip[2] > 4 PROVE ip[4] > 2 /\ ip[3] > 4
    OBVIOUS
  <2>1. 2 \in 1 .. L /\ 2 \in 1 .. Lg(2) /\ Op(2, 2) = "pending" /\ Ar(2, 2) = {"USR1", "USR2"} /\ 2 < ip[2]
    BY Table_mauvaise_methode, <1>1
  <2>2. Emis(2, "USR1") /\ Emis(2, "USR2")
    BY <2>1 DEF Signaux, SPending
  <2> QED BY <2>2, Appelle_mauvaise_methode
<1>6. ip[3] > 4 => ip[5] > 2
  <2> SUFFICES ASSUME ip[3] > 4 PROVE ip[5] > 2
    OBVIOUS
  <2>1. 3 \in 1 .. L /\ 2 \in 1 .. Lg(3) /\ Op(3, 2) = "pending" /\ Ar(3, 2) = {"USR1"} /\ 2 < ip[3]
    BY Table_mauvaise_methode, <1>1
  <2>2. Emis(3, "USR1")
    BY <2>1 DEF Signaux, SPending
  <2> QED BY <2>2, Appelle_mauvaise_methode
<1>7. ip[1] > 4 => ip[2] > 4
  <2> SUFFICES ASSUME ip[1] > 4 PROVE ip[2] > 4
    OBVIOUS
  <2>1. 1 \in 1 .. L /\ 3 \in 1 .. Lg(1) /\ Op(1, 3) = "pending" /\ Ar(1, 3) = {"USR1", "USR2"} /\ 3 < ip[1]
    BY Table_mauvaise_methode, <1>1
  <2>2. Emis(1, "USR1")
    BY <2>1 DEF Signaux, SPending
  <2> QED BY <2>2, Appelle_mauvaise_methode
<1>8. /\ P!Termine(1) => ip[1] > 4
      /\ P!Termine(2) => ip[2] > 4
      /\ P!Termine(3) => ip[3] > 4
  BY <1>1, Table_mauvaise_methode
<1>9. \A p \in 2 .. 5 : p = 2 \/ p = 3 \/ p = 4 \/ p = 5
  OBVIOUS
<1> QED BY <1>2, <1>3, <1>4, <1>5, <1>6, <1>7, <1>8, <1>9 DEF P!AfficheAvant

(* The programs where each signal is sent once.                            *)
Envois == P!Nom({"ex3", "ex3c", "mauvaise", "taille"})

(* The programs where each signal is sent once have the shape that       *)
(* Signaux is about.                                                     *)
LEMMA EnvoisOK == Base /\ Envois => Appelle
BY ParNom, Appelle_ex3, Appelle_ex3c, Appelle_mauvaise_methode, Appelle_taille_fic DEF Base, Types, Envois, P!Nom

(* AfficheAvant, in the three programs.                                  *)
LEMMA AfficheAvantOK == Base /\ (Envois => Signaux) => P!AfficheAvant
<1> SUFFICES ASSUME Base, Envois => Signaux, P!Nom({"ex3", "ex3c", "mauvaise"}) PROVE P!AfficheAvant
  BY DEF P!AfficheAvant
<1>1. Signaux
  BY DEF Envois, P!Nom
<1>2. prog = P!ex3 \/ prog = P!ex3c \/ prog = P!mauvaise_methode
  BY ParNom DEF Base, Types, P!Nom
<1> QED BY <1>1, <1>2, AfficheAvant_ex3, AfficheAvant_ex3c, AfficheAvant_mauvaise

(* How the state of a process q may change.                                *)
LEMMA EtatChange ==
  ASSUME Base, NEW p \in P!Pids, P!Pas(p), NEW q \in P!Pids
  PROVE  /\ etat[q] # "absent" => etat'[q] # "absent" /\ pere'[q] = pere[q]
         /\ P!Termine(q) => P!Termine(q)'
         /\ etat[q] = "fini" => etat'[q] = "fini"
         /\ etat[q] = "absent" => \/ etat'[q] = "absent" /\ pere'[q] = pere[q]
                                  \/ etat'[q] = "vif" /\ pere'[q] = p /\ ip[p] \in 1 .. Lg(p) /\ Monte(p)
                                     /\ Op(p, ip[p]) = "fork" /\ Ar(p, ip[p]) = q
         /\ etat[q] = "vif" /\ etat'[q] # "vif" => q = p /\ EFin(p)
<1>0. etat \in [P!Pids -> {"absent", "vif", "zombie", "fini"}] /\ pere \in [P!Pids -> 0 .. MaxProcessus] /\ etat[p] = "vif"
  BY Effets DEF Base, Types
<1> HIDE DEF P!Pids
<1>1. CASE EFin(p)
  BY <1>0, <1>1 DEF EFin, P!Termine
<1>2. CASE EDehors(p)
  BY <1>0, <1>2 DEF EDehors, P!Termine
<1>3. ASSUME NEW k \in 1 .. Lg(p), k = ip[p], EFork(p, k)
      PROVE  /\ etat[q] # "absent" => etat'[q] = etat[q] /\ pere'[q] = pere[q]
             /\ etat[q] = "absent" => \/ etat'[q] = "absent" /\ pere'[q] = pere[q]
                                      \/ etat'[q] = "vif" /\ pere'[q] = p /\ Monte(p) /\ Op(p, k) = "fork" /\ Ar(p, k) = q
  <2>1. PICK r : r = Ar(p, k)
    OBVIOUS
  <2>2. /\ etat[r] = "absent" /\ etat' = [etat EXCEPT ![r] = "vif"] /\ pere' = [pere EXCEPT ![r] = p]
        /\ Op(p, k) = "fork" /\ Monte(p)
    BY <1>3, <2>1 DEF EFork
  <2>3. CASE q = r
    BY <2>1, <2>2, <2>3, <1>0
  <2>4. CASE q # r
    BY <2>2, <2>4, <1>0
  <2> QED BY <2>3, <2>4
<1>4. ASSUME NEW r, etat[r] = "zombie", etat' = [etat EXCEPT ![r] = "fini"]
      PROVE  \/ etat'[q] = etat[q]
             \/ etat[q] = "zombie" /\ etat'[q] = "fini"
  BY <1>4, <1>0
<1>5. CASE ip[p] \in 1 .. Lg(p) /\ EFork(p, ip[p])
  BY <1>3, <1>5, <1>0 DEF P!Termine
<1>6. CASE EWait(p, ip[p]) \/ EWaitpid(p, ip[p])
  <2>1. pere' = pere /\ (etat' = etat \/ \E r : etat[r] = "zombie" /\ etat' = [etat EXCEPT ![r] = "fini"])
    BY <1>6 DEF EWait, EWaitpid
  <2> QED BY <1>0, <1>4, <2>1 DEF P!Termine
<1>7. CASE UNCHANGED <<etat, pere>>
  BY <1>0, <1>7 DEF P!Termine
<1> QED
  BY <1>1, <1>2, <1>5, <1>6, <1>7, Effets
  DEF Effet, EKill, ESuspend, EPending, EDit, EValeur, ELit, ERetour, EEcrit, ESem, Rien

(* chaine_fils_sigsuspend_kill.c: before the last process is created there *)
(* is no signal, and each process is at its fork or in sigsuspend.         *)
Lance == etat[N + 1] = "absent" => \A p \in P!Pids : pendants[p] = {} /\ ip[p] <= 2

(* Nobody has been sent a signal at first.                               *)
LEMMA LanceInit == P!Init => Lance
BY DEF P!Init, Lance

(* Before the last process of the chain exists nobody sends a signal.    *)
LEMMA LancePas ==
  ASSUME Base, prog = P!chaine_kill, Lance, NEW p \in P!Pids, P!Pas(p)
  PROVE  Lance'
<1> SUFFICES ASSUME etat'[N + 1] = "absent", NEW q \in P!Pids PROVE pendants'[q] = {} /\ ip'[q] <= 2
  BY DEF Lance
<1>0. N \in Nat \ {0} /\ N + 1 \in P!Pids /\ L = N + 1
  BY Nombre, Table_chaine_kill DEF P!Pids
<1>1. etat[N + 1] = "absent"
  BY <1>0, EtatChange
<1>2. \A r \in P!Pids : pendants[r] = {} /\ ip[r] <= 2 /\ ip[r] \in Nat \ {0}
  BY <1>1 DEF Lance, Base, Types
<1>3. etat[p] = "vif" /\ p \in 1 .. N
  BY <1>0, <1>1, Effets
<1>4. CASE EFin(p)
  BY <1>2, <1>4 DEF EFin
<1>5. CASE EDehors(p)
  BY <1>2, <1>5 DEF EDehors
<1>6. CASE ip[p] \in 1 .. Lg(p) /\ Effet(p, ip[p])
  <2>1. ip[p] = 1 \/ ip[p] = 2
    BY <1>2
  <2>2. CASE ip[p] = 1
    <3>1. Op(p, 1) = "fork"
      BY <1>0, <1>3, Table_chaine_kill
    <3>2. EFork(p, 1)
      BY <1>6, <2>2, <3>1 DEF Effet, EWait, EWaitpid, EKill, ESuspend, EPending, EDit, EValeur, ELit, ERetour, EEcrit, ESem
    <3>3. pendants' = pendants /\ ip' = [ip EXCEPT ![p] = 2]
      BY <2>2, <3>2 DEF EFork, Monte
    <3> QED BY <1>2, <3>3 DEF Base, Types
  <2>3. CASE ip[p] = 2
    <3>1. Op(p, 2) = "suspend"
      BY <1>0, <1>3, Table_chaine_kill
    <3>2. ESuspend(p, 2)
      BY <1>6, <2>3, <3>1 DEF Effet, EFork, EWait, EWaitpid, EKill, EPending, EDit, EValeur, ELit, ERetour, EEcrit, ESem
    <3> QED BY <3>2, <1>2 DEF ESuspend
  <2> QED BY <2>1, <2>2, <2>3
<1> QED BY <1>4, <1>5, <1>6, Effets

(* Each process of the chain is the son of the one before.                 *)
LEMMA Lignee ==
  ASSUME Base, L = N + 1,
         \A p \in 1 .. L : \A k \in 1 .. Lg(p) : Op(p, k) = "fork" => Ar(p, k) = p + 1,
         NEW q \in 2 .. N + 1, etat[q] # "absent"
  PROVE  pere[q] = q - 1 /\ etat[q - 1] # "absent"
<1>1. q \in P!Pids /\ q # 1
  BY Nombre, Pids0 DEF Base
<1>2. pere[q] # 0
  BY <1>1 DEF Base, Places
<1>3. pere[q] \in 1 .. L /\ etat[pere[q]] # "absent" /\ \E k \in 1 .. Lg(pere[q]) : Op(pere[q], k) = "fork" /\ Ar(pere[q], k) = q
  BY <1>1, <1>2 DEF Base, Places
<1>4. q = pere[q] + 1
  BY <1>3
<1>5. pere[q] = q - 1
  BY <1>3, <1>4, Nombre
<1> QED BY <1>3, <1>5

(* The processes before one that was created were created.               *)
LEMMA ChaineEntiere ==
  ASSUME Base, L = N + 1,
         \A p \in 1 .. L : \A k \in 1 .. Lg(p) : Op(p, k) = "fork" => Ar(p, k) = p + 1,
         NEW r \in 1 .. N + 1, etat[r] # "absent"
  PROVE  \A q \in 1 .. r : etat[q] # "absent"
<1> DEFINE K == {m \in Nat : m <= r - 1 => etat[r - m] # "absent"}
<1>0. r \in Nat /\ N \in Nat
  BY Nombre
<1>1. 0 \in K
  BY <1>0
<1>2. ASSUME NEW m \in Nat, m \in K PROVE m + 1 \in K
  <2> SUFFICES ASSUME m + 1 <= r - 1 PROVE etat[r - (m + 1)] # "absent"
    OBVIOUS
  <2>1. etat[r - m] # "absent" /\ r - m \in 2 .. N + 1
    BY <1>0, <1>2
  <2>2. etat[(r - m) - 1] # "absent"
    BY <2>1, Lignee
  <2>3. (r - m) - 1 = r - (m + 1)
    BY <1>0
  <2> QED BY <2>2, <2>3
<1>3. Nat \subseteq K
  <2> HIDE DEF K
  <2> QED BY <1>1, <1>2, Recurrence
<1>4. ASSUME NEW q \in 1 .. r PROVE etat[q] # "absent"
  <2>1. r - q \in Nat /\ r - q <= r - 1 /\ r - (r - q) = q
    BY <1>0
  <2>2. r - q \in K
    BY <2>1, <1>3
  <2> QED BY <2>1, <2>2
<1> QED BY <1>4

(* chaine_fils_sigsuspend_kill.c is such a chain.                        *)
LEMMA ForkChaine ==
  ASSUME prog = P!chaine_kill
  PROVE  L = N + 1 /\ \A p \in 1 .. L : Lg(p) >= 3 /\ \A k \in 1 .. Lg(p) : Op(p, k) = "fork" => Ar(p, k) = p + 1
<1>0. N \in Nat \ {0} /\ L = N + 1
  BY Nombre, Table_chaine_kill
<1> SUFFICES ASSUME NEW p \in 1 .. L PROVE Lg(p) >= 3 /\ \A k \in 1 .. Lg(p) : Op(p, k) = "fork" => Ar(p, k) = p + 1
  BY <1>0
<1>1. p = 1 \/ p \in 2 .. N \/ p = N + 1
  BY <1>0
<1>2. CASE p = 1
  <2>1. Lg(1) = 3
    BY Table_chaine_kill
  <2>2. \A k \in 1 .. 3 : k = 1 \/ k = 2 \/ k = 3
    OBVIOUS
  <2> QED BY <1>2, <2>1, <2>2, Table_chaine_kill
<1>3. CASE p \in 2 .. N
  <2>1. Lg(p) = 4
    BY <1>3, Table_chaine_kill
  <2>2. \A k \in 1 .. 4 : k = 1 \/ k = 2 \/ k = 3 \/ k = 4
    OBVIOUS
  <2> QED BY <1>3, <2>1, <2>2, Table_chaine_kill
<1>4. CASE p = N + 1
  <2>1. Lg(N + 1) = 5
    BY Table_chaine_kill
  <2>2. \A k \in 1 .. 5 : k = 1 \/ k = 2 \/ k = 3 \/ k = 4 \/ k = 5
    OBVIOUS
  <2> QED BY <1>4, <2>1, <2>2, Table_chaine_kill
<1> QED BY <1>1, <1>2, <1>3, <1>4

(* No process of the chain ends before all are created.                  *)
LEMMA ToutesCreeesOK ==
  ASSUME Base, P!Nom({"chaine"}) => Lance
  PROVE  P!ToutesCreees
<1> SUFFICES ASSUME P!Nom({"chaine"}), NEW p \in P!Crees, NEW q \in P!Crees, P!Termine(p) PROVE etat[q] # "absent"
  BY DEF P!ToutesCreees
<1>1. prog = P!chaine_kill
  BY ParNom DEF P!Nom, Base, Types
<1>2. p \in 1 .. L /\ q \in 1 .. L /\ p \in P!Pids /\ L = N + 1 /\ N \in Nat
  BY <1>1, ForkChaine, Pids0, Nombre DEF P!Crees, L, Base
<1>3. ip[p] = Lg(p) + 1 /\ Lg(p) >= 3 /\ Lg(p) \in Nat
  BY <1>1, <1>2, ForkChaine DEF Base, Places, Bien
<1>4. ~(ip[p] <= 2)
  BY <1>3
<1>5. etat[N + 1] # "absent"
  BY <1>2, <1>4 DEF Lance
<1>6. N + 1 \in 1 .. N + 1
  BY <1>2
<1> QED BY <1>1, <1>2, <1>5, <1>6, ForkChaine, ChaineEntiere

(* The effect of a call, by its name.                                    *)
LEMMA ParAppel ==
  ASSUME NEW p, NEW k, Effet(p, k)
  PROVE  /\ Op(p, k) = "fork" => EFork(p, k)
         /\ Op(p, k) = "wait" => EWait(p, k)
         /\ Op(p, k) \in {"waitpid", "statut"} => EWaitpid(p, k)
         /\ Op(p, k) = "kill" => EKill(p, k)
         /\ Op(p, k) = "suspend" => ESuspend(p, k)
         /\ Op(p, k) = "dit" => EDit(p, k)
         /\ Op(p, k) \in {"pose", "alea", "depose", "retire", "somme"} => EValeur(p, k)
         /\ Op(p, k) = "lit" => ELit(p, k)
         /\ Op(p, k) = "retour" => ERetour(p, k)
         /\ Op(p, k) \in {"write", "lseek"} => EEcrit(p, k)
BY DEF Effet, EFork, EWait, EWaitpid, EKill, ESuspend, EPending, EDit, EValeur, ELit, ERetour, EEcrit, ESem

(* The signal that kill leaves pending, when the process runs.           *)
LEMMA TueEn ==
  ASSUME Base, NEW p, NEW k, EKill(p, k), NEW q, q = Ar(p, k), NEW s, s = A3(p, k)
  PROVE  /\ \A r \in P!Pids : r # q => pendants'[r] = pendants[r]
         /\ q \in P!Pids => pendants'[q] = IF etat[q] = "vif" THEN pendants[q] \cup {s} ELSE pendants[q]
<1>1. pendants \in [P!Pids -> SUBSET P!Deux]
  BY DEF Base, Types
<1>2. pendants' = IF etat[q] = "vif" THEN [pendants EXCEPT ![q] = pendants[q] \cup {s}] ELSE pendants
  <2>1. pendants' = IF etat[Ar(p, k)] = "vif" THEN [pendants EXCEPT ![Ar(p, k)] = pendants[Ar(p, k)] \cup {A3(p, k)}] ELSE pendants
    BY DEF EKill
  <2> QED BY <2>1, Zenon
<1> QED BY <1>1, <1>2

(* Short sequences.                                                        *)
LEMMA Courtes ==
  ASSUME NEW a, NEW b, NEW c
  PROVE  /\ Append(<<>>, a) = <<a>> /\ Append(<<a>>, b) = <<a, b>> /\ Append(<<a, b>>, c) = <<a, b, c>>
<1>1. Append(<<>>, a) = <<a>> /\ Append(<<a>>, b) = <<a, b>> /\ Append(<<a, b>>, c) = <<a, b, c>>
  <2>1. Append(<<>>, a) = <<a>>
    OBVIOUS
  <2>0. PICK S0 : S0 = {a, b, c}
    OBVIOUS
  <2>2. Append(<<a>>, b) = <<a, b>>
    <3>1. <<a>> \in Seq(S0) /\ <<a, b>> \in Seq(S0) /\ b \in S0
      BY <2>0
    <3>2. PICK u : u = Append(<<a>>, b)
      OBVIOUS
    <3>3. u \in Seq(S0) /\ Len(u) = 2 /\ u[1] = a /\ u[2] = b
      <4>1. Len(<<a>>) = 1 /\ <<a>>[1] = a
        OBVIOUS
      <4>2. /\ u \in Seq(S0) /\ Len(u) = Len(<<a>>) + 1
            /\ \A h \in 1 .. Len(<<a>>) : u[h] = <<a>>[h]
            /\ u[Len(<<a>>) + 1] = b
        BY <3>1, <3>2, AppendProperties
      <4> QED BY <4>1, <4>2
    <3>4. PICK w : w = <<a, b>>
      OBVIOUS
    <3>5. Len(w) = 2 /\ w[1] = a /\ w[2] = b /\ w \in Seq(S0)
      BY <3>1, <3>4
    <3>6. \A h \in 1 .. 2 : h = 1 \/ h = 2
      OBVIOUS
    <3>7. u = w
      BY <3>3, <3>5, <3>6, SeqEqual
    <3> QED BY <3>2, <3>4, <3>7
  <2>3. Append(<<a, b>>, c) = <<a, b, c>>
    <3>1. <<a, b>> \in Seq(S0) /\ <<a, b, c>> \in Seq(S0) /\ c \in S0
      BY <2>0
    <3>2. PICK u : u = Append(<<a, b>>, c)
      OBVIOUS
    <3>3. u \in Seq(S0) /\ Len(u) = 3 /\ u[1] = a /\ u[2] = b /\ u[3] = c
      <4>1. Len(<<a, b>>) = 2 /\ <<a, b>>[1] = a /\ <<a, b>>[2] = b
        OBVIOUS
      <4>2. /\ u \in Seq(S0) /\ Len(u) = Len(<<a, b>>) + 1
            /\ \A h \in 1 .. Len(<<a, b>>) : u[h] = <<a, b>>[h]
            /\ u[Len(<<a, b>>) + 1] = c
        BY <3>1, <3>2, AppendProperties
      <4> QED BY <4>1, <4>2
    <3>4. PICK w : w = <<a, b, c>>
      OBVIOUS
    <3>5. Len(w) = 3 /\ w[1] = a /\ w[2] = b /\ w[3] = c /\ w \in Seq(S0)
      BY <3>1, <3>4
    <3>6. \A h \in 1 .. 3 : h = 1 \/ h = 2 \/ h = 3
      OBVIOUS
    <3>7. u = w
      BY <3>3, <3>5, <3>6, SeqEqual
    <3> QED BY <3>2, <3>4, <3>7
  <2> QED BY <2>1, <2>2, <2>3
<1> QED BY <1>1

(* p2_p1_p3.c, as long as no signal has come outside of sigsuspend.        *)
Creation == <<1, "USR1", 0>>
Mort     == <<1, "USR2", 0>>
Message  == <<1, "dit", 0>>

(* How far P1 is, by what trace tells.                                   *)
Degres ==
    \/ trace = <<>> /\ ip[1] \in 1 .. 2 /\ (ip[3] = 1 => pendants[1] = {}) /\ (ip[3] = 2 => "USR1" \in pendants[1])
    \/ trace = <<Creation>> /\ ip[1] = 3 /\ "USR1" \notin pendants[1] /\ ip[3] = 2
    \/ trace = <<Creation, Mort>> /\ ip[1] = 4 /\ pendants[1] = {} /\ ip[3] = 2 /\ ip[2] = 4
    \/ trace = <<Creation, Mort, Message>> /\ ip[1] \in 5 .. 6 /\ pendants[1] = {} /\ ip[3] = 2 /\ ip[2] = 4

(* P3 is a son of P2 that has sent its signal when P2 has waited for it. *)
P3 == /\ ip[2] = 2 => pere[3] = 2 /\ etat[3] \in {"vif", "zombie"}
      /\ ip[2] > 2 => ip[3] = 2

(* The invariant of p2_p1_p3.c.                                          *)
Trois ==
    /\ P3
    /\ val[1] = 0
    /\ pendants[2] = {} /\ pendants[3] = {}
    /\ "USR2" \in pendants[1] => ip[2] = 4
    /\ ~perdu => Degres

(* It holds at first.                                                    *)
LEMMA TroisInit == P!Init => Trois
<1> SUFFICES ASSUME P!Init PROVE Trois
  OBVIOUS
<1>1. {1, 2, 3} \subseteq P!Pids
  BY MCProcessusAssumption DEF P!ProcessusAssumption, P!Pids
<1> HIDE DEF P!Pids
<1> QED BY <1>1 DEF P!Init, Trois, P3, Degres

(* The calls of the three processes, and who the father of P3 is.        *)
LEMMA Table3 ==
  ASSUME Base, prog = P!p2_p1_p3
  PROVE  /\ L = 3 /\ {1, 2, 3} \subseteq P!Pids
         /\ ip[1] \in 1 .. 6 /\ ip[2] \in 1 .. 4 /\ ip[3] \in 1 .. 2
         /\ ip[1] \in 1 .. 5 => etat[1] = "vif"
         /\ ip[2] \in 2 .. 3 => etat[2] = "vif"
         /\ \A q \in P!Pids : pere[q] = 2 <=> q = 3 /\ pere[3] = 2
         /\ pere[3] \in {0, 2} /\ pere[1] = 0
<1>0. L = 3 /\ {1, 2, 3} \subseteq P!Pids /\ Lg(1) = 5 /\ Lg(2) = 3 /\ Lg(3) = 1
  BY MCProcessusAssumption, Table_p2_p1_p3 DEF P!ProcessusAssumption, P!Pids
<1> HIDE DEF P!Pids
<1>1. \A p \in {1, 2, 3} : ip[p] \in 1 .. Lg(p) + 1
  <2> TAKE p \in {1, 2, 3}
  <2>1. p \in P!Pids /\ Lg(p) + 1 \in Nat /\ 1 \in 1 .. Lg(p) + 1
    BY <1>0
  <2> QED BY <2>1 DEF Base, Places
<1>2. /\ ip[1] \in 1 .. 5 => etat[1] = "vif"
      /\ ip[2] \in 2 .. 3 => etat[2] = "vif"
  <2>1. etat[1] # "absent" /\ (ip[2] # 1 => etat[2] # "absent")
    BY <1>0 DEF Base, Places
  <2>2. etat \in [P!Pids -> {"absent", "vif", "zombie", "fini"}] /\ (P!Termine(1) => ip[1] = 6) /\ (P!Termine(2) => ip[2] = 4)
    <3>1. (P!Termine(1) => ip[1] = Lg(1) + 1) /\ (P!Termine(2) => ip[2] = Lg(2) + 1)
      BY <1>0 DEF Base, Places
    <3>2. etat \in [P!Pids -> {"absent", "vif", "zombie", "fini"}]
      BY DEF Base, Types
    <3> QED BY <1>0, <3>1, <3>2
  <2> QED BY <1>0, <2>1, <2>2 DEF P!Termine
<1>3. /\ \A k \in 1 .. 5 : Op(1, k) = "fork" => Ar(1, k) = 2
      /\ \A k \in 1 .. 3 : Op(2, k) = "fork" => Ar(2, k) = 3
      /\ Op(3, 1) # "fork"
  <2>1. \A k \in 1 .. 5 : k = 1 \/ k = 2 \/ k = 3 \/ k = 4 \/ k = 5
    OBVIOUS
  <2>2. \A k \in 1 .. 3 : k = 1 \/ k = 2 \/ k = 3
    OBVIOUS
  <2> QED BY <2>1, <2>2, Table_p2_p1_p3
<1>4. \A q \in P!Pids : pere[q] # 0 => (pere[q] = 1 /\ q = 2) \/ (pere[q] = 2 /\ q = 3)
  <2> SUFFICES ASSUME NEW q \in P!Pids, pere[q] # 0 PROVE (pere[q] = 1 /\ q = 2) \/ (pere[q] = 2 /\ q = 3)
    OBVIOUS
  <2>1. pere[q] \in 1 .. 3 /\ \E k \in 1 .. Lg(pere[q]) : Op(pere[q], k) = "fork" /\ Ar(pere[q], k) = q
    BY <1>0 DEF Base, Places
  <2>2. pere[q] = 1 \/ pere[q] = 2 \/ pere[q] = 3
    BY <2>1
  <2>3. \A k \in 1 .. 1 : k = 1
    OBVIOUS
  <2> QED BY <1>0, <1>3, <2>1, <2>2, <2>3
<1>5. pere[1] = 0
  BY DEF Base, Places
<1>6. /\ \A q \in P!Pids : pere[q] = 2 <=> q = 3 /\ pere[3] = 2
      /\ pere[3] \in {0, 2}
  BY <1>0, <1>4
<1> QED BY <1>0, <1>1, <1>2, <1>5, <1>6

(* Process 3 has sent its signal when process 2 has waited for it.         *)
LEMMA P3Pas ==
  ASSUME Base, prog = P!p2_p1_p3, Trois, NEW p \in P!Pids, P!Pas(p)
  PROVE  P3'
<1> USE Table3
<1>0. /\ etat \in [P!Pids -> {"absent", "vif", "zombie", "fini"}] /\ ip \in [P!Pids -> Nat \ {0}]
      /\ pere \in [P!Pids -> 0 .. MaxProcessus] /\ etat[p] = "vif" /\ p \in 1 .. 3
  BY Effets DEF Base, Types
<1>t. Op(2, 1) = "fork" /\ Ar(2, 1) = 3 /\ Op(2, 2) = "wait" /\ Op(2, 3) = "kill" /\ Lg(2) = 3 /\ Lg(3) = 1
  BY Table_p2_p1_p3
<1> HIDE DEF P!Pids
<1>p. p = 1 \/ p = 2 \/ p = 3
  BY <1>0
<1>z. P!Termine(3) => ip[3] = 2
  BY <1>t DEF Base, Places
<1>1. CASE EFin(p)
  <2>1. ip' = ip /\ pere' = pere
    BY <1>1 DEF EFin
  <2>2. ASSUME ip[2] = 2 PROVE etat'[3] \in {"vif", "zombie"}
    <3>1. p # 2
      BY <2>2, <1>1, <1>t DEF EFin
    <3>2. CASE p = 3
      BY <2>2, <3>2, <1>1 DEF EFin, Trois, P3
    <3>3. CASE p = 1
      BY <2>2, <3>3, <1>1 DEF EFin, Trois, P3
    <3> QED BY <3>1, <3>2, <3>3, <1>p
  <2> QED BY <2>1, <2>2 DEF Trois, P3
<1>2. CASE EDehors(p)
  BY <1>2 DEF EDehors, Trois, P3
<1>3. CASE ip[p] \in 1 .. Lg(p) /\ Effet(p, ip[p])
  <2>1. CASE p = 2
    <3>1. ip[2] = 1 \/ ip[2] = 2 \/ ip[2] = 3
      BY <1>3, <2>1, <1>t
    <3>2. CASE ip[2] = 1
      <4>1. EFork(2, 1)
        BY <1>3, <2>1, <3>2, <1>t, ParAppel
      <4>2. ip'[2] = 2 /\ pere'[3] = 2 /\ etat'[3] = "vif"
        BY <4>1, <1>t, <1>0, <3>2 DEF EFork, Monte
      <4> QED BY <4>2 DEF P3
    <3>3. CASE ip[2] = 2
      <4>1. EWait(2, 2)
        BY <1>3, <2>1, <3>3, <1>t, ParAppel
      <4>2. 3 \in P!Fils(2)
        BY <3>3 DEF P!Fils, Trois, P3
      <4>3. PICK q \in P!Fils(2) : etat[q] = "zombie" /\ ip' = [ip EXCEPT ![2] = 3]
        BY <4>1, <4>2, <3>3 DEF EWait, Monte
      <4>4. q = 3
        BY DEF P!Fils
      <4>5. ip[3] = 2
        BY <4>3, <4>4, <1>z DEF P!Termine
      <4> QED BY <4>3, <4>5, <1>0 DEF P3
    <3>4. CASE ip[2] = 3
      <4>1. EKill(2, 3)
        BY <1>3, <2>1, <3>4, <1>t, ParAppel
      <4> QED BY <4>1, <1>0, <3>4 DEF EKill, Monte, Trois, P3
    <3> QED BY <3>1, <3>2, <3>3, <3>4
  <2>2. CASE p # 2
    <3>1. ip'[2] = ip[2] /\ (ip[3] = 2 => ip'[3] = 2)
      <4>1. \/ ip' = ip \/ ip' = [ip EXCEPT ![p] = ip[p] + 1]
        <5>1. ip[p] \in 1 .. Lg(p) /\ Op(p, ip[p]) \notin {"lit", "retour"}
          <6>1. p = 1 \/ p = 3
            BY <1>p, <2>2
          <6>2. \A k \in 1 .. 5 : k = 1 \/ k = 2 \/ k = 3 \/ k = 4 \/ k = 5
            OBVIOUS
          <6>3. \A k \in 1 .. 1 : k = 1
            OBVIOUS
          <6> QED BY <1>3, <6>1, <6>2, <6>3, Table_p2_p1_p3
        <5> QED
          BY <1>3, <5>1
          DEF Effet, EFork, EWait, EWaitpid, EKill, ESuspend, EPending, EDit, EValeur, ELit, ERetour, EEcrit, ESem, Monte
      <4>2. p = 3 => ip[3] # 2
        BY <1>3, <1>t
      <4> QED BY <4>1, <4>2, <2>2, <1>0
    <3>2. ASSUME ip[2] = 2 PROVE pere'[3] = 2 /\ etat'[3] \in {"vif", "zombie"}
      <4>1. pere[3] = 2 /\ etat[3] \in {"vif", "zombie"}
        BY <3>2 DEF Trois, P3
      <4>2. pere'[3] = 2
        BY <4>1, EtatChange
      <4>3. CASE p = 3
        <5>1. ip[3] = 1
          BY <4>3, <1>3, <1>t
        <5>2. EKill(3, 1)
          BY <4>3, <5>1, <1>3, ParAppel, Table_p2_p1_p3
        <5> QED BY <4>1, <4>2, <5>2 DEF EKill
      <4>4. CASE p = 1
        <5>1. etat'[3] = etat[3]
          <6>1. CASE EFork(1, ip[1])
            <7>1. Ar(1, ip[1]) # 3
              BY <6>1, <4>1 DEF EFork
            <7> QED BY <6>1, <7>1, <1>0 DEF EFork
          <6>2. CASE EWait(1, ip[1])
            <7>1. 3 \notin P!Fils(1)
              BY <4>1 DEF P!Fils
            <7> QED BY <6>2, <7>1, <1>0 DEF EWait
          <6>3. Op(1, ip[1]) \notin {"waitpid", "statut"}
            <7>1. ip[1] = 1 \/ ip[1] = 2 \/ ip[1] = 3 \/ ip[1] = 4 \/ ip[1] = 5
              BY <1>3, <4>4, Table_p2_p1_p3
            <7> QED BY <7>1, Table_p2_p1_p3
          <6>4. CASE etat' = etat
            BY <6>4
          <6> QED
            BY <1>3, <4>4, <6>1, <6>2, <6>3, <6>4
            DEF Effet, EWaitpid, EKill, ESuspend, EPending, EDit, EValeur, ELit, ERetour, EEcrit, ESem, Rien
        <5> QED BY <4>1, <4>2, <5>1
      <4> QED BY <4>3, <4>4, <1>p, <2>2
    <3> QED BY <3>1, <3>2 DEF Trois, P3
  <2> QED BY <2>1, <2>2
<1> QED BY <1>1, <1>2, <1>3, Effets

(* Every step keeps it: the signal of P2 is sent after that of P3 only.  *)
LEMMA TroisPas ==
  ASSUME Base, prog = P!p2_p1_p3, Trois, NEW p \in P!Pids, P!Pas(p)
  PROVE  Trois'
<1> USE Table3
<1>0. /\ ip \in [P!Pids -> Nat \ {0}] /\ pendants \in [P!Pids -> SUBSET P!Deux] /\ p \in 1 .. 3
      /\ 1 \in P!Pids /\ 2 \in P!Pids /\ 3 \in P!Pids
      /\ val \in [P!Pids -> Nat] /\ Lg(p) \in Nat /\ perdu \in BOOLEAN
  BY Effets DEF Base, Types
<1>p. p = 1 \/ p = 2 \/ p = 3
  BY <1>0
<1>3. P3'
  BY P3Pas
<1> HIDE DEF P!Pids
<1> DEFINE Reste == /\ val'[1] = 0 /\ pendants'[2] = {} /\ pendants'[3] = {}
                    /\ "USR2" \in pendants'[1] => ip'[2] = 4
                    /\ ~perdu' => Degres'
<1>a. val[1] = 0 /\ pendants[2] = {} /\ pendants[3] = {} /\ ("USR2" \in pendants[1] => ip[2] = 4) /\ (~perdu => Degres)
      /\ (ip[2] > 2 => ip[3] = 2)
  BY DEF Trois, P3
<1>e. UNCHANGED <<trace, ip, pendants>> /\ (perdu' <=> perdu) => (~perdu' => Degres')
  BY <1>a DEF Degres
<1>4. CASE EFin(p)
  <2>1. UNCHANGED <<trace, ip, pendants, perdu, val>>
    BY <1>4 DEF EFin
  <2>2. Reste
    BY <2>1, <1>a, <1>e
  <2> QED BY <2>2, <1>3 DEF Trois
<1>5. CASE EDehors(p)
  <2>1. PICK s \in P!Deux : s \in pendants[p] /\ pendants' = [pendants EXCEPT ![p] = @ \ {s}]
    BY <1>5 DEF EDehors
  <2>2. perdu' /\ val' = val /\ ip' = ip
    BY <1>5 DEF EDehors
  <2>3. p = 1
    BY <1>p, <1>a, <2>1
  <2>4. pendants'[2] = {} /\ pendants'[3] = {} /\ pendants'[1] \subseteq pendants[1]
    BY <2>1, <2>3, <1>0, <1>a
  <2>5. Reste
    BY <2>2, <2>4, <1>a
  <2> QED BY <2>5, <1>3 DEF Trois
<1>6. ASSUME ip[p] \in 1 .. Lg(p), Effet(p, ip[p]), p = 1 PROVE Reste
  <2>1. Lg(1) = 5 /\ ip[1] \in 1 .. 5
    BY <1>6, Table_p2_p1_p3
  <2>2. ip[1] = 1 \/ ip[1] = 2 \/ ip[1] = 3 \/ ip[1] = 4 \/ ip[1] = 5
    BY <2>1
  <2>3. CASE ip[1] = 1
    <3>1. Effet(1, 1) /\ Op(1, 1) = "fork"
      BY <1>6, <2>3, Table_p2_p1_p3
    <3>2. EFork(1, 1)
      BY <3>1, ParAppel
    <3>3. UNCHANGED <<pendants, val, trace, perdu>> /\ ip' = [ip EXCEPT ![1] = 2]
      BY <2>3, <3>2 DEF EFork, Monte
    <3>4. ip'[1] = 2 /\ ip'[2] = ip[2] /\ ip'[3] = ip[3]
      BY <3>3, <1>0
    <3>5. ~perdu' => Degres'
      BY <1>a, <2>3, <3>3, <3>4 DEF Degres
    <3> QED BY <1>a, <3>3, <3>4, <3>5
  <2>4. ASSUME NEW k \in {2, 3}, ip[1] = k PROVE Reste
    <3>1. Effet(1, k) /\ Op(1, k) = "suspend"
      BY <1>6, <2>4, Table_p2_p1_p3
    <3>2. ESuspend(1, k)
      BY <3>1, ParAppel
    <3>3. PICK s \in P!Deux : /\ s \in pendants[1] /\ (perdu' <=> perdu \/ pendants[1] \ ({} \cup {s}) # {})
                              /\ pendants' = [pendants EXCEPT ![1] = @ \ {s}]
                              /\ trace' = Append(trace, <<1, s, 0>>)
      <4>1. prog.masque = {}
        BY Table_p2_p1_p3
      <4> QED BY <3>2, <4>1, <1>0 DEF ESuspend
    <3>4. val' = val /\ ip' = [ip EXCEPT ![1] = k + 1]
      BY <3>2, <2>4 DEF ESuspend, Monte
    <3>5. ip'[1] = k + 1 /\ ip'[2] = ip[2] /\ ip'[3] = ip[3] /\ pendants'[1] = pendants[1] \ {s}
          /\ pendants'[2] = pendants[2] /\ pendants'[3] = pendants[3]
      BY <3>3, <3>4, <1>0
    <3>6. ASSUME ~perdu' PROVE Degres'
      <4>1. ~perdu /\ pendants[1] = {s} /\ Degres /\ pendants'[1] = {}
        BY <3>3, <3>5, <3>6, <1>a
      <4>2. s = "USR1" \/ s = "USR2"
        BY DEF P!Deux
      <4>3. CASE k = 2
        <5>1. trace = <<>> /\ (ip[3] = 1 => pendants[1] = {}) /\ (ip[3] = 2 => "USR1" \in pendants[1])
          BY <4>1, <4>3, <2>4 DEF Degres
        <5>2. ip[3] = 2
          BY <5>1, <4>1
        <5>3. s = "USR1"
          BY <5>1, <5>2, <4>1
        <5>4. trace' = <<Creation>>
          BY <5>1, <5>3, <3>3, Courtes DEF Creation
        <5> QED BY <5>2, <5>4, <3>5, <4>1, <4>3 DEF Degres
      <4>4. CASE k = 3
        <5>1. trace = <<Creation>> /\ "USR1" \notin pendants[1] /\ ip[3] = 2
          BY <4>1, <4>4, <2>4 DEF Degres
        <5>2. s = "USR2" /\ ip[2] = 4
          BY <5>1, <4>1, <4>2, <1>a
        <5>3. trace' = <<Creation, Mort>>
          BY <5>1, <5>2, <3>3, Courtes DEF Mort
        <5> QED BY <5>1, <5>2, <5>3, <3>5, <4>1, <4>4 DEF Degres
      <4> QED BY <4>3, <4>4
    <3>7. "USR2" \in pendants'[1] => ip'[2] = 4
      BY <3>5, <1>a
    <3> QED BY <1>a, <3>4, <3>5, <3>6, <3>7
  <2>5. CASE ip[1] = 4
    <3>1. Effet(1, 4) /\ Op(1, 4) = "dit"
      BY <1>6, <2>5, Table_p2_p1_p3
    <3>2. EDit(1, 4)
      BY <3>1, ParAppel
    <3>3. /\ UNCHANGED <<pendants, val, perdu>> /\ ip' = [ip EXCEPT ![1] = 5]
          /\ trace' = Append(trace, Message)
      BY <2>5, <3>2, <1>a DEF EDit, Monte, Message
    <3>4. ip'[1] = 5 /\ ip'[2] = ip[2] /\ ip'[3] = ip[3]
      BY <3>3, <1>0
    <3>5. ASSUME ~perdu' PROVE Degres'
      <4>1. trace = <<Creation, Mort>> /\ pendants[1] = {} /\ ip[3] = 2 /\ ip[2] = 4
        BY <1>a, <2>5, <3>3, <3>5 DEF Degres
      <4>2. trace' = <<Creation, Mort, Message>>
        BY <4>1, <3>3, Courtes
      <4> QED BY <4>1, <4>2, <3>3, <3>4 DEF Degres
    <3> QED BY <1>a, <3>3, <3>4, <3>5
  <2>6. CASE ip[1] = 5
    <3>1. Effet(1, 5) /\ Op(1, 5) = "wait"
      BY <1>6, <2>6, Table_p2_p1_p3
    <3>2. EWait(1, 5)
      BY <3>1, ParAppel
    <3>3. UNCHANGED <<pendants, val, trace, perdu>> /\ ip' = [ip EXCEPT ![1] = 6]
      BY <2>6, <3>2 DEF EWait, Monte
    <3>4. ip'[1] = 6 /\ ip'[2] = ip[2] /\ ip'[3] = ip[3]
      BY <3>3, <1>0
    <3>5. ~perdu' => Degres'
      BY <1>a, <2>6, <3>3, <3>4 DEF Degres
    <3> QED BY <1>a, <3>3, <3>4, <3>5
  <2> QED BY <2>2, <2>3, <2>4, <2>5, <2>6
<1>7. ASSUME ip[p] \in 1 .. Lg(p), Effet(p, ip[p]), p = 2 PROVE Reste
  <2>1. ip[2] = 1 \/ ip[2] = 2 \/ ip[2] = 3
    BY <1>7, Table_p2_p1_p3
  <2>2. CASE ip[2] \in {1, 2}
    <3>1. EFork(2, ip[2]) \/ EWait(2, ip[2])
      BY <1>7, <2>2, Table_p2_p1_p3, ParAppel
    <3>2. UNCHANGED <<pendants, val, trace, perdu>> /\ ip' = [ip EXCEPT ![2] = ip[2] + 1]
      BY <3>1 DEF EFork, EWait, Monte
    <3>3. ip'[1] = ip[1] /\ ip[2] # 4 /\ ip'[3] = ip[3]
      BY <2>2, <3>2, <1>0
    <3>4. ~perdu' => Degres'
      BY <1>a, <3>2, <3>3 DEF Degres
    <3> QED BY <1>a, <3>2, <3>3, <3>4
  <2>3. CASE ip[2] = 3
    <3>1. EKill(2, 3) /\ Ar(2, 3) = 1 /\ A3(2, 3) = "USR2"
      BY <1>7, <2>3, Table_p2_p1_p3, ParAppel
    <3>2. /\ UNCHANGED <<val, trace, perdu>> /\ ip' = [ip EXCEPT ![2] = 4]
          /\ \A r \in P!Pids : r # 1 => pendants'[r] = pendants[r]
          /\ pendants'[1] = IF etat[1] = "vif" THEN pendants[1] \cup {"USR2"} ELSE pendants[1]
      <4>1. UNCHANGED <<val, trace, perdu>> /\ ip' = [ip EXCEPT ![2] = 4]
        BY <3>1, <2>3 DEF EKill, Monte
      <4> QED BY <1>0, <3>1, <4>1, TueEn
    <3>3. /\ ip'[1] = ip[1] /\ ip'[2] = 4 /\ ip'[3] = ip[3] /\ ip[3] = 2 /\ pendants'[2] = {} /\ pendants'[3] = {}
          /\ \A s : s # "USR2" => (s \in pendants'[1] <=> s \in pendants[1])
      <4>1. ip'[1] = ip[1] /\ ip'[2] = 4 /\ ip'[3] = ip[3] /\ ip[3] = 2
        BY <2>3, <3>2, <1>0, <1>a
      <4>2. pendants'[2] = pendants[2] /\ pendants'[3] = pendants[3]
            /\ pendants'[1] \in {pendants[1], pendants[1] \cup {"USR2"}}
        BY <1>0, <3>2
      <4> QED BY <4>1, <4>2, <1>a
    <3>4. ~perdu' => Degres'
      BY <1>a, <3>2, <3>3, <2>3 DEF Degres
    <3> QED BY <1>a, <3>2, <3>3, <3>4
  <2> QED BY <2>1, <2>2, <2>3
<1>8. ASSUME ip[p] \in 1 .. Lg(p), Effet(p, ip[p]), p = 3 PROVE Reste
  <2>1. ip[3] = 1
    BY <1>8, Table_p2_p1_p3
  <2>2. EKill(3, 1) /\ Ar(3, 1) = 1 /\ A3(3, 1) = "USR1"
    BY <1>8, <2>1, Table_p2_p1_p3, ParAppel
  <2>3. /\ UNCHANGED <<val, trace, perdu>> /\ ip' = [ip EXCEPT ![3] = 2]
        /\ \A r \in P!Pids : r # 1 => pendants'[r] = pendants[r]
        /\ pendants'[1] = IF etat[1] = "vif" THEN pendants[1] \cup {"USR1"} ELSE pendants[1]
    <3>1. UNCHANGED <<val, trace, perdu>> /\ ip' = [ip EXCEPT ![3] = 2]
      BY <2>2, <2>1 DEF EKill, Monte
    <3> QED BY <1>0, <2>2, <3>1, TueEn
  <2>4. /\ ip'[1] = ip[1] /\ ip'[2] = ip[2] /\ ip'[3] = 2 /\ pendants'[2] = {} /\ pendants'[3] = {}
        /\ \A s : s # "USR1" => (s \in pendants'[1] <=> s \in pendants[1])
        /\ etat[1] = "vif" => "USR1" \in pendants'[1]
    <3>1. ip'[1] = ip[1] /\ ip'[2] = ip[2] /\ ip'[3] = 2
      BY <2>3, <1>0, <1>a
    <3>2. pendants'[2] = pendants[2] /\ pendants'[3] = pendants[3]
          /\ pendants'[1] = IF etat[1] = "vif" THEN pendants[1] \cup {"USR1"} ELSE pendants[1]
      BY <1>0, <2>3
    <3> QED BY <3>1, <3>2, <1>a
  <2>5. ASSUME ~perdu' PROVE Degres'
    <3>1. trace = <<>> /\ ip[1] \in 1 .. 2
      BY <1>a, <2>1, <2>3, <2>5 DEF Degres
    <3>2. "USR1" \in pendants'[1]
      BY <3>1, <2>4
    <3> QED BY <3>1, <3>2, <2>3, <2>4 DEF Degres
  <2> QED BY <1>a, <2>3, <2>4, <2>5
<1>9. CASE ip[p] \in 1 .. Lg(p) /\ Effet(p, ip[p])
  <2>1. Reste
    BY <1>p, <1>6, <1>7, <1>8, <1>9
  <2> QED BY <2>1, <1>3 DEF Trois
<1> QED BY <1>4, <1>5, <1>9, Effets

(* P1 handles the creation, then the end, then displays.                 *)
LEMMA OrdreDesSignauxOK ==
  ASSUME P!Nom({"p2"}) => Trois
  PROVE  P!OrdreDesSignaux
<1>1. SUFFICES ASSUME Degres
               PROVE  trace \in {<<>>, <<Creation>>, <<Creation, Mort>>, <<Creation, Mort, Message>>}
  BY DEF P!OrdreDesSignaux, Trois, Creation, Mort, Message
<1> HIDE DEF Creation, Mort, Message
<1> QED BY <1>1 DEF Degres

(* In a program without loops back, what has been displayed has been passed.*)
SansRetour == \A p \in 1 .. L : \A k \in 1 .. Lg(p) : Op(p, k) # "retour"

(* The process has passed a display.                                     *)
PasseDit(p) == p \in 1 .. L /\ \E j \in 1 .. Lg(p) : j < ip[p] /\ Op(p, j) = "dit"

(* Who has displayed has passed a display.                               *)
Dits == \A k \in 1 .. Len(trace) : trace[k][2] = "dit" => PasseDit(trace[k][1])

(* Without the end of a loop, no ip goes back.                           *)
LEMMA Avance2 ==
  ASSUME Base, SansRetour, NEW p \in P!Pids, P!Pas(p)
  PROVE  \A q \in P!Pids : ip'[q] >= ip[q] /\ ip'[q] \in Nat /\ ip[q] \in Nat
<1>0. /\ p \in 1 .. L /\ Lg(p) \in Nat /\ ip[p] \in 1 .. Lg(p) + 1
      /\ EFin(p) \/ EDehors(p) \/ (ip[p] \in 1 .. Lg(p) /\ Effet(p, ip[p]))
  BY Effets
<1>1. \A q \in P!Pids : ip[q] \in Nat
  BY DEF Base, Types
<1>2. \/ ip' = ip \/ ip' = [ip EXCEPT ![p] = ip[p] + 1]
      \/ ip[p] \in 1 .. Lg(p) /\ ip' = [ip EXCEPT ![p] = Lg(p) + 1]
  <2>1. CASE EFin(p) \/ EDehors(p)
    BY <2>1 DEF EFin, EDehors
  <2>2. CASE ip[p] \in 1 .. Lg(p) /\ Effet(p, ip[p])
    <3>1. ~ERetour(p, ip[p])
      BY <2>2, <1>0 DEF ERetour, SansRetour
    <3> QED
      BY <2>2, <3>1
      DEF Effet, EFork, EWait, EWaitpid, EKill, ESuspend, EPending, EDit, EValeur, ELit, EEcrit, ESem, Monte
  <2> QED BY <1>0, <2>1, <2>2
<1>3. \A q \in P!Pids : ip \in [P!Pids -> Nat \ {0}]
  BY DEF Base, Types
<1> QED BY <1>0, <1>1, <1>2, <1>3

(* Nothing is displayed at first.                                        *)
LEMMA DitsInit == P!Init => Dits
BY DEF P!Init, Dits

(* Every step keeps it.                                                  *)
LEMMA DitsPas ==
  ASSUME Base, SansRetour, Dits, NEW p \in P!Pids, P!Pas(p)
  PROVE  Dits'
<1>0. prog' = prog /\ p \in 1 .. L /\ Lg(p) \in Nat /\ 1 .. L \subseteq P!Pids
  BY Effets, Pids0 DEF Base
<1>1. L' = L /\ (\A r, k : Lg(r)' = Lg(r) /\ Op(r, k)' = Op(r, k))
  BY <1>0 DEF L, Lg, Op
<1>2. ASSUME NEW q, PasseDit(q) PROVE PasseDit(q)'
  <2>1. q \in 1 .. L /\ Lg(q) \in Nat
    BY <1>2 DEF PasseDit, Base, Bien
  <2>2. ip'[q] >= ip[q] /\ ip'[q] \in Nat /\ ip[q] \in Nat
    BY <2>1, <1>0, Avance2
  <2>3. PICK j \in 1 .. Lg(q) : j < ip[q] /\ Op(q, j) = "dit"
    BY <1>2 DEF PasseDit
  <2>4. j < ip'[q]
    BY <2>1, <2>2, <2>3
  <2> QED BY <2>1, <2>3, <2>4, <1>1 DEF PasseDit
<1>3. CASE trace' = trace
  BY <1>2, <1>3 DEF Dits
<1>4. ASSUME NEW o, NEW v, trace' = Append(trace, <<p, o, v>>), o = "dit" => PasseDit(p)'
      PROVE  Dits'
  <2>1. trace \in Seq(Traces) /\ Len(trace) \in Nat
    BY DEF Base, Types
  <2>2. /\ Len(trace') = Len(trace) + 1 /\ trace'[Len(trace) + 1] = <<p, o, v>>
        /\ \A k \in 1 .. Len(trace) : trace'[k] = trace[k]
    BY <2>1, <1>4, AppendProperties
  <2> SUFFICES ASSUME NEW k \in 1 .. Len(trace'), trace'[k][2] = "dit", NEW x, x = trace'[k][1] PROVE PasseDit(x)'
    BY DEF Dits
  <2>3. CASE k \in 1 .. Len(trace)
    BY <2>2, <2>3, <1>2 DEF Dits
  <2>4. CASE k = Len(trace) + 1
    BY <2>2, <2>4, <1>4
  <2> QED BY <2>1, <2>2, <2>3, <2>4
<1>5. CASE EFin(p)
  BY <1>3, <1>5 DEF EFin
<1>6. CASE EDehors(p)
  <2>1. PICK s \in P!Deux : trace' = Append(trace, <<p, s, 0>>)
    BY <1>6 DEF EDehors
  <2>2. s # "dit"
    BY DEF P!Deux
  <2> QED BY <2>1, <2>2, <1>4
<1>7. CASE ip[p] \in 1 .. Lg(p) /\ Effet(p, ip[p])
  <2>1. CASE ESuspend(p, ip[p])
    <3>1. PICK s \in P!Deux : trace' = Append(trace, <<p, s, 0>>)
      BY <2>1 DEF ESuspend
    <3>2. s # "dit"
      BY DEF P!Deux
    <3> QED BY <3>1, <3>2, <1>4
  <2>2. CASE EDit(p, ip[p])
    <3>1. trace' = Append(trace, <<p, "dit", val[p]>>) /\ Op(p, ip[p]) = "dit" /\ ip' = [ip EXCEPT ![p] = ip[p] + 1]
      BY <2>2 DEF EDit, Monte
    <3>2. ip'[p] = ip[p] + 1 /\ ip[p] \in Nat
      BY <3>1, <1>0 DEF Base, Types
    <3>3. PasseDit(p)'
      BY <3>1, <3>2, <1>0, <1>1, <1>7 DEF PasseDit
    <3> QED BY <3>1, <3>3, <1>4
  <2>3. CASE trace' = trace
    BY <1>3, <2>3
  <2> QED
    BY <1>7, <2>1, <2>2, <2>3
    DEF Effet, EFork, EWait, EWaitpid, EKill, EPending, EValeur, ELit, ERetour, EEcrit, ESem, Rien
<1> QED BY <1>5, <1>6, <1>7, Effets

(* What each son has put in the file or the socket, 0 before it did.     *)
Deposes == [k \in 1 .. N |-> IF ip[k + 1] = 3 THEN val[k + 1] ELSE 0]

(* The socket of TME8 ex1.c holds the value of one son at most, the one  *)
(* that main receives before it forks the next; with what main has, it   *)
(* is the sum of those that were sent.                                   *)
UnDatagramme ==
    /\ \A q \in 2 .. N + 1 : ip[1] > 2 * q - 2 => ip[q] = 3
    /\ boite = <<>> \/ (Len(boite) = 1 /\ \E q \in 2 .. N + 1 : ip[1] = 2 * q - 2 /\ ip[q] = 3)
    /\ val[1] + P!Cumul(boite, Len(boite)) = P!Cumul(Deposes, N)

(* TME8 ex1.c: what each step does.                                      *)
LEMMA Pas_datagramme ==
  ASSUME Base, prog = P!datagramme, NEW p \in P!Pids, P!Pas(p)
  PROVE  \/ UNCHANGED <<ip, val, boite>>
         \/ \E q \in 2 .. N + 1 : /\ ip[1] = 2 * q - 3 /\ ip' = [ip EXCEPT ![1] = 2 * q - 2]
                                  /\ UNCHANGED <<val, boite>>
         \/ \E q \in 2 .. N + 1 : /\ ip[1] = 2 * q - 2 /\ ip' = [ip EXCEPT ![1] = 2 * q - 1] /\ boite # <<>>
                                  /\ boite' = Tail(boite) /\ val' = [val EXCEPT ![1] = val[1] + Head(boite)]
         \/ ip[1] > 2 * N /\ ip' = [ip EXCEPT ![1] = ip[1] + 1] /\ UNCHANGED <<val, boite>>
         \/ /\ p \in 2 .. N + 1 /\ ip[p] = 1 /\ ip' = [ip EXCEPT ![p] = 2]
            /\ UNCHANGED boite /\ \E v \in Nat : val' = [val EXCEPT ![p] = v]
         \/ /\ p \in 2 .. N + 1 /\ ip[p] = 2 /\ ip' = [ip EXCEPT ![p] = 3]
            /\ UNCHANGED val /\ boite' = Append(boite, val[p])
<1>0. /\ L = N + 1 /\ N \in Nat \ {0} /\ p \in 1 .. L
      /\ EFin(p) \/ EDehors(p) \/ (ip[p] \in 1 .. Lg(p) /\ Effet(p, ip[p]))
  BY Nombre, Effets, Table_datagramme
<1>1. CASE EFin(p) \/ EDehors(p)
  BY <1>1 DEF EFin, EDehors
<1>2. CASE ip[p] \in 1 .. Lg(p) /\ Effet(p, ip[p]) /\ p \in 2 .. N + 1
  <2>1. ip[p] = 1 \/ ip[p] = 2
    <3>1. Lg(p) = 2
      BY <1>2, Table_datagramme
    <3>2. \A k \in 1 .. 2 : k = 1 \/ k = 2
      OBVIOUS
    <3> QED BY <1>2, <3>1, <3>2
  <2>2. EValeur(p, ip[p]) /\ (ip[p] = 1 => Op(p, 1) = "alea") /\ (ip[p] = 2 => Op(p, 2) = "depose")
    BY <1>0, <1>2, <2>1, Table_datagramme, ParAppel
  <2>3. CASE ip[p] = 1
    <3>1. ip' = [ip EXCEPT ![p] = 2] /\ UNCHANGED boite /\ \E v \in Nat : val' = [val EXCEPT ![p] = v]
      BY <2>2, <2>3 DEF EValeur, Monte
    <3> QED BY <1>2, <2>3, <3>1
  <2>4. CASE ip[p] = 2
    <3>1. ip' = [ip EXCEPT ![p] = 3] /\ UNCHANGED val /\ boite' = Append(boite, val[p])
      BY <2>2, <2>4 DEF EValeur, Monte
    <3> QED BY <1>2, <2>4, <3>1
  <2> QED BY <2>1, <2>3, <2>4
<1>3. CASE ip[p] \in 1 .. Lg(p) /\ Effet(p, ip[p]) /\ p = 1
  <2>0. ip[1] \in Nat /\ ip[1] >= 1 /\ ip[1] <= 3 * N + 1 /\ Effet(1, ip[1])
    BY <1>0, <1>3, Table_datagramme
  <2>1. PICK q \in Nat : ip[1] = 2 * q \/ ip[1] = 2 * q + 1
    BY <2>0, Parite
  <2>2. \/ ip[1] = 3 * N + 1 \/ ip[1] \in 2 * N + 1 .. 3 * N
        \/ q + 2 \in 2 .. N + 1 /\ ip[1] = 2 * (q + 2) - 3
        \/ q + 1 \in 2 .. N + 1 /\ ip[1] = 2 * (q + 1) - 2
    BY <2>0, <2>1, <1>0
  <2>3. CASE ip[1] = 3 * N + 1
    <3>1. EDit(1, ip[1])
      BY <2>0, <2>3, Table_datagramme, ParAppel
    <3> QED BY <3>1, <2>3, <1>0 DEF EDit, Monte
  <2>4. CASE ip[1] \in 2 * N + 1 .. 3 * N
    <3>1. Op(1, ip[1]) = "waitpid"
      BY <2>0, <2>4, Table_datagramme
    <3>2. EWaitpid(1, ip[1])
      BY <2>0, <3>1, ParAppel
    <3>3. ip' = [ip EXCEPT ![1] = ip[1] + 1] /\ UNCHANGED <<val, boite>>
      BY <3>1, <3>2 DEF EWaitpid, Monte
    <3>4. ip[1] > 2 * N
      BY <2>4, <1>0
    <3> QED BY <3>3, <3>4
  <2>5. ASSUME NEW r \in 2 .. N + 1, ip[1] = 2 * r - 3
        PROVE  ip' = [ip EXCEPT ![1] = 2 * r - 2] /\ UNCHANGED <<val, boite>>
    <3>1. EFork(1, ip[1])
      BY <2>0, <2>5, Table_datagramme, ParAppel
    <3>2. ip[1] + 1 = 2 * r - 2
      BY <2>5, <1>0
    <3> QED BY <3>1, <3>2 DEF EFork, Monte
  <2>6. ASSUME NEW r \in 2 .. N + 1, ip[1] = 2 * r - 2
        PROVE  /\ ip' = [ip EXCEPT ![1] = 2 * r - 1] /\ boite # <<>>
               /\ boite' = Tail(boite) /\ val' = [val EXCEPT ![1] = val[1] + Head(boite)]
    <3>1. EValeur(1, ip[1]) /\ Op(1, ip[1]) = "retire"
      BY <2>0, <2>6, Table_datagramme, ParAppel
    <3>2. ip[1] + 1 = 2 * r - 1
      BY <2>6, <1>0
    <3> QED BY <3>1, <3>2 DEF EValeur, Monte
  <2>7. CASE q + 2 \in 2 .. N + 1 /\ ip[1] = 2 * (q + 2) - 3
    BY <2>5, <2>7
  <2>8. CASE q + 1 \in 2 .. N + 1 /\ ip[1] = 2 * (q + 1) - 2
    BY <2>6, <2>8
  <2> QED BY <2>2, <2>3, <2>4, <2>7, <2>8
<1>4. p = 1 \/ p \in 2 .. N + 1
  BY <1>0
<1> QED BY <1>0, <1>1, <1>2, <1>3, <1>4

(* Who exists was forked by the call that names it.                      *)
LEMMA Cree ==
  ASSUME Base, NEW p \in 1 .. L, NEW k \in 1 .. Lg(p), Op(p, k) = "fork", NEW q \in P!Pids, Ar(p, k) = q,
         q # 1, etat[q] # "absent"
  PROVE  pere[q] = p /\ k < ip[p] /\ ip[p] \in Nat
<1>1. pere[q] # 0
  BY DEF Base, Places
<1>2. pere[q] \in 1 .. L /\ \E j \in 1 .. Lg(pere[q]) : j < ip[pere[q]] /\ Op(pere[q], j) = "fork" /\ Ar(pere[q], j) = q
  BY <1>1 DEF Base, Places
<1>3. PICK j \in 1 .. Lg(pere[q]) : j < ip[pere[q]] /\ Op(pere[q], j) = "fork" /\ Ar(pere[q], j) = q
  BY <1>2
<1>4. pere[q] = p /\ j = k
  <2>1. \A a, r \in 1 .. L : \A b \in 1 .. Lg(a), c \in 1 .. Lg(r) :
          Op(a, b) = "fork" /\ Op(r, c) = "fork" /\ Ar(a, b) = Ar(r, c) => a = r /\ b = c
    BY DEF Base, Bien
  <2>2. Ar(pere[q], j) = Ar(p, k)
    BY <1>3
  <2> QED BY <1>2, <1>3, <2>1, <2>2
<1>5. ip[p] \in Nat
  BY Pids0 DEF Base, Types
<1> QED BY <1>3, <1>4, <1>5

(* The sum of a sequence, one value longer or of one value.              *)
LEMMA CumulSuite ==
  ASSUME NEW f \in Seq(Nat), NEW v \in Nat
  PROVE  /\ P!Cumul(Append(f, v), Len(Append(f, v))) = P!Cumul(f, Len(f)) + v
         /\ P!Cumul(f, Len(f)) \in Nat
         /\ f = <<>> => P!Cumul(f, Len(f)) = 0
         /\ Len(f) = 1 => P!Cumul(f, Len(f)) = Head(f) /\ Tail(f) = <<>> /\ Head(f) \in Nat
<1>1. Len(f) \in Nat /\ \A k \in 1 .. Len(f) : f[k] \in Nat
  OBVIOUS
<1>2. PICK g : g = Append(f, v)
  OBVIOUS
<1>3. /\ g \in Seq(Nat) /\ Len(g) = Len(f) + 1 /\ g[Len(f) + 1] = v
      /\ \A k \in 1 .. Len(f) : g[k] = f[k]
  BY <1>2, AppendProperties
<1>4. P!Cumul(f, Len(f)) \in Nat
  BY <1>1, CumulOK
<1>5. P!Cumul(g, Len(g)) = P!Cumul(g, Len(f)) + v
  <2>1. Len(g) \in Nat /\ \A k \in 1 .. Len(g) : g[k] \in Nat
    BY <1>3
  <2>2. Len(g) > 0 /\ Len(g) - 1 = Len(f)
    BY <1>1, <1>3
  <2> QED BY <2>1, <2>2, <1>3, CumulOK
<1>6. P!Cumul(g, Len(f)) = P!Cumul(f, Len(f))
  <2>1. 0 \notin 1 .. Len(f) /\ \A k \in 1 .. Len(f) : f[k] \in Nat /\ g[k] \in Nat /\ (k # 0 => f[k] = g[k])
    BY <1>1, <1>3
  <2> QED BY <1>1, <2>1, CumulChange
<1>7. f = <<>> => P!Cumul(f, Len(f)) = 0
  BY <1>1, CumulOK
<1>8. ASSUME Len(f) = 1 PROVE P!Cumul(f, Len(f)) = Head(f) /\ Tail(f) = <<>> /\ Head(f) \in Nat
  <2>1. P!Cumul(f, 1) = P!Cumul(f, 0) + f[1] /\ P!Cumul(f, 0) = 0
    <3>1. 1 - 1 = 0 /\ 1 > 0 /\ 1 \in Nat /\ \A k \in 1 .. 1 : f[k] \in Nat
      BY <1>1, <1>8
    <3> QED BY <3>1, CumulOK
  <2>2. f # <<>> /\ f[1] \in Nat /\ Head(f) = f[1]
    <3>1. f # <<>>
      <4>1. Len(<<>>) = 0
        BY EmptySeq
      <4>2. Len(f) # Len(<<>>)
        BY <4>1, <1>8
      <4> QED BY <4>2, Zenon
    <3>2. f[1] \in Nat
      BY <1>1, <1>8
    <3>3. Head(f) = f[1]
      OBVIOUS
    <3> QED BY <3>1, <3>2, <3>3
  <2>3. Len(Tail(f)) = 0 /\ Tail(f) \in Seq(Nat)
    BY <1>8, <2>2, HeadTailProperties
  <2>4. Tail(f) = <<>>
    BY <2>3, EmptySeq
  <2> QED BY <2>1, <2>2, <2>4, <1>8
<1> QED BY <1>2, <1>4, <1>5, <1>6, <1>7, <1>8

(* No value is sent at first.                                            *)
LEMMA DatagrammeInit ==
  ASSUME Base, P!Init, prog = P!datagramme
  PROVE  UnDatagramme
<1>0. N \in Nat \ {0} /\ N + 1 \in 1 .. MaxProcessus /\ MaxProcessus \in Nat
  BY Nombre, MCProcessusAssumption DEF P!ProcessusAssumption
<1>1. boite = <<>> /\ val[1] = 0 /\ \A q \in 1 .. N + 1 : ip[q] = 1
  BY <1>0, Table_datagramme DEF P!Init, P!Pids
<1>2. P!Cumul(boite, Len(boite)) = 0
  BY <1>1, CumulSuite, EmptySeq
<1>3. P!Cumul(Deposes, N) = 0
  <2> DEFINE z == [k \in 1 .. N |-> 0]
             K == {m \in Nat : m <= N => P!Cumul(Deposes, m) = 0}
  <2>1. \A k \in 1 .. N : Deposes[k] = 0
    BY <1>0, <1>1 DEF Deposes
  <2>2. 0 \in K
    BY CumulOK
  <2>3. ASSUME NEW m \in Nat, m \in K PROVE m + 1 \in K
    <3> SUFFICES ASSUME m + 1 <= N PROVE P!Cumul(Deposes, m + 1) = 0
      OBVIOUS
    <3>1. m + 1 \in Nat /\ m + 1 > 0 /\ (m + 1) - 1 = m /\ m + 1 \in 1 .. N /\ \A k \in 1 .. m + 1 : Deposes[k] \in Nat
      BY <1>0, <2>1
    <3>2. P!Cumul(Deposes, m + 1) = P!Cumul(Deposes, m) + Deposes[m + 1]
      BY <3>1, CumulOK
    <3>3. P!Cumul(Deposes, m) = 0
      BY <2>3, <3>1, <1>0
    <3> QED BY <2>1, <3>1, <3>2, <3>3
  <2>4. Nat \subseteq K
    <3> HIDE DEF K
    <3> QED BY <2>2, <2>3, Recurrence
  <2> QED BY <2>4, <1>0
<1>4. \A q \in 2 .. N + 1 : ~(ip[1] > 2 * q - 2)
  BY <1>0, <1>1
<1> QED BY <1>1, <1>2, <1>3, <1>4 DEF UnDatagramme

(* The table of what the sons have put changes when one of them moves.     *)
LEMMA DeposesChange ==
  ASSUME Base, L = N + 1, Types', NEW j, \A q \in 2 .. N + 1 : q # j => ip'[q] = ip[q] /\ val'[q] = val[q]
  PROVE  /\ P!Cumul(Deposes, N) \in Nat
         /\ P!Cumul(Deposes', N) = IF j \in 2 .. N + 1
                                   THEN P!Cumul(Deposes, N) + (IF ip'[j] = 3 THEN val'[j] ELSE 0)
                                                            - (IF ip[j] = 3 THEN val[j] ELSE 0)
                                   ELSE P!Cumul(Deposes, N)
<1>0. N \in Nat \ {0} /\ 1 .. N + 1 \subseteq P!Pids
  BY Nombre, Pids0 DEF Base
<1>1. PICK h : h = IF j \in 2 .. N + 1 THEN j - 1 ELSE 0
  OBVIOUS
<1>2. \A k \in 1 .. N : k + 1 \in P!Pids /\ k + 1 \in 2 .. N + 1
  BY <1>0
<1>3. \A k \in 1 .. N : /\ Deposes[k] = IF ip[k + 1] = 3 THEN val[k + 1] ELSE 0
                        /\ Deposes'[k] = IF ip'[k + 1] = 3 THEN val'[k + 1] ELSE 0
                        /\ Deposes[k] \in Nat /\ Deposes'[k] \in Nat
  <2> TAKE k \in 1 .. N
  <2>1. val[k + 1] \in Nat /\ val'[k + 1] \in Nat
    BY <1>2 DEF Base, Types
  <2> QED BY <2>1 DEF Deposes
<1>4. \A k \in 1 .. N : k # h => Deposes[k] = Deposes'[k]
  <2> SUFFICES ASSUME NEW k \in 1 .. N, k # h PROVE Deposes[k] = Deposes'[k]
    OBVIOUS
  <2>1. k + 1 # j
    BY <1>0, <1>1
  <2> QED BY <2>1, <1>2, <1>3
<1>5. P!Cumul(Deposes', N) = IF h \in 1 .. N THEN P!Cumul(Deposes, N) + Deposes'[h] - Deposes[h] ELSE P!Cumul(Deposes, N)
  BY <1>0, <1>3, <1>4, CumulChange
<1>6. P!Cumul(Deposes, N) \in Nat
  BY <1>0, <1>3, CumulOK
<1>7. CASE j \in 2 .. N + 1
  <2>1. h \in 1 .. N /\ h + 1 = j
    BY <1>0, <1>1, <1>7
  <2>2. Deposes[h] = (IF ip[j] = 3 THEN val[j] ELSE 0) /\ Deposes'[h] = (IF ip'[j] = 3 THEN val'[j] ELSE 0)
    BY <2>1, <1>3
  <2> QED BY <1>5, <1>6, <1>7, <2>1, <2>2
<1>8. CASE j \notin 2 .. N + 1
  <2>1. h \notin 1 .. N
    BY <1>0, <1>1, <1>8
  <2> QED BY <1>5, <1>6, <1>8, <2>1
<1> QED BY <1>7, <1>8

(* A value that is sent, or received, keeps the sum.                     *)
LEMMA DatagrammePas ==
  ASSUME Base, Types', prog = P!datagramme, UnDatagramme, NEW p \in P!Pids, P!Pas(p)
  PROVE  UnDatagramme'
<1>0. /\ L = N + 1 /\ N \in Nat \ {0} /\ ip \in [P!Pids -> Nat \ {0}] /\ val \in [P!Pids -> Nat]
      /\ 1 .. N + 1 \subseteq P!Pids /\ boite \in Seq(Nat) /\ ip[1] \in Nat /\ 1 \in P!Pids
  <2>1. L = N + 1 /\ N \in Nat \ {0} /\ 1 \in 1 .. N + 1
    BY Nombre, Table_datagramme
  <2>2. 1 .. N + 1 \subseteq P!Pids
    BY <2>1, Pids0 DEF Base
  <2>3. ip \in [P!Pids -> Nat \ {0}] /\ val \in [P!Pids -> Nat] /\ boite \in Seq(Nat)
    BY DEF Base, Types
  <2>4. 1 \in P!Pids
    BY <2>1, <2>2
  <2> QED BY <2>1, <2>2, <2>3, <2>4
<1> DEFINE D1(x) == \A q \in 2 .. N + 1 : x > 2 * q - 2 => ip[q] = 3
           D2(b, x) == b = <<>> \/ (Len(b) = 1 /\ \E q \in 2 .. N + 1 : x = 2 * q - 2 /\ ip[q] = 3)
<1> HIDE DEF P!Pids
<1>1. /\ \A q \in 2 .. N + 1 : ip[1] > 2 * q - 2 => ip[q] = 3
      /\ boite = <<>> \/ (Len(boite) = 1 /\ \E q \in 2 .. N + 1 : ip[1] = 2 * q - 2 /\ ip[q] = 3)
      /\ val[1] + P!Cumul(boite, Len(boite)) = P!Cumul(Deposes, N)
  BY DEF UnDatagramme
<1>2. CASE UNCHANGED <<ip, val, boite>>
  BY <1>2, <1>1 DEF UnDatagramme, Deposes
<1>3. ASSUME ip' = [ip EXCEPT ![1] = ip'[1]], ip'[1] \in Nat,
             \A q \in 2 .. N + 1 : val'[q] = val[q]
      PROVE  /\ \A q \in 2 .. N + 1 : ip'[q] = ip[q]
             /\ P!Cumul(Deposes', N) = P!Cumul(Deposes, N)
  <2>1. \A q \in 2 .. N + 1 : q \in P!Pids /\ q # 1
    BY <1>0
  <2>2. \A q \in 2 .. N + 1 : ip'[q] = ip[q]
    BY <1>0, <1>3, <2>1
  <2>3. 0 \notin 2 .. N + 1
    BY <1>0
  <2> QED BY <1>0, <1>3, <2>2, <2>3, DeposesChange
<1>4. ASSUME NEW q \in 2 .. N + 1, ip[1] = 2 * q - 3, ip' = [ip EXCEPT ![1] = 2 * q - 2], UNCHANGED <<val, boite>>
      PROVE  UnDatagramme'
  <2>1. ip'[1] = 2 * q - 2 /\ ip'[1] \in Nat
    BY <1>0, <1>4
  <2>2. (\A r \in 2 .. N + 1 : ip'[r] = ip[r]) /\ P!Cumul(Deposes', N) = P!Cumul(Deposes, N)
    BY <1>3, <1>4, <2>1
  <2>3. boite = <<>>
    <3> SUFFICES ASSUME NEW r \in 2 .. N + 1, ip[1] = 2 * r - 2 PROVE FALSE
      BY <1>1
    <3> QED BY <1>0, <1>4
  <2>4. ASSUME NEW r \in 2 .. N + 1, ip'[1] > 2 * r - 2 PROVE ip'[r] = 3
    <3>1. ip[1] > 2 * r - 2
      BY <1>0, <1>4, <2>1, <2>4
    <3> QED BY <3>1, <1>1, <2>2
  <2> QED BY <1>1, <1>4, <2>2, <2>3, <2>4 DEF UnDatagramme
<1>5. ASSUME NEW q \in 2 .. N + 1, ip[1] = 2 * q - 2, ip' = [ip EXCEPT ![1] = 2 * q - 1], boite # <<>>,
             boite' = Tail(boite), val' = [val EXCEPT ![1] = val[1] + Head(boite)]
      PROVE  UnDatagramme'
  <2>0. Len(boite) = 1 /\ Head(boite) \in Nat /\ boite' = <<>> /\ P!Cumul(boite, Len(boite)) = Head(boite)
    BY <1>0, <1>1, <1>5, CumulSuite
  <2>1. ip'[1] = 2 * q - 1 /\ ip'[1] \in Nat /\ val'[1] = val[1] + Head(boite) /\ \A r \in 2 .. N + 1 : val'[r] = val[r]
    BY <1>0, <1>5
  <2>2. (\A r \in 2 .. N + 1 : ip'[r] = ip[r]) /\ P!Cumul(Deposes', N) = P!Cumul(Deposes, N)
    BY <1>3, <1>5, <2>1
  <2>3. ip[q] = 3
    <3>1. PICK r \in 2 .. N + 1 : ip[1] = 2 * r - 2 /\ ip[r] = 3
      BY <1>1, <1>5
    <3>2. r = q
      BY <1>0, <1>5, <3>1
    <3> QED BY <3>1, <3>2
  <2>4. ASSUME NEW r \in 2 .. N + 1, ip'[1] > 2 * r - 2 PROVE ip'[r] = 3
    <3>1. r = q \/ ip[1] > 2 * r - 2
      BY <1>0, <1>5, <2>1, <2>4
    <3> QED BY <3>1, <1>1, <2>2, <2>3
  <2>5. P!Cumul(boite', Len(boite')) = 0
    BY <2>0, EmptySeq, CumulSuite
  <2>6. val[1] \in Nat
    BY <1>0
  <2>7. val'[1] + P!Cumul(boite', Len(boite')) = P!Cumul(Deposes', N)
    BY <1>1, <2>0, <2>1, <2>2, <2>5, <2>6
  <2> QED BY <2>0, <2>4, <2>7 DEF UnDatagramme
<1>6. ASSUME ip[1] > 2 * N, ip' = [ip EXCEPT ![1] = ip[1] + 1], UNCHANGED <<val, boite>>
      PROVE  UnDatagramme'
  <2>1. ip'[1] = ip[1] + 1 /\ ip'[1] \in Nat
    BY <1>0, <1>6
  <2>2. (\A r \in 2 .. N + 1 : ip'[r] = ip[r]) /\ P!Cumul(Deposes', N) = P!Cumul(Deposes, N)
    BY <1>3, <1>6, <2>1
  <2>3. boite = <<>>
    <3> SUFFICES ASSUME NEW r \in 2 .. N + 1, ip[1] = 2 * r - 2 PROVE FALSE
      BY <1>1
    <3> QED BY <1>0, <1>6
  <2>4. ASSUME NEW r \in 2 .. N + 1 PROVE ip'[r] = 3
    <3>1. ip[1] > 2 * r - 2
      BY <1>0, <1>6
    <3> QED BY <3>1, <1>1, <2>2
  <2> QED BY <1>1, <1>6, <2>2, <2>3, <2>4 DEF UnDatagramme
<1>7. ASSUME p \in 2 .. N + 1, ip[p] \in {1, 2}
      PROVE  /\ ip[1] = 2 * p - 2 /\ boite = <<>> /\ p # 1 
  <2>1. p \in P!Pids /\ p # 1 /\ etat[p] = "vif"
    BY <1>7, <1>0, Effets
  <2>2. Op(1, 2 * p - 3) = "fork" /\ Ar(1, 2 * p - 3) = p
    BY <1>7, Table_datagramme
  <2>3. 2 * p - 3 \in 1 .. Lg(1) /\ 1 \in 1 .. L
    <3>1. Lg(1) = 3 * N + 1
      BY Table_datagramme
    <3> QED BY <3>1, <1>0, <1>7
  <2>4. ip[1] > 2 * p - 3
    <3>1. 2 * p - 3 < ip[1]
      BY <2>1, <2>2, <2>3, Cree
    <3> QED BY <3>1, <1>0, <1>7
  <2>5. ~(ip[1] > 2 * p - 2)
    BY <1>1, <1>7
  <2>6. ip[1] = 2 * p - 2
    <3>1. ip[1] \in Nat /\ p \in Nat
      BY <1>0, <1>7
    <3> QED BY <2>4, <2>5, <3>1
  <2>7. boite = <<>>
    <3> SUFFICES ASSUME NEW r \in 2 .. N + 1, ip[1] = 2 * r - 2, ip[r] = 3 PROVE FALSE
      BY <1>1
    <3>1. r = p
      BY <1>0, <1>7, <2>6
    <3> QED BY <3>1, <1>7
  <2> QED BY <2>1, <2>6, <2>7
<1>8. ASSUME p \in 2 .. N + 1, ip[p] = 1, ip' = [ip EXCEPT ![p] = 2],
             UNCHANGED boite, NEW v \in Nat, val' = [val EXCEPT ![p] = v]
      PROVE  UnDatagramme'
  <2>1. ip[1] = 2 * p - 2 /\ boite = <<>> /\ p # 1
    BY <1>7, <1>8
  <2>2. ip'[1] = ip[1] /\ val'[1] = val[1] /\ ip'[p] = 2 /\ \A r \in 2 .. N + 1 : r # p => ip'[r] = ip[r] /\ val'[r] = val[r]
    BY <1>0, <1>8, <2>1
  <2>3. P!Cumul(Deposes', N) = P!Cumul(Deposes, N)
    <3>0. /\ Base /\ L = N + 1 /\ Types' /\ p \in 2 .. N + 1
          /\ \A r \in 2 .. N + 1 : r # p => ip'[r] = ip[r] /\ val'[r] = val[r]
      BY <1>0, <1>8, <2>2
    <3>1. /\ P!Cumul(Deposes, N) \in Nat
          /\ P!Cumul(Deposes', N) = P!Cumul(Deposes, N) + (IF ip'[p] = 3 THEN val'[p] ELSE 0) - (IF ip[p] = 3 THEN val[p] ELSE 0)
      BY <3>0, DeposesChange
    <3>2. (IF ip'[p] = 3 THEN val'[p] ELSE 0) = 0 /\ (IF ip[p] = 3 THEN val[p] ELSE 0) = 0
      BY <1>8, <2>2
    <3> QED BY <3>1, <3>2
  <2>4. ASSUME NEW r \in 2 .. N + 1, ip'[1] > 2 * r - 2 PROVE ip'[r] = 3
    <3>1. r # p
      BY <1>0, <2>1, <2>2, <2>4
    <3> QED BY <3>1, <1>1, <2>2, <2>4
  <2> QED BY <1>1, <1>8, <2>1, <2>2, <2>3, <2>4 DEF UnDatagramme
<1>9. ASSUME p \in 2 .. N + 1, ip[p] = 2, ip' = [ip EXCEPT ![p] = 3],
             UNCHANGED val, boite' = Append(boite, val[p])
      PROVE  UnDatagramme'
  <2>1. ip[1] = 2 * p - 2 /\ boite = <<>> /\ p # 1
    BY <1>7, <1>9
  <2>2. ip'[1] = ip[1] /\ ip'[p] = 3 /\ \A r \in 2 .. N + 1 : r # p => ip'[r] = ip[r] /\ val'[r] = val[r]
    BY <1>0, <1>9, <2>1
  <2>3. val[p] \in Nat /\ val[1] \in Nat /\ val' = val
    BY <1>0, <1>9
  <2>4. P!Cumul(Deposes, N) \in Nat /\ P!Cumul(Deposes', N) = P!Cumul(Deposes, N) + val[p]
    <3>1. /\ P!Cumul(Deposes, N) \in Nat
          /\ P!Cumul(Deposes', N) = P!Cumul(Deposes, N) + (IF ip'[p] = 3 THEN val'[p] ELSE 0) - (IF ip[p] = 3 THEN val[p] ELSE 0)
      BY <1>0, <1>9, <2>2, <2>3, DeposesChange
    <3>2. (IF ip'[p] = 3 THEN val'[p] ELSE 0) = val[p] /\ (IF ip[p] = 3 THEN val[p] ELSE 0) = 0
      BY <1>9, <2>2, <2>3
    <3> QED BY <2>3, <3>1, <3>2
  <2>5. P!Cumul(boite', Len(boite')) = val[p] /\ P!Cumul(boite, Len(boite)) = 0 /\ Len(boite') = 1
    <3>1. P!Cumul(boite, Len(boite)) = 0 /\ P!Cumul(boite', Len(boite')) = P!Cumul(boite, Len(boite)) + val[p]
      BY <1>0, <1>9, <2>1, <2>3, CumulSuite
    <3>2. Len(boite') = Len(boite) + 1
      BY <1>0, <1>9, <2>3, AppendProperties
    <3> QED BY <3>1, <3>2, <2>1, <2>3
  <2>6. ASSUME NEW r \in 2 .. N + 1, ip'[1] > 2 * r - 2 PROVE ip'[r] = 3
    BY <1>1, <2>2, <2>6
  <2>7. \E r \in 2 .. N + 1 : ip'[1] = 2 * r - 2 /\ ip'[r] = 3
    BY <1>9, <2>1, <2>2
  <2>8. val'[1] + P!Cumul(boite', Len(boite')) = P!Cumul(Deposes', N)
    BY <1>1, <2>3, <2>4, <2>5
  <2> QED BY <2>5, <2>6, <2>7, <2>8 DEF UnDatagramme
<1> QED BY <1>2, <1>4, <1>5, <1>6, <1>8, <1>9, Pas_datagramme

(* The inductive invariant of Ordres.                                      *)
Parts ==
    /\ Envois => Signaux
    /\ P!Nom({"chaine"}) => Lance
    /\ P!Nom({"p2"}) => Trois
    /\ P!Nom({"datagramme"}) => UnDatagramme

(* The first state satisfies it.                                         *)
LEMMA PartsInit == P!Init => Parts
<1> SUFFICES ASSUME P!Init PROVE Parts
  OBVIOUS
<1>1. Base /\ prog \in P!Programmes
  BY BaseInit DEF Base, Types
<1>2. P!Nom({"datagramme"}) => prog = P!datagramme
  BY <1>1, ParNom DEF P!Nom
<1> QED BY <1>1, <1>2, SignauxInit, LanceInit, TroisInit, DatagrammeInit DEF Parts

(* Every step keeps it.                                                  *)
LEMMA PartsPas ==
  ASSUME Base, Attendus, Parts, NEW p \in P!Pids, P!Pas(p)
  PROVE  Parts'
<1>0. prog \in P!Programmes /\ prog' = prog /\ Base'
  BY MasquesPas, BasePas DEF Base, Types
<1>1. \A noms : P!Nom(noms)' <=> P!Nom(noms)
  BY <1>0 DEF P!Nom
<1>2. (Envois => Signaux)'
  <2>1. Envois' <=> Envois
    BY <1>1 DEF Envois
  <2>2. ASSUME Envois PROVE Signaux'
    BY <2>2, EnvoisOK, SignauxPas DEF Parts
  <2> QED BY <2>1, <2>2
<1>3. (P!Nom({"chaine"}) => Lance)'
  <2>1. ASSUME P!Nom({"chaine"}) PROVE Lance'
    <3>1. prog = P!chaine_kill /\ Lance
      BY <2>1, <1>0, ParNom DEF P!Nom, Parts
    <3> QED BY <3>1, LancePas
  <2> QED BY <1>1, <2>1
<1>4. (P!Nom({"p2"}) => Trois)'
  <2>1. ASSUME P!Nom({"p2"}) PROVE Trois'
    <3>1. prog = P!p2_p1_p3 /\ Trois
      BY <2>1, <1>0, ParNom DEF P!Nom, Parts
    <3> QED BY <3>1, TroisPas
  <2> QED BY <1>1, <2>1
<1>5. (P!Nom({"datagramme"}) => UnDatagramme)'
  <2>1. ASSUME P!Nom({"datagramme"}) PROVE UnDatagramme'
    <3>1. prog = P!datagramme /\ UnDatagramme
      BY <2>1, <1>0, ParNom DEF P!Nom, Parts
    <3>2. Types'
      BY <1>0 DEF Base
    <3> QED BY <3>1, <3>2, DatagrammePas
  <2> QED BY <1>1, <2>1
<1> QED BY <1>2, <1>3, <1>4, <1>5 DEF Parts

(* So does a step that changes nothing.                                  *)
LEMMA PartsStable ==
  ASSUME Parts, UNCHANGED P!vars
  PROVE  Parts'
<1>0. UNCHANGED <<prog, etat, pere, ip, pendants, val, trace, boite, perdu>>
  BY DEF P!vars, P!svars, P!dvars
<1>1. Signaux => Signaux'
  BY SignauxStable
<1>2. Lance => Lance'
  BY <1>0 DEF Lance
<1>3. Trois => Trois'
  BY <1>0 DEF Trois, P3, Degres
<1>4. UnDatagramme => UnDatagramme'
  BY <1>0 DEF UnDatagramme, Deposes
<1> QED BY <1>0, <1>1, <1>2, <1>3, <1>4 DEF Parts, Envois, P!Nom

(* TypeOK of Processus.                                                  *)
LEMMA TypesDuModele ==
  ASSUME Base, P!Nom({"datagramme"}) => UnDatagramme
  PROVE  P!TypeOK
<1>1. /\ etat \in [P!Pids -> {"absent", "vif", "zombie", "fini"}]
      /\ pere \in [P!Pids -> 0 .. MaxProcessus]
      /\ \A p \in P!Pids : masque[p] \subseteq P!Deux /\ pendants[p] \subseteq P!Deux
      /\ \A p \in P!Pids : val[p] \in Nat /\ sem[p] \in Nat \X Nat
      /\ pos \in Nat \X Nat /\ taille \in Nat /\ perdu \in BOOLEAN
  BY DEF Base, Types
<1>2. \A p \in P!Pids : etat[p] # "absent" => p \in 1 .. Len(prog.texte) /\ ip[p] \in 1 .. Len(P!Texte(p)) + 1
  BY DEF Base, Places, L, Lg, P!Texte
<1>3. P!Nom({"datagramme"}) => Len(boite) <= 1
  <2>2. ASSUME UnDatagramme PROVE Len(boite) <= 1
    <3>1. boite = <<>> \/ Len(boite) = 1
      BY <2>2 DEF UnDatagramme
    <3>2. boite \in Seq(Nat)
      BY DEF Base, Types
    <3>3. boite = <<>> => Len(boite) = 0
      BY <3>2, EmptySeq
    <3>4. Len(boite) \in {0, 1}
      BY <3>1, <3>3
    <3>5. \A x \in {0, 1} : x <= 1
      OBVIOUS
    <3> QED BY <3>4, <3>5
  <2> QED BY <2>2
<1> QED BY <1>1, <1>2, <1>3 DEF P!TypeOK

(* In every state, for any N: the types, a father that waits for all its *)
(* sons ends after them (FilsAvant), a process ends after the displays   *)
(* whose signals it waits for (AfficheAvant), no process of the chain    *)
(* ends before all are created (ToutesCreees), and P1 handles the        *)
(* creation of P3, then its end, then displays (OrdreDesSignaux).        *)
THEOREM OrdresProc == P!Spec => []Ordres
<1>1. P!Init => Base /\ Attendus /\ Parts
  BY BaseInit, PartsInit
<1>2. Base /\ Attendus /\ Parts /\ [P!Next]_P!vars => (Base /\ Attendus /\ Parts)'
  <2> SUFFICES ASSUME Base, Attendus, Parts, [P!Next]_P!vars PROVE (Base /\ Attendus /\ Parts)'
    OBVIOUS
  <2>1. CASE UNCHANGED P!vars
    BY <2>1, BaseStable, PartsStable
  <2>2. CASE P!Next
    <3>1. PICK p \in P!Pids : P!Pas(p)
      BY <2>2 DEF P!Next
    <3> QED BY <3>1, BasePas, PartsPas
  <2> QED BY <2>1, <2>2
<1>3. Base /\ Attendus /\ Parts => Ordres
  <2> SUFFICES ASSUME Base, Attendus, Parts PROVE P!Ordres
    BY DEF Ordres
  <2>1. P!TypeOK
    BY TypesDuModele DEF Parts
  <2>2. P!FilsAvant
    BY FilsAvantOK
  <2>3. P!AfficheAvant
    BY AfficheAvantOK DEF Parts
  <2>4. P!ToutesCreees
    BY ToutesCreeesOK DEF Parts
  <2>5. P!OrdreDesSignaux
    BY OrdreDesSignauxOK DEF Parts
  <2> QED BY <2>1, <2>2, <2>3, <2>4, <2>5 DEF P!Ordres
<1> QED BY <1>1, <1>2, <1>3, PTL DEF P!Spec

(* chaine_fils_val_exit_wait.c: who has waited holds the value of the last. *)
Transmis == \A p \in 1 .. N : ip[p] >= 3 => val[p] = val[N + 1] /\ ip[N + 1] = 2

(* Nobody has waited at first.                                           *)
LEMMA TransmisInit == P!Init => Transmis
<1> SUFFICES ASSUME P!Init PROVE Transmis
  OBVIOUS
<1>1. \A p \in 1 .. N : p \in P!Pids
  BY Nombre, MCProcessusAssumption DEF P!Pids, P!ProcessusAssumption
<1> QED BY <1>1 DEF Transmis, P!Init

(* The status that wait gives is the value of the son, which has ended.  *)
LEMMA TransmisPas ==
  ASSUME Base, prog = P!chaine_val, Transmis, NEW p \in P!Pids, P!Pas(p)
  PROVE  Transmis'
<1> HIDE DEF P!Pids
<1>0. /\ L = N + 1 /\ N \in Nat \ {0} /\ p \in 1 .. L /\ ip[p] \in 1 .. Lg(p) + 1
      /\ ip \in [P!Pids -> Nat \ {0}] /\ val \in [P!Pids -> Nat] /\ 1 .. L \subseteq P!Pids
      /\ EFin(p) \/ EDehors(p) \/ (ip[p] \in 1 .. Lg(p) /\ Effet(p, ip[p]))
  BY Nombre, Effets, Table_chaine_val, Pids0 DEF Base, Types
<1>1. CASE UNCHANGED <<ip, val>>
  BY <1>1 DEF Transmis
<1>2. CASE EFin(p) \/ EDehors(p)
  BY <1>2, <1>1 DEF EFin, EDehors
<1>3. CASE p = N + 1 /\ ip[p] \in 1 .. Lg(p) /\ Effet(p, ip[p])
  <2>1. ip[p] = 1 /\ EValeur(p, 1) /\ Op(p, 1) = "alea"
    BY <1>0, <1>3, Table_chaine_val, ParAppel
  <2>2. ASSUME NEW q \in 1 .. N PROVE q # p /\ q \in P!Pids /\ ~(ip[q] >= 3)
    BY <1>0, <1>3, <2>1 DEF Transmis
  <2>3. ip' = [ip EXCEPT ![p] = ip[p] + 1]
    BY <2>1 DEF EValeur, Monte
  <2>4. \A q \in 1 .. N : ip'[q] = ip[q]
    BY <1>0, <2>2, <2>3
  <2> QED BY <2>2, <2>4 DEF Transmis
<1>4. CASE p \in 1 .. N /\ ip[p] \in 1 .. Lg(p) /\ Effet(p, ip[p])
  <2>1. ip[p] \in 1 .. 3 /\ Op(p, 1) = "fork" /\ Op(p, 2) = "statut" /\ Ar(p, 2) = p + 1 /\ (Lg(p) = 3 => Op(p, 3) = "dit")
    <3>1. CASE p = 1
      BY <1>4, <3>1, Table_chaine_val
    <3>2. CASE p \in 2 .. N
      <4>1. Lg(p) = 2
        BY <3>2, Table_chaine_val
      <4> QED BY <1>4, <3>2, <4>1, Table_chaine_val
    <3>3. p = 1 \/ p \in 2 .. N
      BY <1>0, <1>4
    <3> QED BY <3>1, <3>2, <3>3
  <2>2. CASE ip[p] # 2
    <3>1. UNCHANGED val /\ ip' = [ip EXCEPT ![p] = ip[p] + 1]
      <4>1. CASE ip[p] = 1
        <5>1. Op(p, ip[p]) = "fork"
          BY <2>1, <4>1
        <5>2. EFork(p, ip[p])
          BY <1>4, <5>1, ParAppel
        <5> QED BY <5>2 DEF EFork, Monte
      <4>2. CASE ip[p] = 3
        <5>1. Op(p, ip[p]) = "dit"
          BY <1>0, <1>4, <2>1, <4>2, Table_chaine_val
        <5>2. EDit(p, ip[p])
          BY <1>4, <5>1, ParAppel
        <5> QED BY <5>2 DEF EDit, Monte
      <4> QED BY <2>1, <2>2, <4>1, <4>2
    <3>2. ASSUME NEW q \in 1 .. N, ip'[q] >= 3 PROVE ip[q] >= 3
      <4>1. q \in P!Pids /\ ip[q] \in Nat /\ ip'[q] = IF q = p THEN ip[p] + 1 ELSE ip[q]
        BY <1>0, <3>1
      <4> QED BY <2>1, <2>2, <3>2, <4>1
    <3>3. ip'[N + 1] = ip[N + 1]
      <4>1. N + 1 # p /\ N + 1 \in P!Pids
        BY <1>0, <1>4
      <4> QED BY <1>0, <3>1, <4>1
    <3> QED BY <3>1, <3>2, <3>3 DEF Transmis
  <2>3. CASE ip[p] = 2
    <3>1. EWaitpid(p, 2) /\ Op(p, 2) = "statut" /\ Ar(p, 2) = p + 1
      BY <1>4, <2>1, <2>3, ParAppel
    <3>2. ip' = [ip EXCEPT ![p] = 3] /\ val' = [val EXCEPT ![p] = val[p + 1]] /\ etat[p + 1] = "zombie"
      <4>1. ip' = [ip EXCEPT ![p] = ip[p] + 1] /\ ip[p] + 1 = 3
        BY <2>3, <3>1 DEF EWaitpid, Monte
      <4>2. val' = [val EXCEPT ![p] = val[Ar(p, 2)]] /\ etat[Ar(p, 2)] = "zombie"
        BY <3>1 DEF EWaitpid
      <4> QED BY <3>1, <4>1, <4>2
    <3>3. ip[p + 1] = Lg(p + 1) + 1
      <4>1. p + 1 \in P!Pids
        BY <1>0, <1>4
      <4> QED BY <3>2, <4>1 DEF Base, Places, P!Termine
    <3>4. val[p + 1] = val[N + 1] /\ ip[N + 1] = 2
      <4>1. CASE p = N
        BY <1>0, <3>3, <4>1, Table_chaine_val
      <4>2. CASE p # N
        <5>1. p + 1 \in 2 .. N /\ p + 1 \in 1 .. N
          BY <1>0, <1>4, <4>2
        <5>2. ip[p + 1] = 3
          BY <3>3, <5>1, Table_chaine_val
        <5> QED BY <5>1, <5>2 DEF Transmis
      <4> QED BY <4>1, <4>2
    <3>5. N + 1 # p /\ N + 1 \in P!Pids /\ ip'[N + 1] = ip[N + 1] /\ val'[N + 1] = val[N + 1]
      BY <1>0, <1>4, <3>2
    <3>6. ASSUME NEW q \in 1 .. N, ip'[q] >= 3 PROVE val'[q] = val[N + 1]
      <4>1. q \in P!Pids /\ (q # p => ip'[q] = ip[q] /\ val'[q] = val[q]) /\ (q = p => val'[q] = val[p + 1])
        BY <1>0, <3>2
      <4> QED BY <3>4, <3>6, <4>1 DEF Transmis
    <3> QED BY <3>4, <3>5, <3>6 DEF Transmis
  <2> QED BY <2>2, <2>3
<1>5. p = N + 1 \/ p \in 1 .. N
  BY <1>0
<1> QED BY <1>0, <1>2, <1>3, <1>4, <1>5

(* TME6 ex3.c and fils_fichier_pere_addition.c: what is in the file is what *)
(* the sons have put, and main has waited for them when it adds it up.     *)
Verse ==
    /\ ip[1] <= 2 * N + 1 => val[1] = 0
    /\ P!Cumul(boite, Len(boite)) = P!Cumul(Deposes, N)
    /\ \A k \in 1 .. N : ip[1] > N + k => etat[k + 1] = "fini"
    /\ ip[1] > 2 * N + 1 => val[1] = P!Cumul(boite, Len(boite))

(* Nothing is put at first.                                              *)
LEMMA DeposesInit ==
  ASSUME P!Init, boite = <<>>
  PROVE  P!Cumul(boite, Len(boite)) = 0 /\ P!Cumul(Deposes, N) = 0
<1>0. N \in Nat \ {0} /\ N + 1 \in 1 .. MaxProcessus /\ MaxProcessus \in Nat
  BY Nombre, MCProcessusAssumption DEF P!ProcessusAssumption
<1>1. \A q \in 1 .. N + 1 : ip[q] = 1
  BY <1>0 DEF P!Init, P!Pids
<1>2. P!Cumul(boite, Len(boite)) = 0
  BY CumulSuite, EmptySeq
<1>3. P!Cumul(Deposes, N) = 0
  <2> DEFINE K == {m \in Nat : m <= N => P!Cumul(Deposes, m) = 0}
  <2>1. \A k \in 1 .. N : Deposes[k] = 0
    BY <1>0, <1>1 DEF Deposes
  <2>2. 0 \in K
    BY CumulOK
  <2>3. ASSUME NEW m \in Nat, m \in K PROVE m + 1 \in K
    <3> SUFFICES ASSUME m + 1 <= N PROVE P!Cumul(Deposes, m + 1) = 0
      OBVIOUS
    <3>1. m + 1 \in Nat /\ m + 1 > 0 /\ (m + 1) - 1 = m /\ m + 1 \in 1 .. N /\ \A k \in 1 .. m + 1 : Deposes[k] \in Nat
      BY <1>0, <2>1
    <3>2. P!Cumul(Deposes, m + 1) = P!Cumul(Deposes, m) + Deposes[m + 1]
      BY <3>1, CumulOK
    <3>3. P!Cumul(Deposes, m) = 0
      BY <2>3, <3>1, <1>0
    <3> QED BY <2>1, <3>1, <3>2, <3>3
  <2>4. Nat \subseteq K
    <3> HIDE DEF K
    <3> QED BY <2>2, <2>3, Recurrence
  <2> QED BY <2>4, <1>0
<1> QED BY <1>2, <1>3

(* The file is empty at first, in the run that has not left its values   *)
(* there.                                                                *)
LEMMA VerseInit ==
  ASSUME P!Init, prog.boite = <<>>
  PROVE  Verse
<1>0. N \in Nat \ {0} /\ MaxProcessus \in Nat /\ 1 <= MaxProcessus
  BY Nombre, MCProcessusAssumption DEF P!ProcessusAssumption
<1>1. ip[1] = 1 /\ val[1] = 0 /\ boite = <<>>
  BY <1>0 DEF P!Init, P!Pids
<1> QED BY <1>0, <1>1, DeposesInit DEF Verse

(* TME6 ex3.c and fils_fichier_pere_addition.c: what each step does.     *)
LEMMA Pas_memoire ==
  ASSUME Base, prog \in {P!memoire, P!addition(<<>>), P!addition(<< 5 >>)}, NEW p \in P!Pids, P!Pas(p)
  PROVE  \/ UNCHANGED <<ip, val, boite>>
         \/ p = 1 /\ ip[1] \in 1 .. N /\ ip' = [ip EXCEPT ![1] = ip[1] + 1] /\ UNCHANGED <<val, boite>>
         \/ /\ p = 1 /\ ip[1] \in N + 1 .. 2 * N /\ ip' = [ip EXCEPT ![1] = ip[1] + 1] /\ UNCHANGED <<val, boite>>
            /\ etat' = [etat EXCEPT ![ip[1] - N + 1] = "fini"]
         \/ /\ p = 1 /\ ip[1] = 2 * N + 1 /\ ip' = [ip EXCEPT ![1] = ip[1] + 1] /\ UNCHANGED boite
            /\ val' = [val EXCEPT ![1] = val[1] + P!Cumul(boite, Len(boite))]
         \/ p = 1 /\ ip[1] = 2 * N + 2 /\ ip' = [ip EXCEPT ![1] = ip[1] + 1] /\ UNCHANGED <<val, boite>>
         \/ /\ p \in 2 .. N + 1 /\ ip[p] = 1 /\ ip' = [ip EXCEPT ![p] = 2] /\ etat[p] = "vif"
            /\ UNCHANGED boite /\ \E v \in Nat : val' = [val EXCEPT ![p] = v]
         \/ /\ p \in 2 .. N + 1 /\ ip[p] = 2 /\ ip' = [ip EXCEPT ![p] = 3] /\ etat[p] = "vif"
            /\ UNCHANGED val /\ boite' = Append(boite, val[p])
<1>0. /\ L = N + 1 /\ N \in Nat \ {0} /\ p \in 1 .. L /\ etat[p] = "vif"
      /\ EFin(p) \/ EDehors(p) \/ (ip[p] \in 1 .. Lg(p) /\ Effet(p, ip[p]))
  BY Nombre, Effets, Table_memoire
<1>1. CASE EFin(p) \/ EDehors(p)
  BY <1>1 DEF EFin, EDehors
<1>2. CASE ip[p] \in 1 .. Lg(p) /\ Effet(p, ip[p]) /\ p \in 2 .. N + 1
  <2>1. ip[p] = 1 \/ ip[p] = 2
    BY <1>0, <1>2, Table_memoire
  <2>2. EValeur(p, ip[p]) /\ (ip[p] = 1 => Op(p, 1) = "alea") /\ (ip[p] = 2 => Op(p, 2) = "depose")
    BY <1>0, <1>2, <2>1, Table_memoire, ParAppel
  <2>3. CASE ip[p] = 1
    <3>1. ip' = [ip EXCEPT ![p] = 2] /\ UNCHANGED boite /\ \E v \in Nat : val' = [val EXCEPT ![p] = v]
      BY <2>2, <2>3 DEF EValeur, Monte
    <3> QED BY <1>0, <1>2, <2>3, <3>1
  <2>4. CASE ip[p] = 2
    <3>1. ip' = [ip EXCEPT ![p] = 3] /\ UNCHANGED val /\ boite' = Append(boite, val[p])
      BY <2>2, <2>4 DEF EValeur, Monte
    <3> QED BY <1>0, <1>2, <2>4, <3>1
  <2> QED BY <2>1, <2>3, <2>4
<1>3. CASE ip[p] \in 1 .. Lg(p) /\ Effet(p, ip[p]) /\ p = 1
  <2>0. ip[1] \in Nat /\ ip[1] >= 1 /\ ip[1] <= 2 * N + 2 /\ Effet(1, ip[1])
    BY <1>0, <1>3, Table_memoire
  <2>1. ip[1] \in 1 .. N \/ ip[1] \in N + 1 .. 2 * N \/ ip[1] = 2 * N + 1 \/ ip[1] = 2 * N + 2
    BY <2>0, <1>0
  <2>2. CASE ip[1] = 2 * N + 2
    <3>1. EDit(1, ip[1])
      BY <2>0, <2>2, Table_memoire, ParAppel
    <3> QED BY <3>1, <2>2, <1>3 DEF EDit, Monte
  <2>3. CASE ip[1] = 2 * N + 1
    <3>1. EValeur(1, ip[1]) /\ Op(1, ip[1]) = "somme"
      BY <2>0, <2>3, Table_memoire, ParAppel
    <3> QED BY <3>1, <2>3, <1>3 DEF EValeur, Monte
  <2>4. CASE ip[1] \in N + 1 .. 2 * N
    <3>1. Op(1, ip[1]) = "waitpid" /\ Ar(1, ip[1]) = ip[1] - N + 1
      BY <2>0, <2>4, Table_memoire
    <3>2. EWaitpid(1, ip[1])
      BY <2>0, <3>1, ParAppel
    <3>3. /\ ip' = [ip EXCEPT ![1] = ip[1] + 1] /\ UNCHANGED <<val, boite>>
          /\ etat' = [etat EXCEPT ![ip[1] - N + 1] = "fini"]
      BY <3>1, <3>2 DEF EWaitpid, Monte
    <3> QED BY <3>3, <2>4, <1>3
  <2>5. CASE ip[1] \in 1 .. N
    <3>1. EFork(1, ip[1])
      BY <2>0, <2>5, Table_memoire, ParAppel
    <3>2. ip' = [ip EXCEPT ![1] = ip[1] + 1] /\ UNCHANGED <<val, boite>>
      BY <3>1 DEF EFork, Monte
    <3> QED BY <3>2, <2>5, <1>3
  <2> QED BY <2>1, <2>2, <2>3, <2>4, <2>5
<1>4. p = 1 \/ p \in 2 .. N + 1
  BY <1>0
<1> QED BY <1>0, <1>1, <1>2, <1>3, <1>4

(* A value that is put keeps the sum, and main reads after all the sons. *)
LEMMA VersePas ==
  ASSUME Base, Types', prog \in {P!memoire, P!addition(<<>>), P!addition(<< 5 >>)}, Verse, NEW p \in P!Pids, P!Pas(p)
  PROVE  Verse'
<1> HIDE DEF P!Pids
<1>0. /\ L = N + 1 /\ N \in Nat \ {0} /\ ip \in [P!Pids -> Nat \ {0}] /\ val \in [P!Pids -> Nat]
      /\ 1 .. N + 1 \subseteq P!Pids /\ boite \in Seq(Nat) /\ ip[1] \in Nat /\ 1 \in P!Pids /\ val[1] \in Nat
  <2>1. L = N + 1 /\ N \in Nat \ {0} /\ 1 \in 1 .. N + 1
    BY Nombre, Table_memoire
  <2>2. 1 .. N + 1 \subseteq P!Pids
    BY <2>1, Pids0 DEF Base
  <2>3. ip \in [P!Pids -> Nat \ {0}] /\ val \in [P!Pids -> Nat] /\ boite \in Seq(Nat)
    BY DEF Base, Types
  <2> QED BY <2>1, <2>2, <2>3
<1>1. /\ ip[1] <= 2 * N + 1 => val[1] = 0
      /\ P!Cumul(boite, Len(boite)) = P!Cumul(Deposes, N)
      /\ \A k \in 1 .. N : ip[1] > N + k => etat[k + 1] = "fini"
      /\ ip[1] > 2 * N + 1 => val[1] = P!Cumul(boite, Len(boite))
  BY DEF Verse
<1>2. \A k \in 1 .. N : etat[k + 1] = "fini" => etat'[k + 1] = "fini"
  <2> TAKE k \in 1 .. N
  <2>1. k + 1 \in P!Pids
    BY <1>0
  <2> QED BY <2>1, EtatChange
<1>3. CASE UNCHANGED <<ip, val, boite>>
  <2>1. Deposes' = Deposes
    BY <1>3 DEF Deposes
  <2> QED BY <1>1, <1>2, <1>3, <2>1 DEF Verse
<1>4. ASSUME ip' = [ip EXCEPT ![1] = ip[1] + 1], \A q \in 2 .. N + 1 : val'[q] = val[q]
      PROVE  P!Cumul(Deposes', N) = P!Cumul(Deposes, N) /\ ip'[1] = ip[1] + 1
  <2>1. \A q \in 2 .. N + 1 : q \in P!Pids /\ q # 1
    BY <1>0
  <2>2. \A q \in 2 .. N + 1 : q # 1 => ip'[q] = ip[q] /\ val'[q] = val[q]
    BY <1>0, <1>4, <2>1
  <2>3. 1 \notin 2 .. N + 1
    BY <1>0
  <2>4. P!Cumul(Deposes', N) = P!Cumul(Deposes, N)
    BY <1>0, <2>2, <2>3, DeposesChange
  <2> QED BY <1>0, <1>4, <2>4
<1>5. CASE ip[1] \in 1 .. N /\ ip' = [ip EXCEPT ![1] = ip[1] + 1] /\ UNCHANGED <<val, boite>>
  <2>1. ip'[1] = ip[1] + 1 /\ P!Cumul(Deposes', N) = P!Cumul(Deposes, N)
    BY <1>4, <1>5
  <2>2. \A k \in 1 .. N : ~(ip'[1] > N + k)
    BY <1>0, <1>5, <2>1
  <2>3. ~(ip'[1] > 2 * N + 1) /\ ip[1] <= 2 * N + 1
    BY <1>0, <1>5, <2>1
  <2> QED BY <1>1, <1>5, <2>1, <2>2, <2>3 DEF Verse
<1>6. CASE /\ ip[1] \in N + 1 .. 2 * N /\ ip' = [ip EXCEPT ![1] = ip[1] + 1] /\ UNCHANGED <<val, boite>>
           /\ etat' = [etat EXCEPT ![ip[1] - N + 1] = "fini"]
  <2>1. ip'[1] = ip[1] + 1 /\ P!Cumul(Deposes', N) = P!Cumul(Deposes, N)
    BY <1>4, <1>6
  <2>2. ASSUME NEW k \in 1 .. N, ip'[1] > N + k PROVE etat'[k + 1] = "fini"
    <3>1. k + 1 \in P!Pids
      BY <1>0
    <3>2. CASE ip[1] > N + k
      BY <3>2, <1>1, <1>2
    <3>3. CASE ip[1] = N + k
      <4>1. PICK j : j = ip[1] - N + 1
        OBVIOUS
      <4>2. etat \in [P!Pids -> {"absent", "vif", "zombie", "fini"}]
        BY DEF Base, Types
      <4>3. j = k + 1
        BY <1>0, <3>3, <4>1
      <4>4. etat' = [etat EXCEPT ![j] = "fini"]
        BY <1>6, <4>1
      <4> QED BY <3>1, <4>2, <4>3, <4>4
    <3>4. ip[1] > N + k \/ ip[1] = N + k
      <4>1. ip[1] \in Nat /\ N \in Nat /\ k \in Nat /\ ip[1] + 1 > N + k
        BY <1>0, <2>1, <2>2
      <4> QED BY <4>1
    <3> QED BY <3>2, <3>3, <3>4
  <2>3. ~(ip'[1] > 2 * N + 1) /\ ip[1] <= 2 * N + 1
    <3>1. ip[1] \in Nat /\ N \in Nat /\ ip[1] <= 2 * N /\ ip'[1] = ip[1] + 1
      BY <1>0, <1>6, <2>1
    <3> QED BY <3>1
  <2> QED BY <1>1, <1>6, <2>1, <2>2, <2>3 DEF Verse
<1>7. CASE /\ ip[1] = 2 * N + 1 /\ ip' = [ip EXCEPT ![1] = ip[1] + 1] /\ UNCHANGED boite
           /\ val' = [val EXCEPT ![1] = val[1] + P!Cumul(boite, Len(boite))]
  <2>1. \A q \in 2 .. N + 1 : val'[q] = val[q]
    BY <1>0, <1>7
  <2>2. ip'[1] = ip[1] + 1 /\ P!Cumul(Deposes', N) = P!Cumul(Deposes, N)
    BY <1>4, <1>7, <2>1
  <2>3. ASSUME NEW k \in 1 .. N PROVE etat'[k + 1] = "fini"
    <3>1. ip[1] > N + k
      BY <1>0, <1>7
    <3> QED BY <3>1, <1>1, <1>2
  <2>4. ~(ip'[1] <= 2 * N + 1) /\ val[1] = 0
    BY <1>0, <1>1, <1>7, <2>2
  <2>5. P!Cumul(boite, Len(boite)) \in Nat
    BY <1>0, CumulSuite
  <2>6. val'[1] = P!Cumul(boite', Len(boite'))
    <3>1. val'[1] = val[1] + P!Cumul(boite, Len(boite)) /\ boite' = boite
      BY <1>0, <1>7
    <3> QED BY <2>4, <2>5, <3>1
  <2> QED BY <1>1, <1>7, <2>2, <2>3, <2>4, <2>6 DEF Verse
<1>8. CASE ip[1] = 2 * N + 2 /\ ip' = [ip EXCEPT ![1] = ip[1] + 1] /\ UNCHANGED <<val, boite>>
  <2>1. ip'[1] = ip[1] + 1 /\ P!Cumul(Deposes', N) = P!Cumul(Deposes, N)
    BY <1>4, <1>8
  <2>2. ASSUME NEW k \in 1 .. N PROVE etat'[k + 1] = "fini"
    <3>1. ip[1] > N + k
      BY <1>0, <1>8
    <3> QED BY <3>1, <1>1, <1>2
  <2>3. ~(ip'[1] <= 2 * N + 1) /\ ip[1] > 2 * N + 1
    BY <1>0, <1>8, <2>1
  <2> QED BY <1>1, <1>8, <2>1, <2>2, <2>3 DEF Verse
<1>9. CASE /\ p \in 2 .. N + 1 /\ ip[p] = 1 /\ ip' = [ip EXCEPT ![p] = 2] /\ etat[p] = "vif"
           /\ UNCHANGED boite /\ \E v \in Nat : val' = [val EXCEPT ![p] = v]
  <2>0. PICK v \in Nat : val' = [val EXCEPT ![p] = v]
    BY <1>9
  <2>1. p # 1 /\ ip'[1] = ip[1] /\ val'[1] = val[1] /\ ip'[p] = 2
    BY <1>0, <1>9, <2>0
  <2>2. \A r \in 2 .. N + 1 : r # p => ip'[r] = ip[r] /\ val'[r] = val[r]
    BY <1>0, <1>9, <2>0
  <2>3. P!Cumul(Deposes', N) = P!Cumul(Deposes, N)
    <3>0. Base /\ L = N + 1 /\ Types' /\ p \in 2 .. N + 1
      BY <1>0, <1>9
    <3>1. /\ P!Cumul(Deposes, N) \in Nat
          /\ P!Cumul(Deposes', N) = P!Cumul(Deposes, N) + (IF ip'[p] = 3 THEN val'[p] ELSE 0) - (IF ip[p] = 3 THEN val[p] ELSE 0)
      BY <3>0, <2>2, DeposesChange
    <3>2. (IF ip'[p] = 3 THEN val'[p] ELSE 0) = 0 /\ (IF ip[p] = 3 THEN val[p] ELSE 0) = 0
      BY <1>9, <2>1
    <3> QED BY <3>1, <3>2
  <2> QED BY <1>1, <1>2, <1>9, <2>1, <2>3 DEF Verse
<1>10. CASE /\ p \in 2 .. N + 1 /\ ip[p] = 2 /\ ip' = [ip EXCEPT ![p] = 3] /\ etat[p] = "vif"
            /\ UNCHANGED val /\ boite' = Append(boite, val[p])
  <2>1. p # 1 /\ ip'[1] = ip[1] /\ val'[1] = val[1] /\ ip'[p] = 3 /\ val'[p] = val[p] /\ val[p] \in Nat
    BY <1>0, <1>10
  <2>2. \A r \in 2 .. N + 1 : r # p => ip'[r] = ip[r] /\ val'[r] = val[r]
    BY <1>0, <1>10
  <2>3. P!Cumul(Deposes', N) = P!Cumul(Deposes, N) + val[p]
    <3>0. Base /\ L = N + 1 /\ Types' /\ p \in 2 .. N + 1
      BY <1>0, <1>10
    <3>1. /\ P!Cumul(Deposes, N) \in Nat
          /\ P!Cumul(Deposes', N) = P!Cumul(Deposes, N) + (IF ip'[p] = 3 THEN val'[p] ELSE 0) - (IF ip[p] = 3 THEN val[p] ELSE 0)
      BY <3>0, <2>2, DeposesChange
    <3>2. (IF ip'[p] = 3 THEN val'[p] ELSE 0) = val[p] /\ (IF ip[p] = 3 THEN val[p] ELSE 0) = 0
      BY <1>10, <2>1
    <3> QED BY <2>1, <3>1, <3>2
  <2>4. P!Cumul(boite', Len(boite')) = P!Cumul(boite, Len(boite)) + val[p]
    BY <1>0, <1>10, <2>1, CumulSuite
  <2>5. ~(ip[1] > 2 * N + 1)
    <3> SUFFICES ASSUME ip[1] > 2 * N + 1 PROVE FALSE
      OBVIOUS
    <3>1. p - 1 \in 1 .. N /\ ip[1] > N + (p - 1) /\ (p - 1) + 1 = p
      BY <1>0, <1>10
    <3> QED BY <3>1, <1>1, <1>10
  <2> QED BY <1>1, <1>2, <2>1, <2>3, <2>4, <2>5 DEF Verse
<1> QED BY <1>3, <1>5, <1>6, <1>7, <1>8, <1>9, <1>10, Pas_memoire

(* The calls of main in TME8 ex1.c.                                        *)
LEMMA Rangs ==
  ASSUME NEW k \in Nat, k >= 1, k <= 3 * N + 1
  PROVE  \/ k = 3 * N + 1
         \/ k \in 2 * N + 1 .. 3 * N
         \/ \E q \in 2 .. N + 1 : k = 2 * q - 3 \/ k = 2 * q - 2
<1>0. N \in Nat \ {0}
  BY Nombre
<1>1. PICK q \in Nat : k = 2 * q \/ k = 2 * q + 1
  BY Parite
<1>2. CASE k > 2 * N
  BY <1>0, <1>2
<1>3. CASE k <= 2 * N /\ k = 2 * q
  <2>1. q + 1 \in 2 .. N + 1 /\ k = 2 * (q + 1) - 2
    BY <1>0, <1>3
  <2> QED BY <2>1
<1>4. CASE k <= 2 * N /\ k = 2 * q + 1
  <2>1. q + 2 \in 2 .. N + 1 /\ k = 2 * (q + 2) - 3
    BY <1>0, <1>4
  <2> QED BY <2>1
<1> QED BY <1>0, <1>1, <1>2, <1>3, <1>4

(* What BonTotal rests on.                                                 *)
Totaux ==
    /\ P!Nom({"val", "addition", "memoire", "datagramme", "ex1", "taille"}) => Dits
    /\ P!Nom({"val"}) => Transmis
    /\ P!Nom({"addition", "memoire"}) /\ prog.boite = <<>> => Verse
    /\ P!Nom({"datagramme"}) => UnDatagramme

(* These programs have no loop.                                          *)
LEMMA SansRetourOK ==
  ASSUME prog \in P!Programmes, P!Nom({"val", "addition", "memoire", "datagramme", "ex1", "taille"}), Base
  PROVE  SansRetour
<1>0. N \in Nat \ {0}
  BY Nombre
<1>1. CASE prog = P!chaine_val
  <2> SUFFICES ASSUME NEW p \in 1 .. L, NEW k \in 1 .. Lg(p) PROVE Op(p, k) # "retour"
    BY DEF SansRetour
  <2>1. p = 1 \/ p \in 2 .. N \/ p = N + 1
    BY <1>0, <1>1, Table_chaine_val
  <2> QED BY <1>0, <1>1, <2>1, Table_chaine_val
<1>2. CASE prog \in {P!memoire, P!addition(<<>>), P!addition(<< 5 >>)}
  <2> SUFFICES ASSUME NEW p \in 1 .. L, NEW k \in 1 .. Lg(p) PROVE Op(p, k) # "retour"
    BY DEF SansRetour
  <2>1. p = 1 \/ p \in 2 .. N + 1
    BY <1>0, <1>2, Table_memoire
  <2>2. CASE p = 1
    <3>1. k \in 1 .. N \/ k \in N + 1 .. 2 * N \/ k = 2 * N + 1 \/ k = 2 * N + 2
      BY <1>0, <1>2, <2>2, Table_memoire
    <3> QED BY <1>2, <2>2, <3>1, Table_memoire
  <2>3. CASE p \in 2 .. N + 1
    <3>1. k = 1 \/ k = 2
      BY <1>2, <2>3, Table_memoire
    <3> QED BY <1>2, <2>3, <3>1, Table_memoire
  <2> QED BY <2>1, <2>2, <2>3
<1>3. CASE prog = P!datagramme
  <2> SUFFICES ASSUME NEW p \in 1 .. L, NEW k \in 1 .. Lg(p) PROVE Op(p, k) # "retour"
    BY DEF SansRetour
  <2>1. p = 1 \/ p \in 2 .. N + 1
    BY <1>0, <1>3, Table_datagramme
  <2>2. CASE p = 1
    <3>0. k \in Nat /\ k >= 1 /\ k <= 3 * N + 1
      BY <1>0, <1>3, <2>2, Table_datagramme
    <3>2. \/ k = 3 * N + 1
          \/ k \in 2 * N + 1 .. 3 * N
          \/ \E q \in 2 .. N + 1 : k = 2 * q - 3 \/ k = 2 * q - 2
      BY <3>0, Rangs
    <3> QED BY <1>3, <2>2, <3>2, Table_datagramme
  <2>3. CASE p \in 2 .. N + 1
    <3>1. k = 1 \/ k = 2
      BY <1>3, <2>3, Table_datagramme
    <3> QED BY <1>3, <2>3, <3>1, Table_datagramme
  <2> QED BY <2>1, <2>2, <2>3
<1>4. CASE prog = P!ex1
  <2> SUFFICES ASSUME NEW p \in 1 .. L, NEW k \in 1 .. Lg(p) PROVE Op(p, k) # "retour"
    BY DEF SansRetour
  <2>1. p = 1 \/ p \in 2 .. N + 1
    BY <1>0, <1>4, Table_ex1
  <2>2. CASE p = 1
    <3>0. k \in Nat /\ k >= 1 /\ k <= 2 * N + 2
      BY <1>0, <1>4, <2>2, Table_ex1
    <3>1. PICK q \in Nat : k = 2 * q \/ k = 2 * q + 1
      BY <3>0, Parite
    <3>2. \/ k = 1
          \/ k = 2
          \/ q + 1 \in 2 .. N + 1 /\ k = 2 * (q + 1) - 1
          \/ q \in 2 .. N + 1 /\ k = 2 * q
      BY <3>0, <3>1, <1>0
    <3> QED BY <1>4, <2>2, <3>2, Table_ex1
  <2>3. CASE p \in 2 .. N + 1
    <3>1. k = 1 \/ k = 2
      BY <1>4, <2>3, Table_ex1
    <3> QED BY <1>4, <2>3, <3>1, Table_ex1
  <2> QED BY <2>1, <2>2, <2>3
<1>5. CASE prog = P!taille_fic
  <2> SUFFICES ASSUME NEW p \in 1 .. L, NEW k \in 1 .. Lg(p) PROVE Op(p, k) # "retour"
    BY DEF SansRetour
  <2>1. p = 1 \/ p = 2
    BY <1>5, Table_taille_fic
  <2>2. CASE p = 1
    <3>1. k \in 1 .. 8
      BY <1>5, <2>2, Table_taille_fic
    <3> QED BY <1>5, <2>2, <3>1, Table_taille_fic
  <2>3. CASE p = 2
    <3>1. k \in 1 .. 4
      BY <1>5, <2>3, Table_taille_fic
    <3> QED BY <1>5, <2>3, <3>1, Table_taille_fic
  <2> QED BY <2>1, <2>2, <2>3
<1> QED BY <1>1, <1>2, <1>3, <1>4, <1>5, ParNom DEF P!Nom

(* The first state satisfies it.                                         *)
LEMMA TotauxInit == P!Init => Totaux
<1> SUFFICES ASSUME P!Init PROVE Totaux
  OBVIOUS
<1>1. Base /\ prog \in P!Programmes
  BY BaseInit DEF Base, Types
<1>2. P!Nom({"datagramme"}) => prog = P!datagramme
  BY <1>1, ParNom DEF P!Nom
<1> QED BY <1>1, <1>2, DitsInit, TransmisInit, VerseInit, DatagrammeInit DEF Totaux

(* Every step keeps it.                                                  *)
LEMMA TotauxPas ==
  ASSUME Base, Attendus, Totaux, NEW p \in P!Pids, P!Pas(p)
  PROVE  Totaux'
<1>0. prog \in P!Programmes /\ prog' = prog /\ Types'
  BY MasquesPas, BasePas DEF Base, Types
<1>1. \A noms : P!Nom(noms)' <=> P!Nom(noms)
  BY <1>0 DEF P!Nom
<1>2. ASSUME P!Nom({"val", "addition", "memoire", "datagramme", "ex1", "taille"}) PROVE Dits'
  <2>1. SansRetour /\ Dits
    BY <1>0, <1>2, SansRetourOK DEF Totaux
  <2> QED BY <2>1, DitsPas
<1>3. ASSUME P!Nom({"val"}) PROVE Transmis'
  <2>1. prog = P!chaine_val /\ Transmis
    BY <1>0, <1>3, ParNom DEF P!Nom, Totaux
  <2> QED BY <2>1, TransmisPas
<1>4. ASSUME P!Nom({"addition", "memoire"}), prog.boite = <<>> PROVE Verse'
  <2>1. prog.nom \in {"addition", "memoire"}
    BY <1>4 DEF P!Nom
  <2>2. prog \in {P!memoire, P!addition(<<>>), P!addition(<< 5 >>)}
    BY <1>0, <2>1, ParNom
  <2>3. Verse
    BY <1>4 DEF Totaux
  <2> QED BY <1>0, <2>2, <2>3, VersePas
<1>5. ASSUME P!Nom({"datagramme"}) PROVE UnDatagramme'
  <2>1. prog = P!datagramme /\ UnDatagramme
    BY <1>0, <1>5, ParNom DEF P!Nom, Totaux
  <2> QED BY <1>0, <2>1, DatagrammePas
<1> QED BY <1>0, <1>1, <1>2, <1>3, <1>4, <1>5 DEF Totaux

(* So does a step that changes nothing.                                  *)
LEMMA TotauxStable ==
  ASSUME Totaux, UNCHANGED P!vars
  PROVE  Totaux'
<1>0. UNCHANGED <<prog, etat, ip, val, trace, boite>>
  BY DEF P!vars, P!svars, P!dvars
<1>1. Dits => Dits'
  BY <1>0 DEF Dits, PasseDit, L, Lg, Op
<1>2. Transmis => Transmis'
  BY <1>0 DEF Transmis
<1>3. Verse => Verse'
  BY <1>0 DEF Verse, Deposes
<1>4. UnDatagramme => UnDatagramme'
  BY <1>0 DEF UnDatagramme, Deposes
<1> QED BY <1>0, <1>1, <1>2, <1>3, <1>4 DEF Totaux, P!Nom

(* What main has displayed it has passed.                                  *)
LEMMA Passe ==
  ASSUME Dits, P!Affiche(1)
  PROVE  \E j \in 1 .. Lg(1) : j < ip[1] /\ Op(1, j) = "dit"
BY DEF Dits, PasseDit, P!Affiche

(* What main displays is the value of the last, or the sum.              *)
LEMMA BonTotalOK ==
  ASSUME Base, Totaux
  PROVE  P!BonTotal
<1> HIDE DEF P!Pids
<1> SUFFICES ASSUME P!Nom({"val", "addition", "memoire", "datagramme"}), prog.boite = <<>>, P!Affiche(1)
             PROVE  val[1] = IF prog.nom = "val" THEN val[N + 1] ELSE P!Cumul([k \in 1 .. N |-> val[k + 1]], N)
  BY DEF P!BonTotal, P!Nom, P!Affiche
<1>0. /\ prog \in P!Programmes /\ N \in Nat \ {0} /\ ip \in [P!Pids -> Nat \ {0}] /\ val \in [P!Pids -> Nat]
      /\ 1 .. L \subseteq P!Pids /\ L >= 1 /\ boite \in Seq(Nat) /\ 1 \in P!Pids
  <2>1. 1 .. L \subseteq P!Pids /\ L \in Nat /\ L >= 1
    <3>1. L \in 1 .. MaxProcessus /\ MaxProcessus \in Nat
      BY MCProcessusAssumption DEF Base, Bien, P!ProcessusAssumption
    <3>2. Bien
      BY DEF Base
    <3> QED BY <3>1, <3>2, Pids0
  <2>2. 1 \in P!Pids
    BY <2>1
  <2> QED BY <2>1, <2>2, Nombre DEF Base, Types
<1>1. PICK j \in 1 .. Lg(1) : j < ip[1] /\ Op(1, j) = "dit"
  BY Passe DEF Totaux, P!Nom
<1>2. ip[1] \in Nat /\ j \in Nat
  BY <1>0, <1>1
<1>3. CASE prog.nom = "val"
  <2>1. prog = P!chaine_val /\ Transmis
    BY <1>0, <1>3, ParNom DEF Totaux, P!Nom
  <2>2. ip[1] >= 3
    BY <1>1, <1>2, <2>1, Table_chaine_val
  <2>3. val[1] = val[N + 1]
    BY <1>0, <2>1, <2>2 DEF Transmis
  <2> QED BY <1>3, <2>3
<1>4. ASSUME val[1] = P!Cumul(Deposes, N), \A q \in 2 .. N + 1 : ip[q] = 3
      PROVE  val[1] = P!Cumul([k \in 1 .. N |-> val[k + 1]], N)
  <2>1. \A k \in 1 .. N : k + 1 \in 2 .. N + 1
    BY <1>0
  <2>2. Deposes = [k \in 1 .. N |-> val[k + 1]]
    BY <1>4, <2>1 DEF Deposes
  <2> QED BY <1>4, <2>2
<1>5. CASE prog.nom \in {"addition", "memoire"}
  <2>1. prog \in {P!memoire, P!addition(<<>>), P!addition(<< 5 >>)} /\ Verse
    <3>1. P!Nom({"addition", "memoire"})
      BY <1>5 DEF P!Nom
    <3> QED BY <1>0, <1>5, <3>1, ParNom DEF Totaux
  <2>2. ip[1] > 2 * N + 1
    <3>1. j \in 1 .. N \/ j \in N + 1 .. 2 * N \/ j = 2 * N + 1 \/ j = 2 * N + 2
      BY <1>0, <1>1, <1>2, <2>1, Table_memoire
    <3>2. j = 2 * N + 2
      BY <1>1, <2>1, <3>1, Table_memoire
    <3> QED BY <1>0, <1>1, <1>2, <3>2
  <2>3. ASSUME NEW q \in 2 .. N + 1 PROVE ip[q] = 3
    <3>1. PICK k \in 1 .. N : k + 1 = q /\ ip[1] > N + k
      <4>1. N \in Nat /\ q \in Int /\ 2 <= q /\ q <= N + 1 /\ ip[1] \in Nat
        BY <1>0, <1>2
      <4>2. q - 1 \in 1 .. N /\ (q - 1) + 1 = q
        BY <4>1
      <4>3. ip[1] > N + (q - 1)
        BY <4>1, <2>2
      <4> QED BY <4>2, <4>3
    <3>2. etat[q] = "fini"
      BY <2>1, <3>1 DEF Verse
    <3>3. L = N + 1 /\ Lg(q) = 2
      BY <2>1, Table_memoire
    <3>4. q \in P!Pids
      BY <1>0, <3>3
    <3> QED BY <3>2, <3>3, <3>4 DEF Base, Places, P!Termine
  <2>4. val[1] = P!Cumul(Deposes, N)
    BY <2>1, <2>2 DEF Verse
  <2> QED BY <1>4, <1>5, <2>3, <2>4
<1>6. CASE prog.nom = "datagramme"
  <2>1. prog = P!datagramme /\ UnDatagramme
    BY <1>0, <1>6, ParNom DEF Totaux, P!Nom
  <2>2. ip[1] > 2 * N + 1
    <3>1. j \in Nat /\ j >= 1 /\ j <= 3 * N + 1
      BY <1>0, <1>1, <2>1, Table_datagramme
    <3>2. \/ j = 3 * N + 1
          \/ j \in 2 * N + 1 .. 3 * N
          \/ \E q \in 2 .. N + 1 : j = 2 * q - 3 \/ j = 2 * q - 2
      BY <3>1, Rangs
    <3>3. j = 3 * N + 1
      BY <1>1, <2>1, <3>2, Table_datagramme
    <3> QED BY <1>0, <1>1, <1>2, <3>3
  <2>3. ASSUME NEW q \in 2 .. N + 1 PROVE ip[q] = 3 /\ ip[1] # 2 * q - 2
    <3>1. ip[1] > 2 * q - 2
      BY <1>0, <1>2, <2>2
    <3> QED BY <1>2, <2>1, <3>1 DEF UnDatagramme
  <2>4. boite = <<>>
    BY <2>1, <2>3 DEF UnDatagramme
  <2>5. P!Cumul(boite, Len(boite)) = 0
    BY <1>0, <2>4, CumulSuite
  <2>6. val[1] = P!Cumul(Deposes, N)
    <3>1. val[1] \in Nat /\ val[1] + P!Cumul(boite, Len(boite)) = P!Cumul(Deposes, N)
      BY <1>0, <2>1 DEF UnDatagramme
    <3> QED BY <2>5, <3>1
  <2> QED BY <1>4, <1>6, <2>3, <2>6
<1> QED BY <1>3, <1>5, <1>6 DEF P!Nom

(* An offset changes, the other does not.                                *)
LEMMA PosChange ==
  ASSUME pos \in Nat \X Nat, NEW f \in {1, 2}, NEW v, pos' = [pos EXCEPT ![f] = v]
  PROVE  /\ pos[1] \in Nat /\ pos[2] \in Nat
         /\ pos'[f] = v /\ \A g \in {1, 2} : g # f => pos'[g] = pos[g]
<1>1. PICK a \in Nat, b \in Nat : pos = <<a, b>>
  OBVIOUS
<1>2. DOMAIN pos = {1, 2} /\ pos[1] = a /\ pos[2] = b
  BY <1>1
<1> QED BY <1>1, <1>2

(* taille_fic_egal_8.c: where the two offsets are and how long the file is. *)
Ecrits ==
    /\ ip[1] >= 4 => ip[2] >= 3
    /\ ip[2] >= 4 => ip[1] >= 8
    /\ ip[2] > 1 => ip[1] >= 3
    /\ ip[1] = 1 => pos[1] = 0 /\ taille = 0
    /\ ip[1] \in {2, 3} => pos[1] = (IF ip[2] > 1 THEN 8 ELSE 5) /\ taille = pos[1]
    /\ ip[1] = 4 => pos[1] = 8
    /\ ip[1] = 5 => pos[1] = 0
    /\ ip[1] = 6 => pos[1] = 2
    /\ pos[2] = IF ip[2] > 4 THEN 2 ELSE 0
    /\ ip[1] >= 4 => taille = 8

(* The file is empty at first.                                           *)
LEMMA EcritsInit == P!Init => Ecrits
<1> SUFFICES ASSUME P!Init PROVE Ecrits
  OBVIOUS
<1>1. 1 \in P!Pids /\ 2 \in P!Pids
  BY MCProcessusAssumption DEF P!ProcessusAssumption, P!Pids
<1>2. ip[1] = 1 /\ ip[2] = 1 /\ pos = <<0, 0>> /\ taille = 0
  BY <1>1 DEF P!Init
<1>3. pos[1] = 0 /\ pos[2] = 0
  BY <1>2
<1> QED BY <1>2, <1>3 DEF Ecrits

(* The father goes back in the file when the son has written, the son    *)
(* opens it again when the father has.                                   *)
LEMMA EcritsPas ==
  ASSUME Base, Signaux, prog = P!taille_fic, Ecrits, NEW p \in P!Pids, P!Pas(p)
  PROVE  Ecrits'
<1> HIDE DEF P!Pids
<1>0. /\ p \in 1 .. 2 /\ etat[p] = "vif" /\ ip[p] \in 1 .. Lg(p) + 1
      /\ EFin(p) \/ EDehors(p) \/ (ip[p] \in 1 .. Lg(p) /\ Effet(p, ip[p]))
  BY Effets, Table_taille_fic
<1>1. /\ L = 2 /\ 1 \in P!Pids /\ 2 \in P!Pids /\ ip[1] \in Nat \ {0} /\ ip[2] \in Nat \ {0}
      /\ ip \in [P!Pids -> Nat \ {0}] /\ pos \in Nat \X Nat /\ taille \in Nat
  <2>1. L = 2 /\ 1 \in 1 .. 2 /\ 2 \in 1 .. 2 /\ 1 .. L \subseteq P!Pids
    BY Table_taille_fic, Pids0 DEF Base
  <2>2. 1 \in P!Pids /\ 2 \in P!Pids
    BY <2>1
  <2> QED BY <2>1, <2>2 DEF Base, Types
<1>2. /\ Emis(2, "USR1") => ip[1] > 7
      /\ Emis(1, "USR1") => ip[2] > 2
  BY Appelle_taille_fic
<1>3. CASE EFin(p) \/ EDehors(p)
  BY <1>3 DEF EFin, EDehors, Ecrits
<1>4. ASSUME ip[p] \in 1 .. Lg(p), Monte(p)
      PROVE  ip'[p] = ip[p] + 1 /\ \A q \in 1 .. 2 : q # p => ip'[q] = ip[q]
  BY <1>0, <1>1, <1>4 DEF Monte
<1>5. ASSUME ESuspend(p, ip[p]), NEW S0, Ar(p, ip[p]) = S0, S0 = {"USR1"}
      PROVE  Emis(p, "USR1") /\ Monte(p) /\ UNCHANGED <<pos, taille>>
  <2>1. "USR1" \in pendants[p] /\ Monte(p) /\ UNCHANGED <<pos, taille>>
    BY <1>5 DEF ESuspend
  <2>2. p \in P!Pids /\ "USR1" \in P!Deux
    BY DEF P!Deux
  <2> QED BY <2>1, <2>2 DEF Signaux, SEmis
<1>6. CASE p = 1 /\ ip[1] \in 1 .. Lg(1) /\ Effet(1, ip[1])
  <2>0. ip[1] \in 1 .. 8
    BY <1>6, Table_taille_fic
  <2>1. CASE ip[1] = 1
    <3>1. EEcrit(1, 1) /\ Op(1, 1) = "write" /\ Ar(1, 1) = 1 /\ A3(1, 1) = 5
      BY <1>6, <2>1, Table_taille_fic, ParAppel
    <3>2. pos' = [pos EXCEPT ![1] = pos[1] + 5] /\ taille' = P!Max({taille, pos'[1]}) /\ Monte(1)
      BY <3>1 DEF EEcrit
    <3>3. pos'[1] = pos[1] + 5 /\ pos'[2] = pos[2] /\ pos[1] = 0 /\ taille = 0
      BY <1>1, <2>1, <3>2, PosChange DEF Ecrits
    <3>4. taille' = 5
      BY <3>2, <3>3, MinOK
    <3>5. ip'[1] = 2 /\ ip'[2] = ip[2]
      BY <1>4, <1>6, <2>1, <3>2
    <3>6. ip[2] = 1
      BY <1>1, <2>1 DEF Ecrits
    <3>7. pos'[1] = 5
      BY <3>3
    <3> QED BY <3>3, <3>4, <3>5, <3>6, <3>7 DEF Ecrits
  <2>2. CASE ip[1] = 2
    <3>1. EFork(1, 2)
      BY <1>6, <2>2, Table_taille_fic, ParAppel
    <3>2. UNCHANGED <<pos, taille>> /\ Monte(1)
      BY <3>1 DEF EFork
    <3>3. ip'[1] = 3 /\ ip'[2] = ip[2]
      BY <1>4, <1>6, <2>2, <3>2
    <3>4. ~(ip[2] > 1)
      BY <2>2 DEF Ecrits
    <3> QED BY <1>1, <2>2, <3>2, <3>3, <3>4 DEF Ecrits
  <2>3. CASE ip[1] = 3
    <3>1. ESuspend(1, 3) /\ Ar(1, 3) = {"USR1"}
      BY <1>6, <2>3, Table_taille_fic, ParAppel
    <3>2. Emis(1, "USR1") /\ UNCHANGED <<pos, taille>> /\ Monte(1)
      BY <1>5, <1>6, <2>3, <3>1
    <3>3. ip'[1] = 4 /\ ip'[2] = ip[2]
      BY <1>4, <1>6, <2>3, <3>2
    <3>4. ip[2] > 2
      BY <1>2, <3>2
    <3> QED BY <1>1, <2>3, <3>2, <3>3, <3>4 DEF Ecrits
  <2>4. CASE ip[1] = 4
    <3>1. EEcrit(1, 4) /\ Op(1, 4) = "lseek" /\ Ar(1, 4) = 1
      BY <1>6, <2>4, Table_taille_fic, ParAppel
    <3>2. pos' = [pos EXCEPT ![1] = 0] /\ taille' = taille /\ Monte(1)
      BY <3>1 DEF EEcrit
    <3>3. pos'[1] = 0 /\ pos'[2] = pos[2]
      BY <1>1, <3>2, PosChange
    <3>4. ip'[1] = 5 /\ ip'[2] = ip[2]
      BY <1>4, <1>6, <2>4, <3>2
    <3> QED BY <1>1, <2>4, <3>2, <3>3, <3>4 DEF Ecrits
  <2>5. CASE ip[1] \in {5, 6}
    <3>1. EEcrit(1, ip[1]) /\ Op(1, ip[1]) = "write" /\ Ar(1, ip[1]) = 1 /\ A3(1, ip[1]) = 2
      BY <1>6, <2>5, Table_taille_fic, ParAppel
    <3>2. pos' = [pos EXCEPT ![1] = pos[1] + 2] /\ taille' = P!Max({taille, pos'[1]}) /\ Monte(1)
      BY <3>1 DEF EEcrit
    <3>3. pos'[1] = pos[1] + 2 /\ pos'[2] = pos[2] /\ taille = 8
      BY <1>1, <2>5, <3>2, PosChange DEF Ecrits
    <3>4. pos[1] = IF ip[1] = 5 THEN 0 ELSE 2
      BY <2>5 DEF Ecrits
    <3>5. pos'[1] \in {2, 4} /\ (ip[1] = 5 => pos'[1] = 2)
      BY <2>5, <3>3, <3>4
    <3>6. taille' = 8
      BY <3>2, <3>3, <3>5, MinOK
    <3>7. ip'[1] = ip[1] + 1 /\ ip'[2] = ip[2]
      BY <1>4, <1>6, <3>2
    <3> QED BY <1>1, <2>5, <3>3, <3>5, <3>6, <3>7 DEF Ecrits
  <2>6. CASE ip[1] \in {7, 8}
    <3>1. Op(1, ip[1]) \in {"kill", "wait"}
      BY <2>6, Table_taille_fic
    <3>2. UNCHANGED <<pos, taille>> /\ Monte(1)
      BY <1>6, <3>1, ParAppel DEF EKill, EWait
    <3>3. ip'[1] = ip[1] + 1 /\ ip'[2] = ip[2]
      BY <1>4, <1>6, <3>2
    <3> QED BY <1>1, <2>6, <3>2, <3>3 DEF Ecrits
  <2> QED BY <2>0, <2>1, <2>2, <2>3, <2>4, <2>5, <2>6
<1>7. CASE p = 2 /\ ip[2] \in 1 .. Lg(2) /\ Effet(2, ip[2])
  <2>0. ip[2] \in 1 .. 4
    BY <1>7, Table_taille_fic
  <2>1. ip[1] > 2
    <3>1. Op(1, 2) = "fork" /\ Ar(1, 2) = 2 /\ 2 \in 1 .. Lg(1) /\ 1 \in 1 .. L
      BY Table_taille_fic
    <3>2. etat[2] # "absent"
      BY <1>0, <1>7
    <3> QED BY <1>1, <3>1, <3>2, Cree
  <2>2. CASE ip[2] = 1
    <3>1. EEcrit(2, 1) /\ Op(2, 1) = "write" /\ Ar(2, 1) = 1 /\ A3(2, 1) = 3
      BY <1>7, <2>2, Table_taille_fic, ParAppel
    <3>2. pos' = [pos EXCEPT ![1] = pos[1] + 3] /\ taille' = P!Max({taille, pos'[1]}) /\ Monte(2)
      BY <3>1 DEF EEcrit
    <3>3. ip[1] = 3
      BY <1>1, <2>1, <2>2 DEF Ecrits
    <3>4. pos'[1] = pos[1] + 3 /\ pos'[2] = pos[2]
      BY <1>1, <3>2, PosChange
    <3>5. pos[1] = 5 /\ taille = 5
      BY <2>2, <3>3 DEF Ecrits
    <3>6. pos'[1] = 8 /\ taille' = 8
      BY <3>2, <3>4, <3>5, MinOK
    <3>7. ip'[2] = 2 /\ ip'[1] = ip[1]
      BY <1>4, <1>7, <2>2, <3>2
    <3> QED BY <2>2, <3>3, <3>4, <3>6, <3>7 DEF Ecrits
  <2>3. CASE ip[2] = 2
    <3>1. EKill(2, 2)
      BY <1>7, <2>3, Table_taille_fic, ParAppel
    <3>2. UNCHANGED <<pos, taille>> /\ Monte(2)
      BY <3>1 DEF EKill
    <3>3. ip'[2] = 3 /\ ip'[1] = ip[1]
      BY <1>4, <1>7, <2>3, <3>2
    <3> QED BY <1>1, <2>1, <2>3, <3>2, <3>3 DEF Ecrits
  <2>4. CASE ip[2] = 3
    <3>1. ESuspend(2, 3) /\ Ar(2, 3) = {"USR1"}
      BY <1>7, <2>4, Table_taille_fic, ParAppel
    <3>2. Emis(2, "USR1") /\ UNCHANGED <<pos, taille>> /\ Monte(2)
      BY <1>5, <1>7, <2>4, <3>1
    <3>3. ip'[2] = 4 /\ ip'[1] = ip[1] /\ ip[1] > 7
      BY <1>2, <1>4, <1>7, <2>4, <3>2
    <3> QED BY <1>1, <2>4, <3>2, <3>3 DEF Ecrits
  <2>5. CASE ip[2] = 4
    <3>1. EEcrit(2, 4) /\ Op(2, 4) = "write" /\ Ar(2, 4) = 2 /\ A3(2, 4) = 2
      BY <1>7, <2>5, Table_taille_fic, ParAppel
    <3>2. pos' = [pos EXCEPT ![2] = pos[2] + 2] /\ taille' = P!Max({taille, pos'[2]}) /\ Monte(2)
      BY <3>1 DEF EEcrit
    <3>3. pos'[2] = pos[2] + 2 /\ pos'[1] = pos[1] /\ pos[2] = 0 /\ taille = 8 /\ ip[1] >= 8
      BY <1>1, <2>5, <3>2, PosChange DEF Ecrits
    <3>4. pos'[2] = 2 /\ taille' = 8
      BY <3>2, <3>3, MinOK
    <3>5. ip'[2] = 5 /\ ip'[1] = ip[1]
      BY <1>4, <1>7, <2>5, <3>2
    <3> QED BY <1>1, <2>5, <3>3, <3>4, <3>5 DEF Ecrits
  <2> QED BY <2>0, <2>2, <2>3, <2>4, <2>5
<1>8. p = 1 \/ p = 2
  BY <1>0
<1> QED BY <1>0, <1>3, <1>6, <1>7, <1>8

(* The file is 8 characters long when both have ended.                   *)
LEMMA TailleHuitOK ==
  ASSUME Base, P!Nom({"taille"}) => Ecrits
  PROVE  P!TailleHuit
<1> SUFFICES ASSUME P!Nom({"taille"}), P!Termine(1) PROVE taille = 8
  BY DEF P!TailleHuit
<1>1. prog = P!taille_fic /\ Ecrits
  BY ParNom DEF Base, Types, P!Nom
<1>2. 1 \in P!Pids
  BY MCProcessusAssumption DEF P!ProcessusAssumption, P!Pids
<1>3. ip[1] = Lg(1) + 1 /\ Lg(1) = 8
  BY <1>1, <1>2, Table_taille_fic DEF Base, Places
<1>4. ip[1] >= 4
  BY <1>3
<1> QED BY <1>1, <1>4 DEF Ecrits

(* An entry added to trace.                                              *)
LEMMA Allonge ==
  ASSUME Base, NEW x, NEW o, NEW v, trace' = Append(trace, <<x, o, v>>)
  PROVE  /\ Len(trace) \in Nat /\ Len(trace') = Len(trace) + 1
         /\ \A k \in 1 .. Len(trace) : trace'[k] = trace[k]
         /\ LET e == trace'[Len(trace) + 1] IN e[1] = x /\ e[2] = o /\ e[3] = v
<1>1. trace \in Seq(Traces)
  BY DEF Base, Types
<1>2. /\ Len(trace) \in Nat /\ Len(trace') = Len(trace) + 1 /\ trace'[Len(trace) + 1] = <<x, o, v>>
      /\ \A k \in 1 .. Len(trace) : trace'[k] = trace[k]
  BY <1>1, AppendProperties, LenProperties
<1> QED BY <1>2

(* Without kill no signal comes.                                           *)
SansKill == \A p \in 1 .. L : \A k \in 1 .. Lg(p) : Op(p, k) # "kill"
Muets    == \A q \in P!Pids : pendants[q] = {}

(* No signal is pending at first.                                        *)
LEMMA MuetsInit == P!Init => Muets
BY DEF P!Init, Muets

(* Without kill it stays so.                                             *)
LEMMA MuetsPas ==
  ASSUME Base, SansKill, Muets, NEW p \in P!Pids, P!Pas(p)
  PROVE  Muets' /\ ~EDehors(p)
<1>1. p \in 1 .. L
  BY Effets
<1>2. Muets'
  <2> SUFFICES ASSUME NEW q \in P!Pids, NEW s, s \in pendants'[q] PROVE FALSE
    BY DEF Muets
  <2>1. s \notin pendants[q]
    BY DEF Muets
  <2> QED BY <1>1, <2>1, Croissent DEF SansKill
<1>3. ~EDehors(p)
  BY DEF EDehors, Muets
<1> QED BY <1>2, <1>3

(* TMEExam ex1.c: what each step does.                                     *)
LEMMA Pas_ex1 ==
  ASSUME Base, prog = P!ex1, Muets, NEW p \in P!Pids, P!Pas(p)
  PROVE  \/ EFin(p) /\ UNCHANGED <<ip, val, trace>>
         \/ /\ p = 1 /\ ip[1] = 1 /\ ip' = [ip EXCEPT ![1] = 2] /\ val' = [val EXCEPT ![1] = P!Lisible(N + 1)]
            /\ UNCHANGED <<trace, etat, pere>>
         \/ /\ p = 1 /\ ip[1] = 2 /\ ip' = [ip EXCEPT ![1] = 3] /\ trace' = Append(trace, <<1, "dit", val[1]>>)
            /\ UNCHANGED <<val, etat, pere>>
         \/ \E q \in 2 .. N + 1 :
              /\ p = 1 /\ ip[1] = 2 * q - 1 /\ ip' = [ip EXCEPT ![1] = 2 * q] /\ etat[q] = "absent"
              /\ etat' = [etat EXCEPT ![q] = "vif"] /\ pere' = [pere EXCEPT ![q] = 1] /\ UNCHANGED <<val, trace>>
         \/ \E q \in 2 .. N + 1 :
              /\ p = 1 /\ ip[1] = 2 * q /\ ip' = [ip EXCEPT ![1] = 2 * q + 1]
              /\ \/ \E r \in P!Fils(1) : etat[r] = "zombie" /\ etat' = [etat EXCEPT ![r] = "fini"]
                 \/ P!Fils(1) = {} /\ UNCHANGED etat
              /\ UNCHANGED <<pere, val, trace>>
         \/ /\ p \in 2 .. N + 1 /\ ip[p] = 1 /\ ip' = [ip EXCEPT ![p] = 2] /\ val' = [val EXCEPT ![p] = P!Lisible(N + 2 - p)]
            /\ etat[p] = "vif" /\ UNCHANGED <<trace, etat, pere>>
         \/ /\ p \in 2 .. N + 1 /\ ip[p] = 2 /\ ip' = [ip EXCEPT ![p] = 3] /\ trace' = Append(trace, <<p, "dit", val[p]>>)
            /\ etat[p] = "vif" /\ UNCHANGED <<val, etat, pere>>
<1>0. /\ L = N + 1 /\ N \in Nat \ {0} /\ p \in 1 .. L /\ etat[p] = "vif"
      /\ EFin(p) \/ (ip[p] \in 1 .. Lg(p) /\ Effet(p, ip[p]))
  <2>1. EDehors(p) => FALSE
    BY DEF EDehors, Muets
  <2> QED BY <2>1, Nombre, Effets, Table_ex1
<1>1. CASE EFin(p)
  BY <1>1 DEF EFin
<1>2. CASE ip[p] \in 1 .. Lg(p) /\ Effet(p, ip[p]) /\ p \in 2 .. N + 1
  <2>1. (ip[p] = 1 \/ ip[p] = 2) /\ Op(p, 1) = "pose" /\ Ar(p, 1) = P!Lisible(N + 2 - p) /\ Op(p, 2) = "dit"
    BY <1>0, <1>2, Table_ex1
  <2>2. CASE ip[p] = 1
    <3>1. EValeur(p, 1) /\ Op(p, 1) = "pose" /\ Ar(p, 1) = P!Lisible(N + 2 - p)
      BY <1>2, <2>1, <2>2, ParAppel
    <3>2. ip' = [ip EXCEPT ![p] = 2] /\ val' = [val EXCEPT ![p] = P!Lisible(N + 2 - p)] /\ UNCHANGED <<trace, etat, pere>>
      BY <2>2, <3>1 DEF EValeur, Monte
    <3> QED BY <1>0, <1>2, <2>2, <3>2
  <2>3. CASE ip[p] = 2
    <3>1. EDit(p, 2)
      BY <1>2, <2>1, <2>3, ParAppel
    <3>2. ip' = [ip EXCEPT ![p] = 3] /\ trace' = Append(trace, <<p, "dit", val[p]>>) /\ UNCHANGED <<val, etat, pere>>
      BY <2>3, <3>1 DEF EDit, Monte
    <3> QED BY <1>0, <1>2, <2>3, <3>2
  <2> QED BY <2>1, <2>2, <2>3
<1>3. CASE ip[p] \in 1 .. Lg(p) /\ Effet(p, ip[p]) /\ p = 1
  <2>0. ip[1] \in Nat /\ ip[1] >= 1 /\ ip[1] <= 2 * N + 2 /\ Effet(1, ip[1]) /\ N \in Nat \ {0}
    BY <1>0, <1>3, Table_ex1
  <2>1. PICK h \in Nat : ip[1] = 2 * h \/ ip[1] = 2 * h + 1
    BY <2>0, Parite
  <2>2. \/ ip[1] = 1 \/ ip[1] = 2
        \/ h + 1 \in 2 .. N + 1 /\ ip[1] = 2 * (h + 1) - 1
        \/ h \in 2 .. N + 1 /\ ip[1] = 2 * h
    BY <2>0, <2>1
  <2>3. CASE ip[1] = 1
    <3>1. EValeur(1, 1) /\ Op(1, 1) = "pose" /\ Ar(1, 1) = P!Lisible(N + 1)
      BY <2>0, <2>3, Table_ex1, ParAppel
    <3>2. ip' = [ip EXCEPT ![1] = 2] /\ val' = [val EXCEPT ![1] = P!Lisible(N + 1)] /\ UNCHANGED <<trace, etat, pere>>
      BY <2>3, <3>1 DEF EValeur, Monte
    <3> QED BY <1>3, <2>3, <3>2
  <2>4. CASE ip[1] = 2
    <3>1. EDit(1, 2)
      BY <2>0, <2>4, Table_ex1, ParAppel
    <3>2. ip' = [ip EXCEPT ![1] = 3] /\ trace' = Append(trace, <<1, "dit", val[1]>>) /\ UNCHANGED <<val, etat, pere>>
      BY <2>4, <3>1 DEF EDit, Monte
    <3> QED BY <1>3, <2>4, <3>2
  <2>5. ASSUME NEW q \in 2 .. N + 1, ip[1] = 2 * q - 1
        PROVE  /\ ip' = [ip EXCEPT ![1] = 2 * q] /\ etat[q] = "absent"
               /\ etat' = [etat EXCEPT ![q] = "vif"] /\ pere' = [pere EXCEPT ![q] = 1] /\ UNCHANGED <<val, trace>>
    <3>1. Op(1, ip[1]) = "fork" /\ Ar(1, ip[1]) = q
      BY <2>5, Table_ex1
    <3>2. EFork(1, ip[1])
      BY <2>0, <3>1, ParAppel
    <3>3. ip[1] + 1 = 2 * q
      BY <2>5
    <3>4. PICK r : r = Ar(1, ip[1])
      OBVIOUS
    <3>5. /\ ip' = [ip EXCEPT ![1] = ip[1] + 1] /\ etat[r] = "absent"
          /\ etat' = [etat EXCEPT ![r] = "vif"] /\ pere' = [pere EXCEPT ![r] = 1] /\ UNCHANGED <<val, trace>>
      BY <3>2, <3>4 DEF EFork, Monte
    <3> QED BY <3>1, <3>3, <3>4, <3>5
  <2>6. ASSUME NEW q \in 2 .. N + 1, ip[1] = 2 * q
        PROVE  /\ ip' = [ip EXCEPT ![1] = 2 * q + 1]
               /\ \/ \E r \in P!Fils(1) : etat[r] = "zombie" /\ etat' = [etat EXCEPT ![r] = "fini"]
                  \/ P!Fils(1) = {} /\ UNCHANGED etat
               /\ UNCHANGED <<pere, val, trace>>
    <3>1. EWait(1, ip[1])
      <4>1. Op(1, 2 * q) = "wait"
        BY <2>6, Table_ex1
      <4>2. Op(1, ip[1]) = "wait"
        BY <2>6, <4>1
      <4> QED BY <2>0, <4>2, ParAppel
    <3>2. ip' = [ip EXCEPT ![1] = 2 * q + 1]
      <4>1. ip' = [ip EXCEPT ![1] = ip[1] + 1]
        BY <3>1 DEF EWait, Monte
      <4> QED BY <2>6, <4>1
    <3>3. /\ \/ \E r \in P!Fils(1) : etat[r] = "zombie" /\ etat' = [etat EXCEPT ![r] = "fini"]
             \/ P!Fils(1) = {} /\ UNCHANGED etat
          /\ UNCHANGED <<pere, val, trace>>
      BY <3>1 DEF EWait
    <3> QED BY <3>2, <3>3
  <2>7. CASE h + 1 \in 2 .. N + 1 /\ ip[1] = 2 * (h + 1) - 1
    <3>1. PICK q \in 2 .. N + 1 : ip[1] = 2 * q - 1
      BY <2>7
    <3> QED BY <1>3, <2>5, <3>1
  <2>8. CASE h \in 2 .. N + 1 /\ ip[1] = 2 * h
    <3>1. PICK q \in 2 .. N + 1 : ip[1] = 2 * q
      BY <2>8
    <3> QED BY <1>3, <2>6, <3>1
  <2> QED BY <2>2, <2>3, <2>4, <2>7, <2>8
<1>4. p = 1 \/ p \in 2 .. N + 1
  BY <1>0
<1> QED BY <1>0, <1>1, <1>2, <1>3, <1>4

(* TMEExam ex1.c: main has waited for each son before it forks the next,   *)
(* so the characters are displayed from the last to the first.             *)
Renverse ==
    /\ \A j \in 1 .. Len(trace) : trace[j][3] = P!Lisible(N + 2 - j)
    /\ ip[1] \in {1, 2} => Len(trace) = 0
    /\ ip[1] = 2 => val[1] = P!Lisible(N + 1)
    /\ \A q \in 2 .. N + 1 :
         /\ ip[1] > 2 * q => etat[q] = "fini"
         /\ ip[1] = 2 * q - 1 => Len(trace) = q - 1
         /\ ip[1] = 2 * q => /\ etat[q] \in {"vif", "zombie"} /\ pere[q] = 1
                             /\ Len(trace) = IF ip[q] = 3 THEN q ELSE q - 1
         /\ ip[q] = 2 => val[q] = P!Lisible(N + 2 - q)
    /\ ip[1] = 2 * N + 3 => Len(trace) = N + 1

(* Nothing is displayed at first.                                        *)
LEMMA RenverseInit == P!Init => Renverse
<1> SUFFICES ASSUME P!Init PROVE Renverse
  OBVIOUS
<1>1. N \in Nat \ {0} /\ MaxProcessus \in Nat /\ N + 1 <= MaxProcessus
  BY Nombre, MCProcessusAssumption DEF P!ProcessusAssumption
<1>2. \A q \in 1 .. N + 1 : ip[q] = 1
  BY <1>1 DEF P!Init, P!Pids
<1>3. Len(trace) = 0
  BY EmptySeq DEF P!Init
<1> QED BY <1>1, <1>2, <1>3 DEF Renverse

(* Every step keeps it: wait has one son to take, which has displayed.   *)
LEMMA RenversePas ==
  ASSUME Base, prog = P!ex1, Muets, Renverse, NEW p \in P!Pids, P!Pas(p)
  PROVE  Renverse'
<1> HIDE DEF P!Pids
<1>0. /\ L = N + 1 /\ N \in Nat \ {0} /\ 1 \in P!Pids /\ 1 .. N + 1 \subseteq P!Pids
      /\ ip \in [P!Pids -> Nat \ {0}] /\ val \in [P!Pids -> Nat] /\ Len(trace) \in Nat
      /\ etat \in [P!Pids -> {"absent", "vif", "zombie", "fini"}] /\ pere \in [P!Pids -> 0 .. MaxProcessus]
  <2>1. L = N + 1 /\ N \in Nat \ {0} /\ 1 .. L \subseteq P!Pids
    BY Nombre, Table_ex1, Pids0 DEF Base
  <2>2. 1 \in P!Pids /\ 1 .. N + 1 \subseteq P!Pids
    BY <2>1
  <2>3. Len(trace) \in Nat
    BY DEF Base, Types
  <2> QED BY <2>1, <2>2, <2>3 DEF Base, Types
<1>1. ip[1] \in Nat
  BY <1>0
<1>2. /\ \A j \in 1 .. Len(trace) : trace[j][3] = P!Lisible(N + 2 - j)
      /\ ip[1] \in {1, 2} => Len(trace) = 0
      /\ ip[1] = 2 => val[1] = P!Lisible(N + 1)
      /\ \A q \in 2 .. N + 1 :
           /\ ip[1] > 2 * q => etat[q] = "fini"
           /\ ip[1] = 2 * q - 1 => Len(trace) = q - 1
           /\ ip[1] = 2 * q => /\ etat[q] \in {"vif", "zombie"} /\ pere[q] = 1
                               /\ Len(trace) = IF ip[q] = 3 THEN q ELSE q - 1
           /\ ip[q] = 2 => val[q] = P!Lisible(N + 2 - q)
      /\ ip[1] = 2 * N + 3 => Len(trace) = N + 1
  BY DEF Renverse
<1>3. \A q \in 2 .. N + 1 : q \in P!Pids /\ q # 1 /\ q \in Nat /\ (etat[q] = "fini" => etat'[q] = "fini")
  <2> TAKE q \in 2 .. N + 1
  <2>1. q \in P!Pids /\ q # 1 /\ q \in Nat
    BY <1>0
  <2> QED BY <2>1, EtatChange
<1>4. ASSUME NEW q \in 2 .. N + 1, etat[q] # "absent"
      PROVE  ip[1] > 2 * q - 1 /\ pere[q] = 1
  <2>1. Op(1, 2 * q - 1) = "fork" /\ Ar(1, 2 * q - 1) = q
    BY Table_ex1
  <2>2. 2 * q - 1 \in 1 .. Lg(1) /\ 1 \in 1 .. L
    <3>1. Lg(1) = 2 * N + 2
      BY Table_ex1
    <3> QED BY <3>1, <1>0
  <2>3. pere[q] = 1 /\ 2 * q - 1 < ip[1]
    BY <1>3, <1>4, <2>1, <2>2, Cree
  <2> QED BY <1>0, <1>1, <2>3
<1>5. CASE EFin(p) /\ UNCHANGED <<ip, val, trace>>
  <2>1. ASSUME NEW q \in 2 .. N + 1, ip[1] = 2 * q PROVE etat'[q] \in {"vif", "zombie"} /\ pere'[q] = 1
    <3>1. q \in P!Pids /\ etat[q] \in {"vif", "zombie"} /\ pere[q] = 1
      BY <1>2, <1>3, <2>1
    <3>2. etat[1] = "vif"
      <4>1. ip[1] # Lg(1) + 1
        <5>1. Lg(1) = 2 * N + 2
          BY Table_ex1
        <5> QED BY <1>0, <1>1, <2>1, <5>1
      <4> QED BY <1>0, <4>1 DEF Base, Places, P!Termine
    <3>3. p # 1
      <4>1. Lg(1) = 2 * N + 2
        BY Table_ex1
      <4> QED BY <1>0, <1>1, <1>5, <2>1, <4>1 DEF EFin
    <3> QED BY <1>5, <3>1, <3>2, <3>3 DEF EFin
  <2> QED BY <1>2, <1>3, <1>5, <2>1 DEF Renverse
<1>6. CASE /\ ip[1] = 1 /\ ip' = [ip EXCEPT ![1] = 2] /\ val' = [val EXCEPT ![1] = P!Lisible(N + 1)]
           /\ UNCHANGED <<trace, etat, pere>>
  <2>1. /\ ip'[1] = 2 /\ val'[1] = P!Lisible(N + 1) /\ \A q \in 2 .. N + 1 : ip'[q] = ip[q] /\ val'[q] = val[q]
    BY <1>0, <1>3, <1>6
  <2>2. \A q \in 2 .. N + 1 : ~(ip'[1] > 2 * q) /\ ip'[1] # 2 * q - 1 /\ ip'[1] # 2 * q
    BY <1>0, <2>1
  <2>3. ip'[1] # 2 * N + 3
    BY <1>0, <2>1
  <2> QED BY <1>2, <1>6, <2>1, <2>2, <2>3 DEF Renverse
<1>7. CASE /\ ip[1] = 2 /\ ip' = [ip EXCEPT ![1] = 3] /\ trace' = Append(trace, <<1, "dit", val[1]>>)
           /\ UNCHANGED <<val, etat, pere>>
  <2>1. ip'[1] = 3 /\ \A q \in 2 .. N + 1 : ip'[q] = ip[q]
    BY <1>0, <1>3, <1>7
  <2>2. /\ Len(trace') = 1 /\ trace'[1][3] = P!Lisible(N + 1)
    BY <1>2, <1>7, Allonge
  <2>3. \A j \in 1 .. Len(trace') : trace'[j][3] = P!Lisible(N + 2 - j)
    <3>1. \A j \in 1 .. Len(trace') : j = 1
      BY <2>2
    <3> QED BY <1>0, <2>2, <3>1
  <2>4. \A q \in 2 .. N + 1 : ~(ip'[1] > 2 * q) /\ (ip'[1] = 2 * q - 1 => 1 = q - 1) /\ ip'[1] # 2 * q
    BY <1>0, <2>1
  <2>5. ip'[1] # 2 * N + 3 /\ ip'[1] \notin {1, 2}
    BY <1>0, <2>1
  <2> QED BY <1>2, <1>7, <2>1, <2>2, <2>3, <2>4, <2>5 DEF Renverse
<1>8. ASSUME NEW q \in 2 .. N + 1, ip[1] = 2 * q - 1, ip' = [ip EXCEPT ![1] = 2 * q], etat[q] = "absent",
             etat' = [etat EXCEPT ![q] = "vif"], pere' = [pere EXCEPT ![q] = 1], UNCHANGED <<val, trace>>
      PROVE  Renverse'
  <2>1. ip'[1] = 2 * q /\ (\A r \in 2 .. N + 1 : ip'[r] = ip[r]) /\ ip[q] = 1
    <3>1. ip[q] = 1
      BY <1>3, <1>8 DEF Base, Places
    <3> QED BY <1>0, <1>3, <1>8, <3>1
  <2>2. etat'[q] = "vif" /\ pere'[q] = 1
    BY <1>0, <1>3, <1>8
  <2>3. Len(trace) = q - 1
    BY <1>2, <1>8
  <2>4. ASSUME NEW r \in 2 .. N + 1
        PROVE  /\ ip'[1] > 2 * r => etat'[r] = "fini"
               /\ ip'[1] # 2 * r - 1
               /\ ip'[1] = 2 * r => r = q
    <3>1. r \in Nat /\ q \in Nat
      BY <1>3
    <3>2. ip'[1] # 2 * r - 1 /\ (ip'[1] = 2 * r => r = q)
      BY <2>1, <3>1
    <3>3. ASSUME ip'[1] > 2 * r PROVE etat'[r] = "fini"
      <4>1. ip[1] > 2 * r
        BY <1>8, <2>1, <3>1, <3>3
      <4> QED BY <1>2, <1>3, <4>1
    <3> QED BY <3>2, <3>3
  <2>5. ip'[1] # 2 * N + 3 /\ ip'[1] \notin {1, 2}
    BY <1>0, <1>3, <2>1
  <2> QED BY <1>2, <1>8, <2>1, <2>2, <2>3, <2>4, <2>5 DEF Renverse
<1>9. ASSUME NEW q \in 2 .. N + 1, ip[1] = 2 * q, ip' = [ip EXCEPT ![1] = 2 * q + 1],
             \/ \E r \in P!Fils(1) : etat[r] = "zombie" /\ etat' = [etat EXCEPT ![r] = "fini"]
             \/ P!Fils(1) = {} /\ UNCHANGED etat,
             UNCHANGED <<pere, val, trace>>
      PROVE  Renverse'
  <2>0. q \in Nat /\ q >= 2 /\ q <= N + 1
    BY <1>0
  <2>1. ip'[1] = 2 * q + 1 /\ \A r \in 2 .. N + 1 : ip'[r] = ip[r]
    BY <1>0, <1>3, <1>9
  <2>2. q \in P!Fils(1)
    BY <1>2, <1>3, <1>9 DEF P!Fils
  <2>3. PICK r \in P!Fils(1) : etat[r] = "zombie" /\ etat' = [etat EXCEPT ![r] = "fini"]
    BY <1>9, <2>2
  <2>4. r = q
    <3>1. r \in P!Pids /\ pere[r] = 1 /\ etat[r] = "zombie"
      BY <2>3 DEF P!Fils
    <3>2. r \in 2 .. N + 1
      <4>1. r \in 1 .. L /\ r # 1
        BY <3>1 DEF Base, Places
      <4> QED BY <1>0, <4>1
    <3>3. ip[1] > 2 * r - 1 /\ ~(ip[1] > 2 * r) /\ r \in Nat
      BY <1>2, <1>3, <1>4, <3>1, <3>2
    <3> QED BY <1>9, <2>0, <3>3
  <2>5. etat'[q] = "fini" /\ etat[q] = "zombie"
    BY <1>0, <1>3, <2>3, <2>4
  <2>6. ip[q] = 3 /\ Len(trace) = q
    <3>1. Lg(q) = 2
      BY Table_ex1
    <3>2. ip[q] = 3
      BY <1>3, <2>5, <3>1 DEF Base, Places, P!Termine
    <3> QED BY <1>2, <1>9, <3>2
  <2>7. ASSUME NEW s \in 2 .. N + 1
        PROVE  /\ ip'[1] > 2 * s => etat'[s] = "fini"
               /\ ip'[1] = 2 * s - 1 => s = q + 1
               /\ ip'[1] # 2 * s
    <3>1. s \in Nat
      BY <1>3
    <3>2. (ip'[1] = 2 * s - 1 => s = q + 1) /\ ip'[1] # 2 * s
      BY <2>0, <2>1, <3>1
    <3>3. ASSUME ip'[1] > 2 * s PROVE etat'[s] = "fini"
      <4>1. s = q \/ ip[1] > 2 * s
        BY <1>9, <2>0, <2>1, <3>1, <3>3
      <4> QED BY <1>2, <1>3, <2>5, <4>1
    <3> QED BY <3>2, <3>3
  <2>8. (ip'[1] = 2 * N + 3 => q = N + 1) /\ ip'[1] \notin {1, 2}
    BY <1>0, <2>0, <2>1
  <2>9. \A s \in 2 .. N + 1 : s = q + 1 => q = s - 1
    BY <2>0
  <2> QED BY <1>2, <1>9, <2>1, <2>6, <2>7, <2>8, <2>9 DEF Renverse
<1>10. ASSUME p \in 2 .. N + 1, etat[p] = "vif"
       PROVE  p \in Nat /\ ip[1] = 2 * p
  <2>1. p \in Nat /\ ip[1] > 2 * p - 1 /\ ~(ip[1] > 2 * p)
    BY <1>2, <1>3, <1>4, <1>10
  <2> QED BY <1>1, <2>1
<1>11. CASE /\ p \in 2 .. N + 1 /\ ip[p] = 1 /\ ip' = [ip EXCEPT ![p] = 2] /\ val' = [val EXCEPT ![p] = P!Lisible(N + 2 - p)]
            /\ etat[p] = "vif" /\ UNCHANGED <<trace, etat, pere>>
  <2>1. p # 1 /\ ip'[1] = ip[1] /\ ip'[p] = 2 /\ val'[p] = P!Lisible(N + 2 - p) /\ val'[1] = val[1]
    BY <1>0, <1>3, <1>11
  <2>2. \A q \in 2 .. N + 1 : q # p => ip'[q] = ip[q] /\ val'[q] = val[q]
    BY <1>0, <1>3, <1>11
  <2> QED BY <1>2, <1>11, <2>1, <2>2 DEF Renverse
<1>12. CASE /\ p \in 2 .. N + 1 /\ ip[p] = 2 /\ ip' = [ip EXCEPT ![p] = 3] /\ trace' = Append(trace, <<p, "dit", val[p]>>)
            /\ etat[p] = "vif" /\ UNCHANGED <<val, etat, pere>>
  <2>1. p # 1 /\ ip'[1] = ip[1] /\ ip'[p] = 3 /\ \A q \in 2 .. N + 1 : q # p => ip'[q] = ip[q]
    BY <1>0, <1>3, <1>12
  <2>2. p \in Nat /\ ip[1] = 2 * p /\ p >= 2 /\ p <= N + 1
    BY <1>0, <1>10, <1>12
  <2>3. Len(trace) = p - 1 /\ val[p] = P!Lisible(N + 2 - p)
    BY <1>2, <1>12, <2>2
  <2>4. Len(trace') = p /\ trace'[p][3] = P!Lisible(N + 2 - p) /\ \A k \in 1 .. Len(trace) : trace'[k] = trace[k]
    <3>1. Len(trace) + 1 = p
      BY <2>2, <2>3
    <3> QED BY <1>12, <2>3, <3>1, Allonge
  <2>5. \A j \in 1 .. Len(trace') : trace'[j][3] = P!Lisible(N + 2 - j)
    <3> TAKE j \in 1 .. Len(trace')
    <3>1. j = p \/ j \in 1 .. Len(trace)
      BY <2>2, <2>3, <2>4
    <3> QED BY <1>2, <2>4, <3>1
  <2>6. ASSUME NEW q \in 2 .. N + 1 PROVE ip[1] # 2 * q - 1 /\ (ip[1] = 2 * q => q = p)
    <3>1. q \in Nat
      BY <1>3
    <3> QED BY <2>2, <3>1
  <2>7. ip[1] # 2 * N + 3 /\ ip[1] \notin {1, 2}
    BY <1>0, <2>2
  <2> QED BY <1>2, <1>12, <2>1, <2>4, <2>5, <2>6, <2>7 DEF Renverse
<1> QED BY <1>5, <1>6, <1>7, <1>8, <1>9, <1>11, <1>12, Pas_ex1

(* What ex1.c displays, one process after the other: the characters      *)
(* N + 1 to 1 of the file, without those past its end.                   *)
LEMMA Caracteres_ex1 ==
  ASSUME Base, prog = P!ex1, Renverse
  PROVE  P!ChaqueCaractere
<1>0. /\ N \in Nat \ {0} /\ ~P!Nom({"ex1c", "posix", "libc"}) /\ L >= 1 /\ L \in Nat /\ 1 \in P!Pids
      /\ Lg(1) = 2 * N + 2 /\ Len(trace) \in Nat
  <2>1. N \in Nat \ {0} /\ L = N + 1 /\ prog.nom = "ex1" /\ Lg(1) = 2 * N + 2
    BY Nombre, Table_ex1
  <2>2. 1 \in P!Pids
    BY MCProcessusAssumption DEF P!ProcessusAssumption, P!Pids
  <2>3. Len(trace) \in Nat
    BY DEF Base, Types
  <2> QED BY <2>1, <2>2, <2>3 DEF P!Nom
<1>1. \A j \in 1 .. Len(trace) : trace[j][3] = IF N + 2 - j <= Longueur THEN N + 2 - j ELSE 0
  BY DEF Renverse, P!Lisible
<1>2. ASSUME \A p \in P!Crees : P!Termine(p) PROVE Len(trace) = N + 1
  <2>1. P!Termine(1)
    BY <1>0, <1>2 DEF P!Crees, L
  <2>2. ip[1] = 2 * N + 3
    <3>1. ip[1] = (2 * N + 2) + 1
      BY <1>0, <2>1 DEF Base, Places
    <3> QED BY <1>0, <3>1
  <2> QED BY <2>2 DEF Renverse
<1> QED BY <1>0, <1>1, <1>2 DEF P!ChaqueCaractere

(* TMEExam ex1c.c: what each step does.                                    *)
LEMMA Pas_ex1c ==
  ASSUME Base, prog = P!ex1c, Muets, NEW p \in P!Pids, P!Pas(p)
  PROVE  \/ EFin(p) /\ UNCHANGED <<ip, val, trace, pos, tampon>>
         \/ /\ p \in 1 .. N /\ etat[p] = "vif"
            /\ \/ /\ ip[p] = 1 /\ ip' = [ip EXCEPT ![p] = 2] /\ tampon[p] # <<>> /\ UNCHANGED <<etat, pere, trace, pos>>
                  /\ tampon' = [tampon EXCEPT ![p] = Tail(tampon[p])] /\ val' = [val EXCEPT ![p] = Head(tampon[p])]
               \/ /\ ip[p] = 1 /\ tampon[p] = <<>> /\ UNCHANGED <<ip, val, trace, etat, pere>>
                  /\ tampon' = [tampon EXCEPT ![p] = [j \in 1 .. 1 |-> pos[1] + j]]
                  /\ pos' = [pos EXCEPT ![1] = pos[1] + 1]
               \/ /\ ip[p] = 1 /\ ip' = [ip EXCEPT ![p] = 5] /\ UNCHANGED <<etat, pere, val, trace, pos, tampon>>
               \/ /\ ip[p] = 2 /\ ip' = [ip EXCEPT ![p] = 3] /\ etat[p + 1] = "absent"
                  /\ etat' = [etat EXCEPT ![p + 1] = "vif"] /\ pere' = [pere EXCEPT ![p + 1] = p]
                  /\ UNCHANGED <<val, trace, pos, tampon>>
               \/ /\ ip[p] = 3 /\ ip' = [ip EXCEPT ![p] = 4] /\ UNCHANGED <<pere, val, trace, pos, tampon>>
                  /\ \/ \E r \in P!Fils(p) : etat[r] = "zombie" /\ etat' = [etat EXCEPT ![r] = "fini"]
                     \/ P!Fils(p) = {} /\ UNCHANGED etat
               \/ /\ ip[p] = 4 /\ ip' = [ip EXCEPT ![p] = 5] /\ trace' = Append(trace, <<p, "dit", val[p]>>)
                  /\ UNCHANGED <<etat, pere, val, pos, tampon>>
<1>0. /\ L = N + 1 /\ N \in Nat \ {0} /\ p \in 1 .. L /\ etat[p] = "vif"
      /\ EFin(p) \/ (ip[p] \in 1 .. Lg(p) /\ Effet(p, ip[p]))
  <2>1. EDehors(p) => FALSE
    BY DEF EDehors, Muets
  <2> QED BY <2>1, Nombre, Effets, Table_ex1c
<1>1. CASE EFin(p)
  BY <1>1 DEF EFin
<1>2. CASE ip[p] \in 1 .. Lg(p) /\ Effet(p, ip[p])
  <2>1. p \in 1 .. N
    <3>1. p # N + 1
      BY <1>0, <1>2, Table_ex1c
    <3> QED BY <1>0, <3>1
  <2>2. /\ Lg(p) = 4 /\ Op(p, 1) = "lit" /\ Ar(p, 1) = 1 /\ Op(p, 2) = "fork" /\ Ar(p, 2) = p + 1
        /\ Op(p, 3) = "wait" /\ Op(p, 4) = "dit" /\ ip[p] \in 1 .. 4
    BY <1>2, <2>1, Table_ex1c
  <2>3. CASE ip[p] = 1
    <3>1. ELit(p, 1)
      BY <1>2, <2>2, <2>3, ParAppel
    <3>2. CASE /\ tampon[p] # <<>> /\ val' = [val EXCEPT ![p] = Head(tampon[p])]
               /\ tampon' = [tampon EXCEPT ![p] = Tail(@)] /\ Monte(p) /\ UNCHANGED pos
      <4>1. ip' = [ip EXCEPT ![p] = 2]
        BY <2>3, <3>2 DEF Monte
      <4> QED BY <1>0, <2>1, <2>3, <3>1, <3>2, <4>1 DEF ELit
    <3>3. CASE /\ tampon[p] = <<>> /\ pos[1] < Longueur
               /\ \E d \in 1 .. Ar(p, 1) :
                    /\ pos[1] + d <= Longueur
                    /\ tampon' = [tampon EXCEPT ![p] = [j \in 1 .. d |-> pos[1] + j]]
                    /\ pos' = [pos EXCEPT ![1] = @ + d]
               /\ UNCHANGED <<ip, val>>
      <4>1. PICK d \in 1 .. 1 : /\ tampon' = [tampon EXCEPT ![p] = [j \in 1 .. d |-> pos[1] + j]]
                                /\ pos' = [pos EXCEPT ![1] = pos[1] + d]
        BY <2>2, <3>3
      <4>2. d = 1
        OBVIOUS
      <4> QED BY <1>0, <2>1, <2>3, <3>1, <3>3, <4>1, <4>2 DEF ELit
    <3>4. CASE tampon[p] = <<>> /\ ip' = [ip EXCEPT ![p] = Lg(p) + 1] /\ UNCHANGED <<val, tampon, pos>>
      <4>1. ip' = [ip EXCEPT ![p] = 5]
        BY <2>2, <3>4
      <4> QED BY <1>0, <2>1, <2>3, <3>1, <3>4, <4>1 DEF ELit
    <3> QED BY <3>1, <3>2, <3>3, <3>4 DEF ELit
  <2>4. CASE ip[p] = 2
    <3>1. EFork(p, 2)
      BY <1>2, <2>2, <2>4, ParAppel
    <3>2. PICK r : r = Ar(p, 2)
      OBVIOUS
    <3>3. /\ ip' = [ip EXCEPT ![p] = ip[p] + 1] /\ etat[r] = "absent"
          /\ etat' = [etat EXCEPT ![r] = "vif"] /\ pere' = [pere EXCEPT ![r] = p]
          /\ UNCHANGED <<val, trace, pos, tampon>>
      BY <3>1, <3>2 DEF EFork, Monte
    <3>4. r = p + 1 /\ ip[p] + 1 = 3
      BY <2>2, <2>4, <3>2
    <3> QED BY <1>0, <2>1, <2>4, <3>3, <3>4
  <2>5. CASE ip[p] = 3
    <3>1. EWait(p, 3)
      BY <1>2, <2>2, <2>5, ParAppel
    <3>2. ip' = [ip EXCEPT ![p] = ip[p] + 1] /\ ip[p] + 1 = 4
      BY <2>5, <3>1 DEF EWait, Monte
    <3>3. /\ \/ \E r \in P!Fils(p) : etat[r] = "zombie" /\ etat' = [etat EXCEPT ![r] = "fini"]
             \/ P!Fils(p) = {} /\ UNCHANGED etat
          /\ UNCHANGED <<pere, val, trace, pos, tampon>>
      BY <3>1 DEF EWait
    <3> QED BY <1>0, <2>1, <2>5, <3>2, <3>3
  <2>6. CASE ip[p] = 4
    <3>1. EDit(p, 4)
      BY <1>2, <2>2, <2>6, ParAppel
    <3>2. ip' = [ip EXCEPT ![p] = 5] /\ trace' = Append(trace, <<p, "dit", val[p]>>) /\ UNCHANGED <<etat, pere, val, pos, tampon>>
      BY <2>6, <3>1 DEF EDit, Monte
    <3> QED BY <1>0, <2>1, <2>6, <3>2
  <2> QED BY <2>2, <2>3, <2>4, <2>5, <2>6
<1> QED BY <1>0, <1>1, <1>2

(* The chain: each process is the son of the one before; one of them at    *)
(* most has not forked yet and is not at its end.                          *)
LEMMA Maillons ==
  ASSUME Base, prog = P!ex1c
  PROVE  /\ L = N + 1 /\ N \in Nat \ {0} /\ 1 .. N + 1 \subseteq P!Pids
         /\ \A p \in 1 .. N : p \in P!Pids /\ p + 1 \in P!Pids /\ p + 1 \in 1 .. N + 1 /\ p + 1 # p /\ p \in 1 .. N + 1
         /\ \A p \in 1 .. N : ip[p] \in 1 .. 5 /\ (P!Termine(p) => ip[p] = 5)
         /\ \A p \in 1 .. N : ip[p] \in {1, 2} => etat[p + 1] = "absent"
         /\ \A p \in 1 .. N : ip[p] # 1 => etat[p] # "absent"
         /\ \A q, r \in 1 .. N + 1 : q < r /\ etat[r] # "absent" => etat[q] # "absent"
         /\ \A q \in 2 .. N + 1 : etat[q] # "absent" => pere[q] = q - 1
<1> HIDE DEF P!Pids
<1>0. L = N + 1 /\ N \in Nat \ {0} /\ 1 .. N + 1 \subseteq P!Pids
  <2>1. L = N + 1 /\ N \in Nat \ {0} /\ 1 .. L \subseteq P!Pids
    BY Nombre, Table_ex1c, Pids0 DEF Base
  <2> QED BY <2>1
<1>1. \A p \in 1 .. N : p \in P!Pids /\ p + 1 \in P!Pids /\ p + 1 \in 1 .. N + 1 /\ p + 1 # p /\ p \in 1 .. N + 1
  BY <1>0
<1>2. \A p \in 1 .. L : \A k \in 1 .. Lg(p) : Op(p, k) = "fork" => Ar(p, k) = p + 1
  <2> TAKE p \in 1 .. L
  <2>1. CASE p = N + 1
    BY <2>1, Table_ex1c
  <2>2. CASE p \in 1 .. N
    <3> SUFFICES ASSUME NEW k \in 1 .. Lg(p), Op(p, k) = "fork" PROVE Ar(p, k) = p + 1
      OBVIOUS
    <3>1. k \in 1 .. 4
      BY <2>2, Table_ex1c
    <3> QED BY <2>2, <3>1, Table_ex1c
  <2>3. p = N + 1 \/ p \in 1 .. N
    BY <1>0
  <2> QED BY <2>1, <2>2, <2>3
<1>3. ASSUME NEW p \in 1 .. N
      PROVE  /\ ip[p] \in 1 .. 5 /\ (P!Termine(p) => ip[p] = 5)
             /\ ip[p] \in {1, 2} => etat[p + 1] = "absent"
             /\ ip[p] # 1 => etat[p] # "absent"
  <2>1. p \in P!Pids /\ p \in 1 .. L /\ Lg(p) = 4 /\ Op(p, 2) = "fork" /\ Ar(p, 2) = p + 1
    BY <1>0, <1>1, Table_ex1c
  <2>2. ip[p] \in 1 .. 5
    BY <2>1 DEF Base, Places
  <2>3. P!Termine(p) => ip[p] = 5
    BY <2>1 DEF Base, Places
  <2>4. ip[p] \in {1, 2} => etat[p + 1] = "absent"
    BY <2>1 DEF Base, Places
  <2>5. ip[p] # 1 => etat[p] # "absent"
    BY <2>1 DEF Base, Places
  <2> QED BY <2>2, <2>3, <2>4, <2>5
<1>4. ASSUME NEW q \in 1 .. N + 1, NEW r \in 1 .. N + 1, q < r, etat[r] # "absent"
      PROVE  etat[q] # "absent"
  <2>1. q \in 1 .. r
    BY <1>0, <1>4
  <2> QED BY <1>0, <1>2, <1>4, <2>1, ChaineEntiere
<1>5. \A q \in 2 .. N + 1 : etat[q] # "absent" => pere[q] = q - 1
  BY <1>0, <1>2, Lignee
<1> QED BY <1>0, <1>1, <1>3, <1>4, <1>5

(* A process reads the character of its rank.                              *)
Lecture ==
    /\ \A p \in 1 .. N + 1 : etat[p] = "absent" => Len(tampon[p]) = 0
    /\ \A p \in 1 .. N :
         /\ ip[p] = 1 /\ etat[p] # "absent" =>
              \/ Len(tampon[p]) = 0 /\ pos[1] = p - 1
              \/ Len(tampon[p]) = 1 /\ tampon[p][1] = p /\ pos[1] = p
         /\ ip[p] = 2 => pos[1] = p
         /\ ip[p] \in 2 .. 4 => val[p] = p
         /\ ip[p] \in 3 .. 4 => etat[p + 1] # "absent"

(* Those that come after a process that has ended, or that has waited, have*)
(* ended.                                                                  *)
Fins ==
    /\ \A p \in 1 .. N : ip[p] >= 4 /\ etat[p + 1] # "absent" => P!Termine(p + 1)
    /\ \A q, r \in 1 .. N + 1 : q < r /\ P!Termine(q) /\ etat[r] # "absent" => P!Termine(r)

(* No character is read at first.                                        *)
LEMMA LectureInit ==
  ASSUME P!Init, prog = P!ex1c
  PROVE  Lecture /\ Fins
<1>1. N \in Nat \ {0} /\ MaxProcessus \in Nat /\ N + 1 <= MaxProcessus
  BY Nombre, MCProcessusAssumption DEF P!ProcessusAssumption
<1>2. \A q \in 1 .. N + 1 : ip[q] = 1 /\ tampon[q] = <<>> /\ (etat[q] # "absent" <=> q = 1) /\ etat[q] \in {"absent", "vif"}
  BY <1>1 DEF P!Init, P!Pids
<1>3. Len(<<>>) = 0 /\ pos[1] = 0
  BY DEF P!Init
<1>4. \A p \in 1 .. N : p \in 1 .. N + 1 /\ p + 1 \in 1 .. N + 1
  BY <1>1
<1>5. Lecture
  BY <1>2, <1>3, <1>4 DEF Lecture
<1>6. Fins
  BY <1>2, <1>4 DEF Fins, P!Termine
<1> QED BY <1>5, <1>6

(* A process reads its character before it forks the next, which reads   *)
(* the one after.                                                        *)
LEMMA LecturePas ==
  ASSUME Base, Types', prog = P!ex1c, Muets, Lecture, NEW p \in P!Pids, P!Pas(p)
  PROVE  Lecture'
<1> HIDE DEF P!Pids
<1>0. /\ L = N + 1 /\ N \in Nat \ {0} /\ 1 .. N + 1 \subseteq P!Pids
      /\ ip \in [P!Pids -> Nat \ {0}] /\ val \in [P!Pids -> Nat] /\ tampon \in [P!Pids -> Seq(Nat)]
      /\ etat \in [P!Pids -> {"absent", "vif", "zombie", "fini"}] /\ pere \in [P!Pids -> 0 .. MaxProcessus]
      /\ pos \in Nat \X Nat
  BY Maillons DEF Base, Types
<1>1. /\ \A q \in 1 .. N : q \in P!Pids /\ q + 1 \in P!Pids /\ q + 1 \in 1 .. N + 1 /\ q + 1 # q /\ q \in 1 .. N + 1
      /\ \A q \in 1 .. N : ip[q] \in {1, 2} => etat[q + 1] = "absent"
      /\ \A q \in 1 .. N : ip[q] # 1 => etat[q] # "absent"
      /\ \A q, r \in 1 .. N + 1 : q < r /\ etat[r] # "absent" => etat[q] # "absent"
      /\ \A q \in 1 .. N : ip[q] \in 1 .. 5
  BY Maillons
<1>2. /\ \A q \in 1 .. N + 1 : etat[q] = "absent" => Len(tampon[q]) = 0
      /\ \A q \in 1 .. N :
           /\ ip[q] = 1 /\ etat[q] # "absent" =>
                \/ Len(tampon[q]) = 0 /\ pos[1] = q - 1
                \/ Len(tampon[q]) = 1 /\ tampon[q][1] = q /\ pos[1] = q
           /\ ip[q] = 2 => pos[1] = q
           /\ ip[q] \in 2 .. 4 => val[q] = q
           /\ ip[q] \in 3 .. 4 => etat[q + 1] # "absent"
  BY DEF Lecture
<1>3. \A q \in P!Pids : (etat[q] # "absent" => etat'[q] # "absent") 
  BY EtatChange
<1>4. ASSUME NEW q \in 1 .. N, NEW r \in 1 .. N, etat[q] # "absent", etat[r] # "absent",
             ip[q] \in {1, 2}, ip[r] \in {1, 2}
      PROVE  q = r
  <2>1. etat[q + 1] = "absent" /\ etat[r + 1] = "absent"
    BY <1>1, <1>4
  <2>2. ~(q + 1 < r) /\ ~(r + 1 < q)
    BY <1>1, <1>4, <2>1
  <2>3. q + 1 # r /\ r + 1 # q
    BY <1>4, <2>1
  <2> QED BY <1>0, <2>2, <2>3
<1>5. ASSUME EFin(p), UNCHANGED <<ip, val, trace, pos, tampon>>
      PROVE  Lecture'
  <2>1. \A q \in P!Pids : etat'[q] = "absent" <=> etat[q] = "absent"
    BY <1>0, <1>5, Effets DEF EFin
  <2>2. /\ \A q \in 1 .. N + 1 : etat'[q] = "absent" <=> etat[q] = "absent"
        /\ \A q \in 1 .. N : q \in 1 .. N + 1 /\ q + 1 \in 1 .. N + 1
    BY <1>0, <1>1, <2>1
  <2>3. \A q \in 1 .. N : /\ ip'[q] = ip[q] /\ val'[q] = val[q] /\ pos'[1] = pos[1] /\ tampon'[q] = tampon[q]
                          /\ etat'[q] = "absent" <=> etat[q] = "absent"
                          /\ etat'[q + 1] = "absent" <=> etat[q + 1] = "absent"
    BY <1>5, <2>2
  <2>4. \A q \in 1 .. N + 1 : etat'[q] = "absent" => Len(tampon'[q]) = 0
    BY <1>2, <1>5, <2>2
  <2> QED BY <1>2, <2>3, <2>4 DEF Lecture
<1>6. ASSUME p \in 1 .. N, etat[p] = "vif", ip[p] = 1, ip' = [ip EXCEPT ![p] = 2], tampon[p] # <<>>,
             UNCHANGED <<etat, pere, trace, pos>>,
             tampon' = [tampon EXCEPT ![p] = Tail(tampon[p])], val' = [val EXCEPT ![p] = Head(tampon[p])]
      PROVE  Lecture'
  <2>1. Len(tampon[p]) = 1 /\ tampon[p][1] = p /\ pos[1] = p
    <3>1. tampon[p] \in Seq(Nat) /\ etat[p] # "absent"
      BY <1>0, <1>6
    <3>2. Len(tampon[p]) # 0
      BY <1>6, <3>1, EmptySeq
    <3> QED BY <1>2, <1>6, <3>1, <3>2
  <2>2. ip'[p] = 2 /\ val'[p] = p
    <3>1. Head(tampon[p]) = tampon[p][1]
      BY <1>0, <1>6
    <3> QED BY <1>0, <1>6, <2>1, <3>1
  <2>3. \A q \in P!Pids : q # p => ip'[q] = ip[q] /\ val'[q] = val[q] /\ tampon'[q] = tampon[q]
    BY <1>0, <1>6
  <2>4. etat[p] # "absent"
    BY <1>6
  <2> QED BY <1>1, <1>2, <1>6, <2>1, <2>2, <2>3, <2>4 DEF Lecture
<1>7. ASSUME p \in 1 .. N, etat[p] = "vif", ip[p] = 1, tampon[p] = <<>>, UNCHANGED <<ip, val, trace, etat, pere>>,
             tampon' = [tampon EXCEPT ![p] = [j \in 1 .. 1 |-> pos[1] + j]], pos' = [pos EXCEPT ![1] = pos[1] + 1]
      PROVE  Lecture'
  <2>1. pos'[1] = p /\ pos[1] = p - 1
    <3>1. Len(tampon[p]) = 0
      BY <1>7, EmptySeq
    <3>2. pos[1] = p - 1
      <4>1. etat[p] # "absent"
        BY <1>7
      <4> QED BY <1>2, <1>7, <3>1, <4>1
    <3>3. pos'[1] = pos[1] + 1
      BY <1>0, <1>7, PosChange
    <3>4. p \in Nat
      BY <1>0, <1>7
    <3> QED BY <3>2, <3>3, <3>4
  <2>2. Len(tampon'[p]) = 1 /\ tampon'[p][1] = p
    <3>1. tampon'[p] = [j \in 1 .. 1 |-> pos[1] + j]
      BY <1>0, <1>7
    <3>2. PICK t : t = tampon'[p]
      OBVIOUS
    <3>3. t[1] = pos[1] + 1 /\ DOMAIN t = 1 .. 1
      BY <3>1, <3>2
    <3>4. t \in Seq(Nat)
      BY <1>0, <1>7, <3>2 DEF Types
    <3>5. Len(t) \in Nat /\ DOMAIN t = 1 .. Len(t)
      BY <3>4
    <3>6. Len(t) = 1
      BY <3>3, <3>5
    <3>7. p \in Nat
      BY <1>0, <1>7
    <3>8. t[1] = p
      BY <2>1, <3>3, <3>7
    <3> QED BY <3>2, <3>6, <3>8
  <2>3. \A q \in P!Pids : q # p => tampon'[q] = tampon[q]
    BY <1>0, <1>7
  <2>4. \A q \in 1 .. N : q # p => ~(ip[q] = 1 /\ etat[q] # "absent") /\ ip[q] # 2
    <3> SUFFICES ASSUME NEW q \in 1 .. N, q # p, (ip[q] = 1 /\ etat[q] # "absent") \/ ip[q] = 2 PROVE FALSE
      OBVIOUS
    <3>1. etat[q] # "absent" /\ ip[q] \in {1, 2}
      BY <1>1
    <3> QED BY <1>4, <1>7, <3>1
  <2> QED BY <1>1, <1>2, <1>7, <2>1, <2>2, <2>3, <2>4 DEF Lecture
<1>8. ASSUME p \in 1 .. N, etat[p] = "vif", ip[p] = 1, ip' = [ip EXCEPT ![p] = 5], UNCHANGED <<etat, pere, val, trace, pos, tampon>>
      PROVE  Lecture'
  <2>1. ip'[p] = 5 /\ \A q \in P!Pids : q # p => ip'[q] = ip[q]
    BY <1>0, <1>8
  <2> QED BY <1>1, <1>2, <1>8, <2>1 DEF Lecture
<1>9. ASSUME p \in 1 .. N, etat[p] = "vif", ip[p] = 2, ip' = [ip EXCEPT ![p] = 3], etat[p + 1] = "absent",
             etat' = [etat EXCEPT ![p + 1] = "vif"], UNCHANGED <<val, trace, pos, tampon>>
      PROVE  Lecture'
  <2>1. ip'[p] = 3 /\ \A q \in P!Pids : q # p => ip'[q] = ip[q]
    BY <1>0, <1>9
  <2>2. PICK r : r = p + 1
    OBVIOUS
  <2>3. etat'[r] = "vif" /\ (\A q \in P!Pids : q # r => etat'[q] = etat[q]) /\ r \in P!Pids
    BY <1>0, <1>1, <1>9, <2>2
  <2>4. pos[1] = p /\ val[p] = p
    BY <1>2, <1>9
  <2>5. Len(tampon[r]) = 0 /\ p = r - 1
    <3>1. r \in 1 .. N + 1 /\ etat[r] = "absent"
      BY <1>1, <1>9, <2>2
    <3>2. Len(tampon[r]) = 0
      BY <1>2, <3>1
    <3>3. p \in Nat
      BY <1>0, <1>9
    <3> QED BY <2>2, <3>2, <3>3
  <2>6. ASSUME NEW q \in 1 .. N, ip'[q] = 1, etat'[q] # "absent"
        PROVE  \/ Len(tampon'[q]) = 0 /\ pos'[1] = q - 1
               \/ Len(tampon'[q]) = 1 /\ tampon'[q][1] = q /\ pos'[1] = q
    <3>1. CASE q = r
      BY <1>9, <2>4, <2>5, <3>1
    <3>2. CASE q # r
      BY <1>1, <1>2, <1>9, <2>1, <2>3, <2>6, <3>2
    <3> QED BY <3>1, <3>2
  <2>7. ASSUME NEW q \in 1 .. N
        PROVE  /\ ip'[q] = 2 => pos'[1] = q
               /\ ip'[q] \in 2 .. 4 => val'[q] = q
               /\ ip'[q] \in 3 .. 4 => etat'[q + 1] # "absent"
    <3>1. CASE q = p
      BY <1>9, <2>1, <2>2, <2>3, <2>4, <3>1
    <3>2. CASE q # p
      BY <1>1, <1>2, <1>3, <1>9, <2>1, <3>2
    <3> QED BY <3>1, <3>2
  <2>8. \A q \in 1 .. N + 1 : etat'[q] = "absent" => Len(tampon'[q]) = 0
    <3> TAKE q \in 1 .. N + 1
    <3>1. q \in P!Pids
      BY <1>0
    <3> QED BY <1>2, <1>3, <1>9, <3>1
  <2> QED BY <2>6, <2>7, <2>8 DEF Lecture
<1>10. ASSUME p \in 1 .. N, etat[p] = "vif", ip[p] \in {3, 4}, ip' = [ip EXCEPT ![p] = ip[p] + 1], UNCHANGED <<val, pos, tampon>>,
              \A q \in P!Pids : etat'[q] = "absent" => etat[q] = "absent"
       PROVE  Lecture'
  <2>1. ip'[p] \in {4, 5} /\ \A q \in P!Pids : q # p => ip'[q] = ip[q]
    <3>1. p \in P!Pids /\ ip'[p] = ip[p] + 1
      BY <1>0, <1>10
    <3>2. ip'[p] \in {4, 5}
      BY <1>10, <3>1
    <3>3. \A q \in P!Pids : q # p => ip'[q] = ip[q]
      BY <1>0, <1>10
    <3> QED BY <3>2, <3>3
  <2>2. ASSUME NEW q \in 1 .. N
        PROVE  /\ ip'[q] = 1 => ip[q] = 1
               /\ ip'[q] = 2 => ip[q] = 2
               /\ ip'[q] \in 2 .. 4 => ip[q] \in 2 .. 4
               /\ ip'[q] \in 3 .. 4 => ip[q] \in 3 .. 4
    BY <1>1, <1>10, <2>1
  <2>3. ASSUME NEW q \in 1 .. N, ip[q] = 1, etat'[q] # "absent" PROVE etat[q] # "absent"
    <3>1. q \in P!Pids /\ q # p
      BY <1>1, <1>10, <2>3
    <3>2. etat[q] = "absent" => etat'[q] = "absent"
      <4> SUFFICES ASSUME etat[q] = "absent", etat'[q] # "absent" PROVE FALSE
        OBVIOUS
      <4>1. ip[p] \in 1 .. Lg(p) /\ Op(p, ip[p]) = "fork"
        BY <3>1, EtatChange
      <4> QED BY <1>10, <4>1, Table_ex1c
    <3> QED BY <2>3, <3>2
  <2>4. \A q \in 1 .. N + 1 : etat'[q] = "absent" => Len(tampon'[q]) = 0
    <3> TAKE q \in 1 .. N + 1
    <3>1. q \in P!Pids
      BY <1>0
    <3> QED BY <1>2, <1>10, <3>1
  <2> QED BY <1>1, <1>2, <1>3, <1>10, <2>2, <2>3, <2>4 DEF Lecture
<1> QED
  <2>1. \A q \in P!Pids : etat'[q] = "absent" => etat[q] = "absent"
    BY <1>3
  <2>2. \/ EFin(p) /\ UNCHANGED <<ip, val, trace, pos, tampon>>
        \/ p \in 1 .. N /\ etat[p] = "vif"
    BY Pas_ex1c
  <2>3. CASE ip[p] = 3 /\ ip' = [ip EXCEPT ![p] = 4] /\ p \in 1 .. N /\ etat[p] = "vif" /\ UNCHANGED <<val, pos, tampon>>
    <3>1. ip' = [ip EXCEPT ![p] = ip[p] + 1]
      BY <2>3
    <3> QED BY <1>10, <2>1, <2>3, <3>1
  <2>4. CASE ip[p] = 4 /\ ip' = [ip EXCEPT ![p] = 5] /\ p \in 1 .. N /\ etat[p] = "vif" /\ UNCHANGED <<val, pos, tampon>>
    <3>1. ip' = [ip EXCEPT ![p] = ip[p] + 1]
      BY <2>4
    <3> QED BY <1>10, <2>1, <2>4, <3>1
  <2> QED BY <1>5, <1>6, <1>7, <1>8, <1>9, <2>3, <2>4, Pas_ex1c

(* Who is created by a step of ex1c.c.                                     *)
LEMMA Nait_ex1c ==
  ASSUME Base, prog = P!ex1c, NEW p \in P!Pids, P!Pas(p), NEW q \in P!Pids, etat[q] = "absent", etat'[q] # "absent"
  PROVE  p \in 1 .. N /\ ip[p] = 2 /\ q = p + 1 /\ etat[p] = "vif"
<1>0. L = N + 1 /\ N \in Nat \ {0} /\ p \in 1 .. L /\ etat[p] = "vif"
  BY Nombre, Effets, Table_ex1c
<1>1. ip[p] \in 1 .. Lg(p) /\ Op(p, ip[p]) = "fork" /\ Ar(p, ip[p]) = q
  BY EtatChange
<1>2. p \in 1 .. N
  <2>1. p # N + 1
    BY <1>1, Table_ex1c
  <2> QED BY <1>0, <2>1
<1>3. /\ ip[p] \in 1 .. 4 /\ Op(p, 1) = "lit" /\ Op(p, 2) = "fork" /\ Ar(p, 2) = p + 1
      /\ Op(p, 3) = "wait" /\ Op(p, 4) = "dit"
  BY <1>1, <1>2, Table_ex1c
<1>4. ip[p] = 2
  <2>1. ip[p] = 1 \/ ip[p] = 2 \/ ip[p] = 3 \/ ip[p] = 4
    BY <1>3
  <2> QED BY <1>1, <1>3, <2>1
<1> QED BY <1>0, <1>1, <1>2, <1>3, <1>4

(* A process waits for the next one, which has waited for those after    *)
(* it.                                                                   *)
LEMMA FinsPas ==
  ASSUME Base, prog = P!ex1c, Muets, Lecture, Fins, NEW p \in P!Pids, P!Pas(p)
  PROVE  Fins'
<1> HIDE DEF P!Pids
<1>0. /\ L = N + 1 /\ N \in Nat \ {0} /\ 1 .. N + 1 \subseteq P!Pids
      /\ ip \in [P!Pids -> Nat \ {0}] /\ etat \in [P!Pids -> {"absent", "vif", "zombie", "fini"}]
  BY Maillons DEF Base, Types
<1>1. /\ \A q \in 1 .. N : q \in P!Pids /\ q + 1 \in P!Pids /\ q + 1 \in 1 .. N + 1 /\ q + 1 # q /\ q \in 1 .. N + 1
      /\ \A q \in 1 .. N : ip[q] \in {1, 2} => etat[q + 1] = "absent"
      /\ \A q, r \in 1 .. N + 1 : q < r /\ etat[r] # "absent" => etat[q] # "absent"
      /\ \A q \in 2 .. N + 1 : etat[q] # "absent" => pere[q] = q - 1
      /\ \A q \in 1 .. N : ip[q] \in 1 .. 5
  BY Maillons
<1>2. /\ \A q \in 1 .. N : ip[q] >= 4 /\ etat[q + 1] # "absent" => P!Termine(q + 1)
      /\ \A q, r \in 1 .. N + 1 : q < r /\ P!Termine(q) /\ etat[r] # "absent" => P!Termine(r)
  BY DEF Fins
<1>3. \A q \in P!Pids : P!Termine(q) => P!Termine(q)'
  BY EtatChange
<1>4. ASSUME NEW q \in 1 .. N, ip[q] < 4, ip'[q] >= 4, etat[q + 1] # "absent"
      PROVE  P!Termine(q + 1)'
  <2>1. q = p /\ ip[p] = 3 /\ \/ \E r \in P!Fils(p) : etat[r] = "zombie" /\ etat' = [etat EXCEPT ![r] = "fini"]
                              \/ P!Fils(p) = {} /\ UNCHANGED etat
    <3>1. q \in P!Pids /\ ip[q] \in Nat /\ ip'[q] # ip[q]
      BY <1>0, <1>1, <1>4
    <3>2. \A v : ip' = [ip EXCEPT ![p] = v] => q = p /\ ip'[p] = v
      BY <1>0, <3>1
    <3>3. ip[p] = 1 /\ ip' = [ip EXCEPT ![p] = 5] /\ p \in 1 .. N => FALSE
      BY <1>1, <1>4, <3>2
    <3>4. ~(ip[p] = 1 /\ ip' = [ip EXCEPT ![p] = 2]) /\ ~(ip[p] = 2 /\ ip' = [ip EXCEPT ![p] = 3])
      BY <1>4, <3>2
    <3>5. ~(ip[p] = 4 /\ ip' = [ip EXCEPT ![p] = 5]) /\ ip' # ip
      BY <1>4, <3>1, <3>2
    <3> QED BY <3>2, <3>3, <3>4, <3>5, Pas_ex1c
  <2>2. PICK r : r = p + 1
    OBVIOUS
  <2>3. r \in P!Pids /\ pere[r] = p /\ etat[r] # "absent" /\ r = q + 1 /\ p \in Nat
    <3>1. p \in 1 .. N
      BY <2>1
    <3>2. r \in 2 .. N + 1 /\ r - 1 = p /\ r \in P!Pids /\ etat[r] # "absent"
      BY <1>0, <1>1, <1>4, <2>1, <2>2, <3>1
    <3> QED BY <1>0, <1>1, <2>1, <2>2, <3>1, <3>2
  <2>4. P!Termine(r)'
    <3>1. CASE P!Fils(p) = {} /\ UNCHANGED etat
      <4>1. r \notin P!Fils(p)
        BY <3>1
      <4>2. etat[r] \in {"zombie", "fini"}
        BY <1>0, <2>3, <4>1 DEF P!Fils
      <4> QED BY <3>1, <4>2 DEF P!Termine
    <3>2. CASE \E t \in P!Fils(p) : etat[t] = "zombie" /\ etat' = [etat EXCEPT ![t] = "fini"]
      <4>1. PICK t \in P!Fils(p) : etat[t] = "zombie" /\ etat' = [etat EXCEPT ![t] = "fini"]
        BY <3>2
      <4>2. t \in P!Pids /\ pere[t] = p
        BY <4>1 DEF P!Fils
      <4>3. t \in 1 .. N + 1 /\ t # 1
        <5>1. p # 0
          BY <1>0, <2>1
        <5> QED BY <1>0, <4>1, <4>2, <5>1 DEF Base, Places
      <4>4. t = r
        <5>1. t \in 2 .. N + 1 /\ etat[t] # "absent" /\ t \in Nat
          BY <1>0, <4>1, <4>3
        <5>2. pere[t] = t - 1
          BY <1>1, <5>1
        <5> QED BY <2>2, <2>3, <4>2, <5>1, <5>2
      <4> QED BY <1>0, <2>3, <4>1, <4>4 DEF P!Termine
    <3> QED BY <2>1, <3>1, <3>2
  <2> QED BY <2>3, <2>4
<1>5. ASSUME NEW q \in 1 .. N, ip'[q] >= 4, etat'[q + 1] # "absent" PROVE P!Termine(q + 1)'
  <2>1. CASE etat[q + 1] # "absent" /\ ip[q] >= 4
    BY <1>1, <1>2, <1>3, <2>1
  <2>2. CASE etat[q + 1] # "absent" /\ ip[q] < 4
    BY <1>4, <1>5, <2>2
  <2>3. CASE etat[q + 1] = "absent"
    <3>1. p \in 1 .. N /\ ip[p] = 2 /\ q + 1 = p + 1
      BY <1>1, <1>5, <2>3, Nait_ex1c
    <3>2. q = p
      BY <1>0, <3>1
    <3>3. ip' = [ip EXCEPT ![p] = 3] \/ ip' = ip
      BY <3>1, Pas_ex1c
    <3>4. p \in P!Pids
      OBVIOUS
    <3>5. ip'[p] \in {2, 3}
      BY <1>0, <3>1, <3>3, <3>4
    <3> QED BY <1>5, <3>2, <3>5
  <2>4. q \in P!Pids /\ ip[q] \in Nat
    BY <1>0, <1>1
  <2> QED BY <2>1, <2>2, <2>3, <2>4
<1>6. ASSUME NEW q \in 1 .. N + 1, NEW r \in 1 .. N + 1, q < r, P!Termine(q)', etat'[r] # "absent"
      PROVE  P!Termine(r)'
  <2>0. q \in P!Pids /\ r \in P!Pids /\ q \in 1 .. N /\ r \in Nat /\ q \in Nat
    BY <1>0, <1>6
  <2>1. CASE P!Termine(q) /\ etat[r] # "absent"
    BY <1>2, <1>3, <1>6, <2>0, <2>1
  <2>2. CASE P!Termine(q) /\ etat[r] = "absent"
    <3>1. p \in 1 .. N /\ r = p + 1 /\ etat[p] = "vif"
      BY <1>6, <2>0, <2>2, Nait_ex1c
    <3>2. p \in 1 .. N + 1 /\ (q = p \/ q < p)
      BY <1>0, <1>6, <2>0, <3>1
    <3>3. P!Termine(p)
      BY <1>2, <2>2, <3>1, <3>2
    <3> QED BY <3>1, <3>3 DEF P!Termine
  <2>3. CASE ~P!Termine(q)
    <3>1. etat[q] # "absent"
      <4> SUFFICES ASSUME etat[q] = "absent" PROVE FALSE
        OBVIOUS
      <4>1. etat'[q] = "absent" \/ etat'[q] = "vif"
        BY <2>0, EtatChange
      <4> QED BY <1>6, <4>1 DEF P!Termine
    <3>2. etat[q] = "vif"
      BY <1>0, <2>0, <2>3, <3>1 DEF P!Termine
    <3>3. q = p /\ EFin(p)
      <4>1. etat'[q] # "vif"
        BY <1>6 DEF P!Termine
      <4> QED BY <2>0, <3>2, <4>1, EtatChange
    <3>4. ip[q] = 5
      <4>1. Lg(q) = 4
        BY <2>0, Table_ex1c
      <4> QED BY <3>3, <4>1 DEF EFin
    <3>5. etat[r] # "absent"
      <4> SUFFICES ASSUME etat[r] = "absent" PROVE FALSE
        OBVIOUS
      <4>1. ip[p] = 2
        BY <1>6, <2>0, Nait_ex1c
      <4> QED BY <3>3, <3>4, <4>1
    <3>6. q + 1 \in 1 .. N + 1 /\ (q + 1 < r \/ q + 1 = r)
      BY <1>1, <1>6, <2>0
    <3>7. P!Termine(q + 1)
      <4>1. etat[q + 1] # "absent"
        BY <1>1, <3>5, <3>6
      <4> QED BY <1>2, <2>0, <3>4, <4>1
    <3>8. P!Termine(r)
      BY <1>2, <3>5, <3>6, <3>7
    <3> QED BY <1>3, <2>0, <3>8
  <2> QED BY <2>1, <2>2, <2>3
<1> QED BY <1>5, <1>6 DEF Fins

(* ex1c.c: the processes display from the last to the first, each its      *)
(* rank; when the whole chain was created, none is missing.                *)
Rangees ==
    /\ \A h \in 1 .. Len(trace) : /\ trace[h][3] \in 1 .. N /\ ip[trace[h][3]] = 5
                                  /\ etat[trace[h][3] + 1] # "absent"
    /\ \A h, j \in 1 .. Len(trace) : h < j => trace[h][3] > trace[j][3]
    /\ etat[N + 1] # "absent" =>
         /\ \A h \in 1 .. Len(trace) : trace[h][3] = N + 1 - h
         /\ \A p \in 1 .. N : ip[p] = 5 => Len(trace) >= N + 1 - p

(* Nothing is displayed at first.                                        *)
LEMMA RangeesInit == P!Init => Rangees
<1> SUFFICES ASSUME P!Init PROVE Rangees
  OBVIOUS
<1>1. N \in Nat \ {0} /\ MaxProcessus \in Nat /\ N + 1 <= MaxProcessus
  BY Nombre, MCProcessusAssumption DEF P!ProcessusAssumption
<1>2. \A q \in 1 .. N + 1 : ip[q] = 1 /\ (etat[q] # "absent" <=> q = 1)
  BY <1>1 DEF P!Init, P!Pids
<1>3. Len(trace) = 0
  BY EmptySeq DEF P!Init
<1>4. N + 1 \in 1 .. N + 1 /\ N + 1 # 1
  BY <1>1
<1>5. etat[N + 1] = "absent"
  BY <1>2, <1>4
<1> QED BY <1>3, <1>5 DEF Rangees

(* Who has displayed comes after who has not ended.                        *)
LEMMA Suivent ==
  ASSUME Base, prog = P!ex1c, Fins, Rangees, NEW p \in 1 .. N, etat[p] = "vif", ip[p] # 5,
         NEW x \in 1 .. N, ip[x] = 5, etat[x + 1] # "absent"
  PROVE  x > p
<1>0. N \in Nat \ {0} /\ p \in Nat /\ x \in Nat /\ p \in 1 .. N + 1 /\ x + 1 \in 1 .. N + 1
  BY Nombre
<1>1. P!Termine(x + 1)
  BY DEF Fins
<1>2. x + 1 < p => P!Termine(p)
  BY <1>0, <1>1 DEF Fins
<1>3. ~P!Termine(p)
  BY DEF P!Termine
<1>4. x + 1 # p
  BY <1>1, <1>3
<1>5. x # p
  OBVIOUS
<1> QED BY <1>0, <1>2, <1>3, <1>4, <1>5

(* A process displays after the one it waits for.                        *)
LEMMA RangeesPas ==
  ASSUME Base, prog = P!ex1c, Muets, Lecture, Fins, Rangees, NEW p \in P!Pids, P!Pas(p)
  PROVE  Rangees'
<1> HIDE DEF P!Pids
<1>0. /\ L = N + 1 /\ N \in Nat \ {0} /\ 1 .. N + 1 \subseteq P!Pids /\ N + 1 \in P!Pids /\ Len(trace) \in Nat
      /\ ip \in [P!Pids -> Nat \ {0}] /\ etat \in [P!Pids -> {"absent", "vif", "zombie", "fini"}]
  <2>1. L = N + 1 /\ N \in Nat \ {0} /\ 1 .. N + 1 \subseteq P!Pids
    BY Maillons
  <2>2. N + 1 \in P!Pids
    BY <2>1
  <2>3. Len(trace) \in Nat
    BY DEF Base, Types
  <2> QED BY <2>1, <2>2, <2>3 DEF Base, Types
<1>1. /\ \A q \in 1 .. N : q \in P!Pids /\ q + 1 \in P!Pids /\ q + 1 \in 1 .. N + 1 /\ q + 1 # q /\ q \in 1 .. N + 1
      /\ \A q, r \in 1 .. N + 1 : q < r /\ etat[r] # "absent" => etat[q] # "absent"
      /\ \A q \in 1 .. N : ip[q] \in {1, 2} => etat[q + 1] = "absent"
      /\ \A q \in 1 .. N : P!Termine(q) => ip[q] = 5
      /\ \A q \in 1 .. N : ip[q] \in 1 .. 5
  BY Maillons
<1>2. /\ \A h \in 1 .. Len(trace) : /\ trace[h][3] \in 1 .. N /\ ip[trace[h][3]] = 5
                                    /\ etat[trace[h][3] + 1] # "absent"
      /\ \A h, j \in 1 .. Len(trace) : h < j => trace[h][3] > trace[j][3]
      /\ etat[N + 1] # "absent" =>
           /\ \A h \in 1 .. Len(trace) : trace[h][3] = N + 1 - h
           /\ \A q \in 1 .. N : ip[q] = 5 => Len(trace) >= N + 1 - q
  BY DEF Rangees
<1>3. \A q \in P!Pids : etat[q] # "absent" => etat'[q] # "absent"
  BY EtatChange
<1>4. \A q \in 1 .. N : ip[q] = 5 => ip'[q] = 5
  <2> TAKE q \in 1 .. N
  <2>1. q \in P!Pids
    BY <1>1
  <2>2. \A v : ip' = [ip EXCEPT ![p] = v] /\ q # p => ip'[q] = ip[q]
    BY <1>0, <2>1
  <2>3. ip[p] = 5 => ip' = ip
    BY Pas_ex1c
  <2>4. ip' = ip \/ \E v : ip' = [ip EXCEPT ![p] = v]
    BY Pas_ex1c
  <2> QED BY <2>2, <2>3, <2>4
<1>5. CASE UNCHANGED trace
  <2>1. ASSUME NEW h \in 1 .. Len(trace), NEW x, x = trace[h][3]
        PROVE  x \in 1 .. N /\ ip'[x] = 5 /\ etat'[x + 1] # "absent"
    <3>1. x \in 1 .. N /\ ip[x] = 5 /\ etat[x + 1] # "absent"
      BY <1>2, <2>1
    <3> QED BY <1>1, <1>3, <1>4, <3>1
  <2>2. ASSUME etat[N + 1] # "absent", NEW q \in 1 .. N, ip'[q] = 5, ip[q] # 5
        PROVE  FALSE
    <3>1. q \in P!Pids /\ ip' # ip
      BY <1>1, <2>2
    <3>2. \A v : ip' = [ip EXCEPT ![p] = v] => q = p /\ ip'[p] = v
      BY <1>0, <2>2, <3>1
    <3>3. ip[p] = 4 => trace' # trace
      <4> SUFFICES ASSUME ip[p] = 4 PROVE trace' # trace
        OBVIOUS
      <4>1. trace' = Append(trace, <<p, "dit", val[p]>>)
        BY <3>1, Pas_ex1c
      <4>2. Len(trace') = Len(trace) + 1
        BY <4>1, Allonge
      <4> QED BY <1>0, <4>2
    <3>4. ip[p] = 1 /\ q = p
      <4>1. ~(ip[p] = 1 /\ ip' = [ip EXCEPT ![p] = 2]) /\ ~(ip[p] = 2 /\ ip' = [ip EXCEPT ![p] = 3])
        BY <2>2, <3>2
      <4>2. ~(ip[p] = 3 /\ ip' = [ip EXCEPT ![p] = 4])
        BY <2>2, <3>2
      <4>3. ip[p] # 4 /\ ip' # ip
        BY <1>5, <3>1, <3>3
      <4>4. ip[p] = 1 /\ ip' = [ip EXCEPT ![p] = 5]
        BY <4>1, <4>2, <4>3, Pas_ex1c
      <4> QED BY <3>2, <4>4
    <3>5. etat[q + 1] = "absent" /\ q + 1 \in 1 .. N + 1 /\ N + 1 \in 1 .. N + 1
      BY <1>0, <1>1, <3>4
    <3>6. q + 1 < N + 1 \/ q + 1 = N + 1
      BY <1>0
    <3> QED BY <1>1, <2>2, <3>5, <3>6
  <2>3. ASSUME etat[N + 1] = "absent", etat'[N + 1] # "absent"
        PROVE  Len(trace) = 0 /\ \A q \in 1 .. N : ip'[q] # 5
    <3>1. p \in 1 .. N /\ ip[p] = 2 /\ N + 1 = p + 1 /\ etat[p] = "vif"
      BY <1>0, <2>3, Nait_ex1c
    <3>2. p = N
      BY <1>0, <3>1
    <3>3. \A x \in 1 .. N : ip[x] = 5 /\ etat[x + 1] # "absent" => x > p
      BY <3>1, Suivent
    <3>4. \A x \in 1 .. N : ~(ip[x] = 5 /\ etat[x + 1] # "absent")
      BY <1>0, <3>2, <3>3
    <3>5. Len(trace) = 0
      <4> SUFFICES ASSUME Len(trace) # 0 PROVE FALSE
        OBVIOUS
      <4>1. 1 \in 1 .. Len(trace)
        BY <1>0
      <4>2. PICK x : x = trace[1][3]
        OBVIOUS
      <4>3. x \in 1 .. N /\ ip[x] = 5 /\ etat[x + 1] # "absent"
        BY <1>2, <4>1, <4>2
      <4> QED BY <3>4, <4>3
    <3>6. ASSUME NEW q \in 1 .. N, ip[q] = 5 PROVE FALSE
      <4>1. q # p
        BY <3>1, <3>6
      <4>2. q + 1 \in 1 .. N + 1 /\ p \in 1 .. N + 1 /\ (q + 1 < p \/ q + 1 = p)
        BY <1>0, <1>1, <3>2, <4>1
      <4>3. etat[q + 1] # "absent"
        BY <1>1, <3>1, <4>2
      <4> QED BY <3>4, <3>6, <4>3
    <3>7. \A q \in 1 .. N : ip'[q] # 5
      <4> TAKE q \in 1 .. N
      <4>1. ip[q] # 5 /\ q \in P!Pids
        BY <1>1, <3>6
      <4>2. ip' = ip \/ ip' = [ip EXCEPT ![p] = 3]
        BY <3>1, Pas_ex1c
      <4>3. ip'[q] = ip[q] \/ ip'[q] = 3
        BY <1>0, <4>1, <4>2
      <4> QED BY <4>1, <4>3
    <3> QED BY <3>5, <3>7
  <2>4. \A h \in 1 .. Len(trace) : /\ trace[h][3] \in 1 .. N /\ ip'[trace[h][3]] = 5
                                   /\ etat'[trace[h][3] + 1] # "absent"
    BY <2>1
  <2>5. etat'[N + 1] # "absent" =>
           /\ \A h \in 1 .. Len(trace) : trace[h][3] = N + 1 - h
           /\ \A q \in 1 .. N : ip'[q] = 5 => Len(trace) >= N + 1 - q
    <3>1. CASE etat[N + 1] # "absent"
      BY <1>2, <2>2, <3>1
    <3>2. CASE etat[N + 1] = "absent"
      BY <2>3, <3>2
    <3> QED BY <3>1, <3>2
  <2> QED BY <1>2, <1>5, <2>4, <2>5 DEF Rangees
<1>6. CASE /\ p \in 1 .. N /\ etat[p] = "vif" /\ ip[p] = 4 /\ ip' = [ip EXCEPT ![p] = 5]
           /\ trace' = Append(trace, <<p, "dit", val[p]>>) /\ UNCHANGED etat
  <2>1. val[p] = p /\ etat[p + 1] # "absent" /\ p \in P!Pids /\ p \in Nat /\ p >= 1 /\ p <= N
    <3>1. p \in Nat /\ p >= 1 /\ p <= N
      BY <1>0, <1>6
    <3>2. ip[p] \in 2 .. 4 /\ ip[p] \in 3 .. 4
      BY <1>6
    <3> QED BY <1>6, <3>1, <3>2 DEF Lecture
  <2>2. ip'[p] = 5 /\ \A q \in P!Pids : q # p => ip'[q] = ip[q]
    BY <1>0, <1>6, <2>1
  <2>3. PICK m0 \in Nat : m0 = Len(trace)
    BY <1>0
  <2>4. /\ Len(trace') = m0 + 1 /\ (\A h \in 1 .. m0 : trace'[h] = trace[h]) /\ trace'[m0 + 1][3] = p
    BY <1>6, <2>1, <2>3, Allonge
  <2>5. \A h \in 1 .. m0 : trace[h][3] \in 1 .. N /\ trace[h][3] > p
    <3> SUFFICES ASSUME NEW h \in 1 .. m0, NEW x, x = trace[h][3] PROVE x \in 1 .. N /\ x > p
      OBVIOUS
    <3>1. x \in 1 .. N /\ ip[x] = 5 /\ etat[x + 1] # "absent"
      BY <1>2, <2>3
    <3>2. ip[p] # 5
      BY <1>6
    <3> QED BY <1>6, <3>1, <3>2, Suivent
  <2>6. ASSUME etat[N + 1] # "absent" PROVE m0 = N - p
    <3>1. m0 > 0 => m0 <= N - p
      <4> SUFFICES ASSUME m0 > 0 PROVE m0 <= N - p
        OBVIOUS
      <4>1. m0 \in 1 .. m0
        BY <2>3
      <4>2. trace[m0][3] = N + 1 - m0 /\ trace[m0][3] > p
        BY <1>2, <2>3, <2>5, <2>6, <4>1
      <4>3. N + 1 - m0 > p
        BY <4>2
      <4> QED BY <1>0, <2>1, <2>3, <4>3
    <3>2. p < N => m0 >= N - p
      <4> SUFFICES ASSUME p < N PROVE m0 >= N - p
        OBVIOUS
      <4>1. PICK r : r = p + 1
        OBVIOUS
      <4>2. r \in 1 .. N /\ r \in Nat
        BY <1>0, <2>1, <4>1
      <4>3. P!Termine(r)
        <5>1. ip[p] >= 4
          BY <1>6
        <5>2. P!Termine(p + 1)
          BY <1>6, <2>1, <5>1 DEF Fins
        <5> QED BY <4>1, <5>2
      <4>4. ip[r] = 5
        BY <1>1, <4>2, <4>3
      <4>5. m0 >= N + 1 - r
        BY <1>2, <2>3, <2>6, <4>2, <4>4
      <4>6. p \in Nat /\ N \in Nat /\ m0 \in Nat /\ m0 >= N + 1 - (p + 1)
        BY <1>0, <2>1, <2>3, <4>1, <4>5
      <4> QED BY <4>6
    <3>3. p \in Nat /\ N \in Nat /\ m0 \in Nat /\ p <= N
      BY <1>0, <2>1, <2>3
    <3> QED BY <3>1, <3>2, <3>3
  <2>7. ASSUME NEW h \in 1 .. Len(trace'), NEW x, x = trace'[h][3]
        PROVE  /\ x \in 1 .. N /\ ip'[x] = 5 /\ etat'[x + 1] # "absent"
               /\ etat[N + 1] # "absent" => x = N + 1 - h
    <3>1. CASE h = m0 + 1
      <4>1. x = p
        BY <2>4, <2>7, <3>1
      <4>2. etat[N + 1] # "absent" => p = N + 1 - h
        <5> SUFFICES ASSUME etat[N + 1] # "absent" PROVE p = N + 1 - h
          OBVIOUS
        <5>1. m0 = N - p
          BY <2>6
        <5>2. p \in Nat /\ N \in Nat /\ h = (N - p) + 1
          BY <1>0, <2>1, <3>1, <5>1
        <5> QED BY <5>2
      <4> QED BY <1>6, <2>1, <2>2, <4>1, <4>2
    <3>2. CASE h \in 1 .. m0
      <4>1. x = trace[h][3]
        BY <2>4, <2>7, <3>2
      <4>2. x \in 1 .. N /\ ip[x] = 5 /\ etat[x + 1] # "absent" /\ (etat[N + 1] # "absent" => x = N + 1 - h)
        BY <1>2, <2>3, <3>2, <4>1
      <4> QED BY <1>3, <1>4, <1>1, <4>2
    <3>3. h = m0 + 1 \/ h \in 1 .. m0
      BY <2>3, <2>4
    <3> QED BY <3>1, <3>2, <3>3
  <2>8. ASSUME NEW h \in 1 .. Len(trace'), NEW j \in 1 .. Len(trace'), h < j PROVE trace'[h][3] > trace'[j][3]
    <3>1. h \in 1 .. m0 /\ (j = m0 + 1 \/ j \in 1 .. m0)
      BY <2>3, <2>4, <2>8
    <3>2. trace'[h][3] = trace[h][3]
      BY <2>4, <3>1
    <3>3. CASE j = m0 + 1
      <4>1. trace'[j][3] = p
        BY <2>4, <3>3
      <4> QED BY <2>5, <3>1, <3>2, <4>1
    <3>4. CASE j \in 1 .. m0
      <4>1. trace'[j][3] = trace[j][3]
        BY <2>4, <3>4
      <4> QED BY <1>2, <2>3, <2>8, <3>1, <3>2, <3>4, <4>1
    <3> QED BY <3>1, <3>3, <3>4
  <2>9. ASSUME etat'[N + 1] # "absent", NEW q \in 1 .. N, ip'[q] = 5 PROVE Len(trace') >= N + 1 - q
    <3>0. etat[N + 1] # "absent" /\ q \in P!Pids /\ q \in Nat
      BY <1>0, <1>1, <1>6, <2>9
    <3>1. CASE q = p
      BY <1>0, <2>1, <2>3, <2>4, <2>6, <3>0, <3>1
    <3>2. CASE q # p
      <4>1. ip[q] = 5
        BY <2>2, <2>9, <3>0, <3>2
      <4>2. m0 >= N + 1 - q
        BY <1>2, <2>3, <3>0, <4>1
      <4> QED BY <1>0, <2>3, <2>4, <3>0, <4>2
    <3> QED BY <3>1, <3>2
  <2>10. \A h \in 1 .. Len(trace') : /\ trace'[h][3] \in 1 .. N /\ ip'[trace'[h][3]] = 5
                                     /\ etat'[trace'[h][3] + 1] # "absent"
                                     /\ etat'[N + 1] # "absent" => trace'[h][3] = N + 1 - h
    BY <1>6, <2>7
  <2> QED BY <2>8, <2>9, <2>10 DEF Rangees
<1> QED BY <1>5, <1>6, Pas_ex1c

(* ex1c.c displays each character once, in the reverse order.            *)
LEMMA Caracteres_ex1c ==
  ASSUME Base, prog = P!ex1c, Rangees
  PROVE  P!ChaqueCaractere
<1>0. /\ N \in Nat \ {0} /\ ~P!Nom({"ex1"}) /\ P!Nom({"ex1c"}) /\ L = N + 1 /\ Len(trace) \in Nat
  <2>1. N \in Nat \ {0} /\ L = N + 1 /\ prog.nom = "ex1c"
    BY Nombre, Table_ex1c
  <2>2. Len(trace) \in Nat
    BY DEF Base, Types
  <2> QED BY <2>1, <2>2 DEF P!Nom
<1>1. \A j, k \in 1 .. Len(trace) : j < k => trace[j][3] > trace[k][3]
  BY DEF Rangees
<1>2. ASSUME \A q \in P!Crees : P!Termine(q) PROVE Len(trace) = N
  <2>1. P!Termine(1) /\ P!Termine(N + 1)
    BY <1>0, <1>2 DEF P!Crees, L
  <2>2. etat[N + 1] # "absent" /\ ip[1] = 5 /\ 1 \in 1 .. N
    <3>1. 1 \in 1 .. N
      BY <1>0
    <3> QED BY <2>1, <3>1, Maillons DEF P!Termine
  <2>3. Len(trace) >= N
    <3>1. Len(trace) >= N + 1 - 1
      BY <2>2 DEF Rangees
    <3> QED BY <1>0, <3>1
  <2>4. PICK m0 \in Nat : m0 = Len(trace)
    BY <1>0
  <2>5. m0 \in 1 .. Len(trace)
    BY <1>0, <2>3, <2>4
  <2>6. N + 1 - m0 \in 1 .. N
    BY <2>2, <2>5 DEF Rangees
  <2> QED BY <1>0, <2>3, <2>4, <2>6
<1> QED BY <1>0, <1>1, <1>2 DEF P!ChaqueCaractere

(* diff_C_POSIX.c: what each step does, in both programs.                  *)
LEMMA Pas_lecteurs ==
  ASSUME Base, prog = P!posix \/ prog = P!libc, Muets, NEW p \in P!Pids, P!Pas(p)
  PROVE  \/ UNCHANGED <<val, trace, pos, tampon>> /\ \A q \in 2 .. 4 : ip'[q] = ip[q]
         \/ /\ p \in 2 .. 4
            /\ \/ /\ ip[p] = 1 /\ ip' = [ip EXCEPT ![p] = 2] /\ tampon[p] # <<>> /\ UNCHANGED <<trace, pos>>
                  /\ tampon' = [tampon EXCEPT ![p] = Tail(tampon[p])] /\ val' = [val EXCEPT ![p] = Head(tampon[p])]
               \/ /\ ip[p] = 1 /\ tampon[p] = <<>> /\ UNCHANGED <<ip, val, trace>>
                  /\ \E d \in Nat \ {0} : /\ pos[1] + d <= Longueur /\ pos' = [pos EXCEPT ![1] = pos[1] + d]
                                          /\ tampon' = [tampon EXCEPT ![p] = [j \in 1 .. d |-> pos[1] + j]]
               \/ /\ ip[p] = 1 /\ ip' = [ip EXCEPT ![p] = 4] /\ tampon[p] = <<>> /\ pos[1] >= Longueur
                  /\ UNCHANGED <<val, trace, pos, tampon>>
               \/ /\ ip[p] = 2 /\ ip' = [ip EXCEPT ![p] = 3] /\ trace' = Append(trace, <<p, "dit", val[p]>>)
                  /\ UNCHANGED <<val, pos, tampon>>
               \/ /\ ip[p] = 3 /\ ip' = [ip EXCEPT ![p] = 1] /\ UNCHANGED <<val, trace, pos, tampon>>
<1> HIDE DEF P!Pids
<1>0. /\ L = 4 /\ p \in 1 .. L /\ (EFin(p) \/ (ip[p] \in 1 .. Lg(p) /\ Effet(p, ip[p])))
      /\ 1 \in P!Pids /\ 2 .. 4 \subseteq P!Pids /\ ip \in [P!Pids -> Nat \ {0}]
  <2>1. EDehors(p) => FALSE
    BY DEF EDehors, Muets
  <2>2. L = 4
    BY Table_posix, Table_libc
  <2>3. 1 .. 4 \subseteq P!Pids
    BY <2>2, Pids0 DEF Base
  <2>4. 1 \in P!Pids /\ 2 .. 4 \subseteq P!Pids
    BY <2>3
  <2>5. ip \in [P!Pids -> Nat \ {0}]
    BY DEF Base, Types
  <2> QED BY <2>1, <2>2, <2>4, <2>5, Effets
<1>1. CASE EFin(p)
  BY <1>1 DEF EFin
<1>2. CASE ip[p] \in 1 .. Lg(p) /\ Effet(p, ip[p]) /\ p = 1
  <2>1. Lg(1) = 3 /\ Op(1, 1) = "fork" /\ Op(1, 2) = "fork" /\ Op(1, 3) = "fork"
    BY Table_posix, Table_libc
  <2>2. ip[1] = 1 \/ ip[1] = 2 \/ ip[1] = 3
    BY <1>2, <2>1
  <2>3. EFork(1, ip[1])
    BY <1>2, <2>1, <2>2, ParAppel
  <2>4. ip' = [ip EXCEPT ![1] = ip[1] + 1] /\ UNCHANGED <<val, trace, pos, tampon>>
    BY <2>3 DEF EFork, Monte
  <2>5. \A q \in 2 .. 4 : q \in P!Pids /\ q # 1
    BY <1>0
  <2> QED BY <1>0, <2>4, <2>5
<1>3. CASE ip[p] \in 1 .. Lg(p) /\ Effet(p, ip[p]) /\ p \in 2 .. 4
  <2>1. Lg(p) = 3 /\ Op(p, 1) = "lit" /\ Ar(p, 1) \in {1, 9} /\ Op(p, 2) = "dit" /\ Op(p, 3) = "retour"
    <3>1. p = 2 \/ p = 3 \/ p = 4
      BY <1>3
    <3> QED BY <3>1, Table_posix, Table_libc
  <2>2. ip[p] = 1 \/ ip[p] = 2 \/ ip[p] = 3
    BY <1>3, <2>1
  <2>3. CASE ip[p] = 1
    <3>1. ELit(p, 1)
      BY <1>3, <2>1, <2>3, ParAppel
    <3>2. CASE /\ tampon[p] # <<>> /\ val' = [val EXCEPT ![p] = Head(tampon[p])]
               /\ tampon' = [tampon EXCEPT ![p] = Tail(@)] /\ Monte(p) /\ UNCHANGED pos
      <4>1. ip' = [ip EXCEPT ![p] = 2]
        BY <2>3, <3>2 DEF Monte
      <4> QED BY <1>3, <2>3, <3>1, <3>2, <4>1 DEF ELit
    <3>3. CASE /\ tampon[p] = <<>> /\ pos[1] < Longueur
               /\ \E d \in 1 .. Ar(p, 1) :
                    /\ pos[1] + d <= Longueur
                    /\ tampon' = [tampon EXCEPT ![p] = [j \in 1 .. d |-> pos[1] + j]]
                    /\ pos' = [pos EXCEPT ![1] = @ + d]
               /\ UNCHANGED <<ip, val>>
      <4>1. PICK d \in 1 .. Ar(p, 1) : /\ tampon' = [tampon EXCEPT ![p] = [j \in 1 .. d |-> pos[1] + j]]
                                       /\ pos' = [pos EXCEPT ![1] = pos[1] + d] /\ pos[1] + d <= Longueur
        BY <3>3
      <4>2. d \in Nat \ {0}
        BY <2>1
      <4> QED BY <1>3, <2>3, <3>1, <3>3, <4>1, <4>2 DEF ELit
    <3>4. CASE tampon[p] = <<>> /\ pos[1] >= Longueur /\ ip' = [ip EXCEPT ![p] = Lg(p) + 1] /\ UNCHANGED <<val, tampon, pos>>
      <4>1. ip' = [ip EXCEPT ![p] = 4]
        BY <2>1, <3>4
      <4> QED BY <1>3, <2>3, <3>1, <3>4, <4>1 DEF ELit
    <3> QED BY <3>1, <3>2, <3>3, <3>4 DEF ELit
  <2>4. CASE ip[p] = 2
    <3>1. EDit(p, 2)
      BY <1>3, <2>1, <2>4, ParAppel
    <3>2. ip' = [ip EXCEPT ![p] = 3] /\ trace' = Append(trace, <<p, "dit", val[p]>>) /\ UNCHANGED <<val, pos, tampon>>
      BY <2>4, <3>1 DEF EDit, Monte
    <3> QED BY <1>3, <2>4, <3>2
  <2>5. CASE ip[p] = 3
    <3>1. ERetour(p, 3)
      BY <1>3, <2>1, <2>5, ParAppel
    <3>2. ip' = [ip EXCEPT ![p] = 1] /\ UNCHANGED <<val, trace, pos, tampon>>
      BY <3>1 DEF ERetour, Rien
    <3> QED BY <1>3, <2>5, <3>2
  <2> QED BY <2>2, <2>3, <2>4, <2>5
<1>4. p = 1 \/ p \in 2 .. 4
  BY <1>0
<1> QED BY <1>0, <1>1, <1>2, <1>3, <1>4

(* Where a character that was read is: displayed, read by p, or in the     *)
(* buffer of p.                                                            *)
Lieu(k, p, h, c) ==
    \/ k = "affiche" /\ p = 0 /\ h \in 1 .. Len(trace) /\ trace[h][3] = c
    \/ k = "lu" /\ p \in 2 .. 4 /\ h = 0 /\ ip[p] = 2 /\ val[p] = c
    \/ k = "tampon" /\ p \in 2 .. 4 /\ h \in 1 .. Len(tampon[p]) /\ tampon[p][h] = c

(* Each character that was read is in one place.                           *)
Repartis ==
    /\ pos[1] <= Longueur
    /\ \A k, p, h, c : Lieu(k, p, h, c) => c \in 1 .. pos[1]
    /\ \A k, p, h, c, l, q, j : Lieu(k, p, h, c) /\ Lieu(l, q, j, c) => k = l /\ p = q /\ h = j
    /\ \A c \in 1 .. pos[1] : \E k, p, h : Lieu(k, p, h, c)
    /\ \A p \in 2 .. 4 : ip[p] = 4 => tampon[p] = <<>> /\ pos[1] = Longueur

(* The places may move, if none is shared and none is lost.                *)
LEMMA Deplaces ==
  ASSUME Repartis, UNCHANGED pos,
         \A k, p, h, c : Lieu(k, p, h, c)' => \E l, q, j : Lieu(l, q, j, c),
         \A k, p, h, c, l, q, j : Lieu(k, p, h, c)' /\ Lieu(l, q, j, c)' => k = l /\ p = q /\ h = j,
         \A k, p, h, c : Lieu(k, p, h, c) => \E l, q, j : Lieu(l, q, j, c)',
         \A p \in 2 .. 4 : ip'[p] = 4 => tampon'[p] = <<>> /\ pos[1] = Longueur
  PROVE  Repartis'
<1>1. \A k, p, h, c : Lieu(k, p, h, c)' => c \in 1 .. pos'[1]
  BY DEF Repartis
<1>2. \A c \in 1 .. pos'[1] : \E k, p, h : Lieu(k, p, h, c)'
  BY DEF Repartis
<1> QED BY <1>1, <1>2 DEF Repartis

(* No character is read at first.                                        *)
LEMMA RepartisInit == P!Init => Repartis
<1> SUFFICES ASSUME P!Init PROVE Repartis
  OBVIOUS
<1>1. Longueur \in Nat /\ pos[1] = 0 /\ trace = <<>> /\ \A p \in 2 .. 4 : ip[p] = 1 /\ tampon[p] = <<>>
  BY MCProcessusAssumption DEF P!ProcessusAssumption, P!Init, P!Pids
<1>2. ASSUME NEW k, NEW p, NEW h, NEW c, Lieu(k, p, h, c) PROVE FALSE
  <2>1. Len(<<>>) = 0
    OBVIOUS
  <2>2. h \notin 1 .. 0
    OBVIOUS
  <2> QED BY <1>1, <1>2, <2>1, <2>2 DEF Lieu
<1> QED BY <1>1, <1>2 DEF Repartis

(* The typed facts that the steps of diff_C_POSIX.c need.                  *)
LEMMA LecteursTypes ==
  ASSUME Base, prog = P!posix \/ prog = P!libc
  PROVE  /\ 2 .. 4 \subseteq P!Pids /\ ip \in [P!Pids -> Nat \ {0}] /\ val \in [P!Pids -> Nat]
         /\ tampon \in [P!Pids -> Seq(Nat)] /\ pos \in Nat \X Nat /\ pos[1] \in Nat /\ Longueur \in Nat
         /\ Len(trace) \in Nat
<1> HIDE DEF P!Pids
<1>1. 1 .. 4 \subseteq P!Pids
  <2>1. L = 4
    BY Table_posix, Table_libc
  <2> QED BY <2>1, Pids0 DEF Base
<1>2. 2 .. 4 \subseteq P!Pids
  BY <1>1
<1>3. Longueur \in Nat
  BY MCProcessusAssumption DEF P!ProcessusAssumption
<1>4. pos \in Nat \X Nat
  BY DEF Base, Types
<1>5. pos[1] \in Nat
  <2>1. PICK a \in Nat, b \in Nat : pos = <<a, b>>
    BY <1>4
  <2>2. pos[1] = a
    BY <2>1
  <2> QED BY <2>2
<1>6. Len(trace) \in Nat
  BY DEF Base, Types
<1>7. ip \in [P!Pids -> Nat \ {0}] /\ val \in [P!Pids -> Nat] /\ tampon \in [P!Pids -> Seq(Nat)]
  BY DEF Base, Types
<1> QED BY <1>2, <1>3, <1>4, <1>5, <1>6, <1>7

(* The character at the head of the buffer becomes the one that was read.  *)
LEMMA RepartisLit ==
  ASSUME Base, prog = P!posix \/ prog = P!libc, Repartis, NEW p \in 2 .. 4,
         ip[p] = 1, ip' = [ip EXCEPT ![p] = 2], tampon[p] # <<>>, UNCHANGED <<trace, pos>>,
         tampon' = [tampon EXCEPT ![p] = Tail(tampon[p])], val' = [val EXCEPT ![p] = Head(tampon[p])]
  PROVE  Repartis'
<1> HIDE DEF P!Pids
<1>0. /\ 2 .. 4 \subseteq P!Pids /\ p \in P!Pids /\ ip \in [P!Pids -> Nat \ {0}] /\ val \in [P!Pids -> Nat]
      /\ tampon \in [P!Pids -> Seq(Nat)]
  BY LecteursTypes
<1>1. PICK t : t = tampon[p]
  OBVIOUS
<1>2. t \in Seq(Nat) /\ t # <<>>
  BY <1>0, <1>1
<1>3. /\ Len(t) \in Nat /\ Len(t) >= 1 /\ Len(Tail(t)) = Len(t) - 1 /\ Head(t) = t[1]
      /\ \A h \in 1 .. Len(t) - 1 : Tail(t)[h] = t[h + 1]
  BY <1>2, HeadTailProperties, EmptySeq
<1>4. /\ tampon'[p] = Tail(t) /\ val'[p] = t[1] /\ ip'[p] = 2
      /\ \A q \in 2 .. 4 : q # p => tampon'[q] = tampon[q] /\ val'[q] = val[q] /\ ip'[q] = ip[q]
  BY <1>0, <1>1, <1>3
<1>5. ASSUME NEW k, NEW q, NEW h, NEW c, Lieu(k, q, h, c)'
      PROVE  \/ k = "lu" /\ q = p /\ h = 0 /\ Lieu("tampon", p, 1, c)
             \/ k = "tampon" /\ q = p /\ h \in Nat /\ h >= 1 /\ Lieu("tampon", p, h + 1, c)
             \/ ~(k = "lu" /\ q = p) /\ ~(k = "tampon" /\ q = p) /\ Lieu(k, q, h, c)
  <2>1. CASE k = "lu" /\ q = p
    <3>1. val'[p] = c /\ h = 0
      BY <1>5, <2>1 DEF Lieu
    <3>2. 1 \in 1 .. Len(t) /\ t[1] = c
      BY <1>3, <1>4, <3>1
    <3> QED BY <1>1, <2>1, <3>1, <3>2 DEF Lieu
  <2>2. CASE k = "tampon" /\ q = p
    <3>1. h \in 1 .. Len(tampon'[p]) /\ tampon'[p][h] = c
      BY <1>5, <2>2 DEF Lieu
    <3>2. h \in 1 .. Len(t) - 1 /\ Tail(t)[h] = c
      BY <1>3, <1>4, <3>1
    <3>3. h + 1 \in 1 .. Len(t) /\ t[h + 1] = c /\ h \in Nat /\ h >= 1
      BY <1>3, <3>2
    <3> QED BY <1>1, <2>2, <3>3 DEF Lieu
  <2>3. CASE ~(k = "lu" /\ q = p) /\ ~(k = "tampon" /\ q = p)
    BY <1>4, <1>5, <2>3 DEF Lieu
  <2> QED BY <2>1, <2>2, <2>3
<1>6. ASSUME NEW k, NEW q, NEW h, NEW c, Lieu(k, q, h, c)
      PROVE  \E l, r, j : Lieu(l, r, j, c)'
  <2>1. CASE k = "tampon" /\ q = p
    <3>1. h \in 1 .. Len(t) /\ t[h] = c
      BY <1>1, <1>6, <2>1 DEF Lieu
    <3>2. CASE h = 1
      <4>1. Lieu("lu", p, 0, c)'
        BY <1>4, <3>1, <3>2 DEF Lieu
      <4> QED BY <4>1
    <3>3. CASE h # 1
      <4>1. PICK j : j = h - 1
        OBVIOUS
      <4>2. j \in 1 .. Len(t) - 1 /\ j + 1 = h
        BY <1>3, <3>1, <3>3, <4>1
      <4>3. Tail(t)[j] = c
        BY <1>3, <3>1, <4>2
      <4>4. Lieu("tampon", p, j, c)'
        BY <1>3, <1>4, <4>2, <4>3 DEF Lieu
      <4> QED BY <4>4
    <3> QED BY <3>2, <3>3
  <2>2. CASE ~(k = "tampon" /\ q = p)
    <3>1. ~(k = "lu" /\ q = p)
      BY <1>6 DEF Lieu
    <3>2. Lieu(k, q, h, c)'
      BY <1>4, <1>6, <2>2, <3>1 DEF Lieu
    <3> QED BY <3>2
  <2> QED BY <2>1, <2>2
<1>7. ASSUME NEW k, NEW q, NEW h, NEW c, NEW l, NEW r, NEW j, Lieu(k, q, h, c)', Lieu(l, r, j, c)'
      PROVE  k = l /\ q = r /\ h = j
  <2>1. \A k0, p0, i0, l0, q0, j0 : Lieu(k0, p0, i0, c) /\ Lieu(l0, q0, j0, c) => k0 = l0 /\ p0 = q0 /\ i0 = j0
    BY DEF Repartis
  <2>2. \/ k = "lu" /\ q = p /\ h = 0 /\ Lieu("tampon", p, 1, c)
        \/ k = "tampon" /\ q = p /\ h \in Nat /\ h >= 1 /\ Lieu("tampon", p, h + 1, c)
        \/ ~(k = "lu" /\ q = p) /\ ~(k = "tampon" /\ q = p) /\ Lieu(k, q, h, c)
    BY <1>5, <1>7
  <2>3. \/ l = "lu" /\ r = p /\ j = 0 /\ Lieu("tampon", p, 1, c)
        \/ l = "tampon" /\ r = p /\ j \in Nat /\ j >= 1 /\ Lieu("tampon", p, j + 1, c)
        \/ ~(l = "lu" /\ r = p) /\ ~(l = "tampon" /\ r = p) /\ Lieu(l, r, j, c)
    BY <1>5, <1>7
  <2>4. CASE k = "lu" /\ q = p /\ h = 0 /\ Lieu("tampon", p, 1, c)
    <3>1. \A g \in Nat : g >= 1 => ~Lieu("tampon", p, g + 1, c)
      BY <2>1, <2>4
    <3> QED BY <2>1, <2>3, <2>4, <3>1
  <2>5. CASE k = "tampon" /\ q = p /\ h \in Nat /\ h >= 1 /\ Lieu("tampon", p, h + 1, c)
    <3>1. ~Lieu("tampon", p, 1, c)
      <4>1. Lieu("tampon", p, 1, c) => h + 1 = 1
        BY <2>1, <2>5
      <4>2. h + 1 # 1
        BY <2>5
      <4> QED BY <4>1, <4>2
    <3>2. ASSUME j \in Nat, Lieu("tampon", p, j + 1, c) PROVE h = j
      <4>1. h + 1 = j + 1
        BY <2>1, <2>5, <3>2
      <4> QED BY <2>5, <3>2, <4>1
    <3>3. Lieu(l, r, j, c) => l = "tampon" /\ r = p
      BY <2>1, <2>5
    <3> QED BY <2>3, <2>5, <3>1, <3>2, <3>3
  <2>6. CASE ~(k = "lu" /\ q = p) /\ ~(k = "tampon" /\ q = p) /\ Lieu(k, q, h, c)
    <3>1. \A g : ~Lieu("tampon", p, g, c)
      BY <2>1, <2>6
    <3> QED BY <2>1, <2>3, <2>6, <3>1
  <2> QED BY <2>2, <2>4, <2>5, <2>6
<1>8. \A q \in 2 .. 4 : ip'[q] = 4 => tampon'[q] = <<>> /\ pos[1] = Longueur
  BY <1>4 DEF Repartis
<1>9. \A k, q, h, c : Lieu(k, q, h, c)' => \E l, r, j : Lieu(l, r, j, c)
  BY <1>5
<1> QED BY <1>6, <1>7, <1>8, <1>9, Deplaces

(* Two intervals from 1 that are equal have the same end.                *)
LEMMA MemeBorne ==
  ASSUME NEW a \in Nat, NEW b \in Nat, 1 .. a = 1 .. b
  PROVE  a = b
<1>1. \A x : x \in 1 .. a <=> x \in 1 .. b
  OBVIOUS
<1>2. a \in 1 .. a => a <= b
  BY <1>1
<1>3. b \in 1 .. b => b <= a
  BY <1>1
<1> QED BY <1>2, <1>3

(* The characters that a read takes are new ones.                          *)
LEMMA RepartisPrend ==
  ASSUME Base, Types', prog = P!posix \/ prog = P!libc, Repartis, NEW p \in 2 .. 4,
         ip[p] = 1, tampon[p] = <<>>, UNCHANGED <<ip, val, trace>>,
         NEW d \in Nat \ {0}, pos[1] + d <= Longueur, pos' = [pos EXCEPT ![1] = pos[1] + d],
         tampon' = [tampon EXCEPT ![p] = [j \in 1 .. d |-> pos[1] + j]]
  PROVE  Repartis'
<1> HIDE DEF P!Pids
<1>0. /\ 2 .. 4 \subseteq P!Pids /\ p \in P!Pids /\ tampon \in [P!Pids -> Seq(Nat)]
      /\ pos \in Nat \X Nat /\ pos[1] \in Nat /\ Longueur \in Nat
  BY LecteursTypes
<1>1. PICK a \in Nat : a = pos[1]
  BY <1>0
<1>2. pos'[1] = a + d /\ a + d <= Longueur
  BY <1>0, <1>1, PosChange
<1>3. tampon'[p] = [j \in 1 .. d |-> a + j] /\ \A q \in 2 .. 4 : q # p => tampon'[q] = tampon[q]
  BY <1>0, <1>1
<1>4. Len(tampon'[p]) = d /\ \A h \in 1 .. d : tampon'[p][h] = a + h
  <2>1. PICK t : t = tampon'[p]
    OBVIOUS
  <2>2. DOMAIN t = 1 .. d /\ \A h \in 1 .. d : t[h] = a + h
    BY <1>3, <2>1
  <2>3. t \in Seq(Nat)
    BY <1>0, <2>1 DEF Types
  <2>4. Len(t) \in Nat /\ DOMAIN t = 1 .. Len(t)
    BY <2>3
  <2>5. Len(t) = d
    <3>1. 1 .. d = 1 .. Len(t)
      BY <2>2, <2>4
    <3> QED BY <2>4, <3>1, MemeBorne
  <2> QED BY <2>1, <2>2, <2>5
<1>5. ASSUME NEW k, NEW q, NEW h, NEW c
      PROVE  Lieu(k, q, h, c)' <=> Lieu(k, q, h, c) \/ (k = "tampon" /\ q = p /\ h \in 1 .. d /\ c = a + h)
  <2>1. CASE k = "tampon" /\ q = p
    <3>1. ~Lieu(k, q, h, c)
      <4>1. Len(<<>>) = 0 /\ h \notin 1 .. 0
        OBVIOUS
      <4> QED BY <2>1, <4>1 DEF Lieu
    <3>2. Lieu(k, q, h, c)' <=> h \in 1 .. Len(tampon'[p]) /\ tampon'[p][h] = c
      BY <2>1 DEF Lieu
    <3> QED BY <1>4, <2>1, <3>1, <3>2
  <2>2. CASE ~(k = "tampon" /\ q = p)
    BY <1>3, <2>2 DEF Lieu
  <2> QED BY <2>1, <2>2
<1>6. \A k, q, h, c : Lieu(k, q, h, c) => c \in 1 .. a
  BY <1>1 DEF Repartis
<1>7. \A h \in 1 .. d : a + h \in 1 .. a + d /\ a + h \notin 1 .. a
  BY <1>1
<1>8. \A k, q, h, c : Lieu(k, q, h, c)' => c \in 1 .. pos'[1]
  <2>1. 1 .. a \subseteq 1 .. a + d
    BY <1>1
  <2> QED BY <1>2, <1>5, <1>6, <1>7, <2>1
<1>9. ASSUME NEW k, NEW q, NEW h, NEW c, NEW l, NEW r, NEW j, Lieu(k, q, h, c)', Lieu(l, r, j, c)'
      PROVE  k = l /\ q = r /\ h = j
  <2>1. \A k0, p0, i0, l0, q0, j0 : Lieu(k0, p0, i0, c) /\ Lieu(l0, q0, j0, c) => k0 = l0 /\ p0 = q0 /\ i0 = j0
    BY DEF Repartis
  <2>2. Lieu(k, q, h, c) \/ (k = "tampon" /\ q = p /\ h \in 1 .. d /\ c = a + h)
    BY <1>5, <1>9
  <2>3. Lieu(l, r, j, c) \/ (l = "tampon" /\ r = p /\ j \in 1 .. d /\ c = a + j)
    BY <1>5, <1>9
  <2>4. CASE c \in 1 .. a
    BY <1>7, <2>1, <2>2, <2>3, <2>4
  <2>5. CASE c \notin 1 .. a
    <3>1. k = "tampon" /\ q = p /\ h \in 1 .. d /\ c = a + h /\ l = "tampon" /\ r = p /\ j \in 1 .. d /\ c = a + j
      BY <1>6, <2>2, <2>3, <2>5
    <3>2. h = j
      BY <1>1, <3>1
    <3> QED BY <3>1, <3>2
  <2> QED BY <2>4, <2>5
<1>10. ASSUME NEW c \in 1 .. a + d PROVE \E k, q, h : Lieu(k, q, h, c)'
  <2>1. CASE c \in 1 .. a
    <3>1. PICK k, q, h : Lieu(k, q, h, c)
      BY <1>1, <2>1 DEF Repartis
    <3>2. Lieu(k, q, h, c)'
      BY <1>5, <3>1
    <3> QED BY <3>2
  <2>2. CASE c \notin 1 .. a
    <3>1. PICK h : h = c - a
      OBVIOUS
    <3>2. h \in 1 .. d /\ c = a + h
      BY <1>1, <2>2, <3>1
    <3>3. Lieu("tampon", p, h, c)'
      BY <1>5, <3>2
    <3> QED BY <3>3
  <2> QED BY <2>1, <2>2
<1>11. ASSUME NEW q \in 2 .. 4, ip'[q] = 4 PROVE tampon'[q] = <<>> /\ pos'[1] = Longueur
  <2>1. pos[1] = Longueur
    BY <1>11 DEF Repartis
  <2>2. a = Longueur /\ Longueur \in Nat
    BY <1>0, <1>1, <2>1
  <2> QED BY <1>2, <2>2
<1>12. pos'[1] <= Longueur
  BY <1>2
<1> QED BY <1>2, <1>8, <1>9, <1>10, <1>11, <1>12 DEF Repartis

(* The character that was read is displayed.                               *)
LEMMA RepartisDit ==
  ASSUME Base, prog = P!posix \/ prog = P!libc, Repartis, NEW p \in 2 .. 4,
         ip[p] = 2, ip' = [ip EXCEPT ![p] = 3], trace' = Append(trace, <<p, "dit", val[p]>>),
         UNCHANGED <<val, pos, tampon>>
  PROVE  Repartis'
<1> HIDE DEF P!Pids
<1>0. 2 .. 4 \subseteq P!Pids /\ p \in P!Pids /\ ip \in [P!Pids -> Nat \ {0}]
  BY LecteursTypes
<1>1. PICK m0 : m0 = Len(trace)
  OBVIOUS
<1>2. /\ m0 \in Nat /\ Len(trace') = m0 + 1 /\ trace'[m0 + 1][3] = val[p]
      /\ \A h \in 1 .. m0 : trace'[h] = trace[h]
  BY <1>1, Allonge
<1>3. ip'[p] = 3 /\ \A q \in 2 .. 4 : q # p => ip'[q] = ip[q]
  BY <1>0
<1>4. m0 + 1 \notin 1 .. m0 /\ \A h : h \in 1 .. m0 + 1 <=> h \in 1 .. m0 \/ h = m0 + 1
  BY <1>2
<1>5. ASSUME NEW k, NEW q, NEW h, NEW c
      PROVE  Lieu(k, q, h, c)' <=> \/ Lieu(k, q, h, c) /\ ~(k = "lu" /\ q = p)
                                   \/ k = "affiche" /\ q = 0 /\ h = m0 + 1 /\ Lieu("lu", p, 0, c)
  <2>0. Lieu("lu", p, 0, c) <=> val[p] = c
    BY DEF Lieu
  <2>1. CASE k = "affiche"
    <3>1. Lieu(k, q, h, c) <=> q = 0 /\ h \in 1 .. m0 /\ trace[h][3] = c
      BY <1>1, <2>1 DEF Lieu
    <3>2. Lieu(k, q, h, c)' <=> q = 0 /\ h \in 1 .. m0 + 1 /\ trace'[h][3] = c
      BY <1>2, <2>1 DEF Lieu
    <3> QED BY <1>2, <1>4, <2>0, <2>1, <3>1, <3>2
  <2>2. CASE k = "lu" /\ q = p
    BY <1>3, <2>2 DEF Lieu
  <2>3. CASE k # "affiche" /\ ~(k = "lu" /\ q = p)
    BY <1>3, <2>3 DEF Lieu
  <2> QED BY <2>1, <2>2, <2>3
<1>6. \A q, c : ~Lieu("affiche", q, m0 + 1, c)
  BY <1>1, <1>4 DEF Lieu
<1>7. ASSUME NEW k, NEW q, NEW h, NEW c, NEW l, NEW r, NEW j, Lieu(k, q, h, c)', Lieu(l, r, j, c)'
      PROVE  k = l /\ q = r /\ h = j
  <2>1. \A k0, p0, i0, l0, q0, j0 : Lieu(k0, p0, i0, c) /\ Lieu(l0, q0, j0, c) => k0 = l0 /\ p0 = q0 /\ i0 = j0
    BY DEF Repartis
  <2> QED BY <1>5, <1>6, <1>7, <2>1
<1>8. ASSUME NEW k, NEW q, NEW h, NEW c, Lieu(k, q, h, c)
      PROVE  \E l, r, j : Lieu(l, r, j, c)'
  <2>1. CASE k = "lu" /\ q = p
    <3>1. Lieu("lu", p, 0, c)
      BY <1>8, <2>1 DEF Lieu
    <3>2. Lieu("affiche", 0, m0 + 1, c)'
      BY <1>5, <3>1
    <3> QED BY <3>2
  <2>2. CASE ~(k = "lu" /\ q = p)
    <3>1. Lieu(k, q, h, c)'
      BY <1>5, <1>8, <2>2
    <3> QED BY <3>1
  <2> QED BY <2>1, <2>2
<1>9. \A k, q, h, c : Lieu(k, q, h, c)' => \E l, r, j : Lieu(l, r, j, c)
  BY <1>5
<1>10. \A q \in 2 .. 4 : ip'[q] = 4 => tampon'[q] = <<>> /\ pos[1] = Longueur
  BY <1>3 DEF Repartis
<1> QED BY <1>7, <1>8, <1>9, <1>10, Deplaces

(* Every step of the readers keeps it.                                   *)
LEMMA RepartisPas ==
  ASSUME Base, Types', prog = P!posix \/ prog = P!libc, Muets, Repartis, NEW p \in P!Pids, P!Pas(p)
  PROVE  Repartis'
<1> HIDE DEF P!Pids
<1>0. /\ 2 .. 4 \subseteq P!Pids /\ ip \in [P!Pids -> Nat \ {0}] /\ pos[1] \in Nat /\ Longueur \in Nat
  BY LecteursTypes
<1>1. ASSUME UNCHANGED <<val, trace, pos, tampon>>,
             \A q \in 2 .. 4 : ip'[q] = 2 <=> ip[q] = 2,
             \A q \in 2 .. 4 : ip'[q] = 4 => tampon[q] = <<>> /\ pos[1] = Longueur
      PROVE  Repartis'
  <2>1. \A k, q, h, c : Lieu(k, q, h, c)' <=> Lieu(k, q, h, c)
    BY <1>1 DEF Lieu
  <2>2. \A k, q, h, c : Lieu(k, q, h, c) => c \in 1 .. pos[1]
    BY DEF Repartis
  <2>3. \A k, q, h, c, l, r, j : Lieu(k, q, h, c) /\ Lieu(l, r, j, c) => k = l /\ q = r /\ h = j
    BY DEF Repartis
  <2>4. \A k, q, h, c, l, r, j : Lieu(k, q, h, c)' /\ Lieu(l, r, j, c)' => k = l /\ q = r /\ h = j
    BY <2>1, <2>3
  <2>5. \A k, q, h, c : Lieu(k, q, h, c)' => \E l, r, j : Lieu(l, r, j, c)
    BY <2>1
  <2>6. \A k, q, h, c : Lieu(k, q, h, c) => \E l, r, j : Lieu(l, r, j, c)'
    BY <2>1
  <2> QED BY <1>1, <2>4, <2>5, <2>6, Deplaces
<1>2. CASE UNCHANGED <<val, trace, pos, tampon>> /\ \A q \in 2 .. 4 : ip'[q] = ip[q]
  BY <1>1, <1>2 DEF Repartis
<1>3. CASE /\ p \in 2 .. 4 /\ ip[p] = 1 /\ ip' = [ip EXCEPT ![p] = 4] /\ tampon[p] = <<>> /\ pos[1] >= Longueur
           /\ UNCHANGED <<val, trace, pos, tampon>>
  <2>1. pos[1] = Longueur
    <3>1. pos[1] <= Longueur
      BY DEF Repartis
    <3> QED BY <1>0, <1>3, <3>1
  <2>2. ip'[p] = 4 /\ \A q \in 2 .. 4 : q # p => ip'[q] = ip[q]
    BY <1>0, <1>3
  <2>3. \A q \in 2 .. 4 : ip'[q] = 4 => tampon[q] = <<>> /\ pos[1] = Longueur
    BY <1>3, <2>1, <2>2 DEF Repartis
  <2>4. \A q \in 2 .. 4 : ip'[q] = 2 <=> ip[q] = 2
    BY <1>3, <2>2
  <2> QED BY <1>1, <1>3, <2>3, <2>4
<1>4. CASE p \in 2 .. 4 /\ ip[p] = 3 /\ ip' = [ip EXCEPT ![p] = 1] /\ UNCHANGED <<val, trace, pos, tampon>>
  <2>1. ip'[p] = 1 /\ \A q \in 2 .. 4 : q # p => ip'[q] = ip[q]
    BY <1>0, <1>4
  <2>2. \A q \in 2 .. 4 : ip'[q] = 4 => tampon[q] = <<>> /\ pos[1] = Longueur
    BY <2>1 DEF Repartis
  <2>3. \A q \in 2 .. 4 : ip'[q] = 2 <=> ip[q] = 2
    BY <1>4, <2>1
  <2> QED BY <1>1, <1>4, <2>2, <2>3
<1> QED BY <1>2, <1>3, <1>4, Pas_lecteurs, RepartisLit, RepartisPrend, RepartisDit

(* diff_C_POSIX.c displays no character twice, and all of them at the    *)
(* end.                                                                  *)
LEMMA Caracteres_lecteurs ==
  ASSUME Base, prog = P!posix \/ prog = P!libc, Repartis
  PROVE  P!ChaqueCaractere
<1>0. /\ ~P!Nom({"ex1"}) /\ ~P!Nom({"ex1c"}) /\ L = 4 /\ 2 .. 4 \subseteq P!Pids
      /\ Len(trace) \in Nat /\ Longueur \in Nat
  <2>1. prog.nom \in {"posix", "libc"} /\ L = 4
    BY Table_posix, Table_libc
  <2> QED BY <2>1, LecteursTypes DEF P!Nom
<1>1. \A h, j \in 1 .. Len(trace) : trace[h][3] = trace[j][3] => h = j
  <2> SUFFICES ASSUME NEW h \in 1 .. Len(trace), NEW j \in 1 .. Len(trace), NEW c, c = trace[h][3], c = trace[j][3]
               PROVE  h = j
    OBVIOUS
  <2>1. Lieu("affiche", 0, h, c) /\ Lieu("affiche", 0, j, c)
    BY DEF Lieu
  <2> QED BY <2>1 DEF Repartis
<1>2. ASSUME \A q \in P!Crees : P!Termine(q) PROVE Len(trace) = Longueur
  <2>1. \A q \in 2 .. 4 : ip[q] = 4
    <3> TAKE q \in 2 .. 4
    <3>1. P!Termine(q)
      BY <1>0, <1>2 DEF P!Crees, L
    <3>2. Lg(q) = 3
      <4>1. q = 2 \/ q = 3 \/ q = 4
        OBVIOUS
      <4> QED BY <4>1, Table_posix, Table_libc
    <3>3. ip[q] = Lg(q) + 1
      BY <1>0, <3>1 DEF Base, Places
    <3> QED BY <3>2, <3>3
  <2>2. (\A q \in 2 .. 4 : tampon[q] = <<>>) /\ pos[1] = Longueur
    <3>1. 2 \in 2 .. 4
      OBVIOUS
    <3> QED BY <2>1, <3>1 DEF Repartis
  <2>3. \A c \in 1 .. Longueur : \E h \in 1 .. Len(trace) : trace[h][3] = c
    <3> TAKE c \in 1 .. Longueur
    <3>1. PICK k, q, h : Lieu(k, q, h, c)
      BY <2>2 DEF Repartis
    <3>2. k # "lu"
      BY <2>1, <3>1 DEF Lieu
    <3>3. k # "tampon"
      <4>1. Len(<<>>) = 0 /\ h \notin 1 .. 0
        OBVIOUS
      <4> QED BY <2>2, <3>1, <4>1 DEF Lieu
    <3> QED BY <3>1, <3>2, <3>3 DEF Lieu
  <2>4. \A h \in 1 .. Len(trace) : trace[h][3] \in 1 .. Longueur
    <3> TAKE h \in 1 .. Len(trace)
    <3>1. PICK c : c = trace[h][3]
      OBVIOUS
    <3>2. Lieu("affiche", 0, h, c)
      BY <3>1 DEF Lieu
    <3> QED BY <2>2, <3>1, <3>2 DEF Repartis
  <2>5. PICK f : f = [h \in 1 .. Len(trace) |-> trace[h][3]]
    OBVIOUS
  <2>6. f \in [1 .. Len(trace) -> 1 .. Longueur] /\ \A h \in 1 .. Len(trace) : f[h] = trace[h][3]
    BY <2>4, <2>5
  <2>7. f \in Bijection(1 .. Len(trace), 1 .. Longueur)
    <3>1. f \in Surjection(1 .. Len(trace), 1 .. Longueur)
      BY <2>3, <2>6 DEF Surjection
    <3>2. f \in Injection(1 .. Len(trace), 1 .. Longueur)
      BY <1>1, <2>6 DEF Injection, IsInjective
    <3> QED BY <3>1, <3>2 DEF Bijection
  <2>8. Cardinality(1 .. Longueur) = Cardinality(1 .. Len(trace))
    <3>1. ExistsBijection(1 .. Len(trace), 1 .. Longueur)
      BY <2>7 DEF ExistsBijection
    <3>2. IsFiniteSet(1 .. Len(trace))
      BY <1>0, FS_Interval
    <3> QED BY <3>1, <3>2, FS_Bijection
  <2>9. Cardinality(1 .. Longueur) = Longueur /\ Cardinality(1 .. Len(trace)) = Len(trace)
    <3>1. \A m0 \in Nat : Cardinality(1 .. m0) = m0
      BY FS_Interval
    <3> QED BY <1>0, <3>1
  <2> QED BY <2>8, <2>9
<1>3. \A j, k \in 1 .. Len(trace) : j < k => trace[j][3] # trace[k][3]
  BY <1>0, <1>1
<1> QED BY <1>0, <1>2, <1>3 DEF P!ChaqueCaractere

(* The programs that display characters send no signal.                    *)
LEMMA SansKill_caracteres ==
  ASSUME prog \in {P!ex1, P!ex1c, P!posix, P!libc}
  PROVE  SansKill
<1>1. CASE prog = P!ex1
  <2> SUFFICES ASSUME NEW p \in 1 .. L, NEW k \in 1 .. Lg(p) PROVE Op(p, k) # "kill"
    BY DEF SansKill
  <2>0. N \in Nat \ {0} /\ L = N + 1 /\ Lg(1) = 2 * N + 2
    BY <1>1, Nombre, Table_ex1
  <2>1. CASE p = 1
    <3>1. k \in Nat /\ k >= 1 /\ k <= 2 * N + 2
      BY <2>0, <2>1
    <3>2. PICK h \in Nat : k = 2 * h \/ k = 2 * h + 1
      BY <3>1, Parite
    <3>3. \/ k = 1 \/ k = 2
          \/ \E q \in 2 .. N + 1 : k = 2 * q - 1 \/ k = 2 * q
      <4>1. k = 1 \/ k = 2 \/ (h + 1 \in 2 .. N + 1 /\ k = 2 * (h + 1) - 1) \/ (h \in 2 .. N + 1 /\ k = 2 * h)
        BY <2>0, <3>1, <3>2
      <4> QED BY <4>1
    <3>4. Op(1, 1) = "pose" /\ Op(1, 2) = "dit" /\ \A q \in 2 .. N + 1 : Op(1, 2 * q - 1) = "fork" /\ Op(1, 2 * q) = "wait"
      BY <1>1, Table_ex1
    <3> QED BY <2>1, <3>3, <3>4
  <2>2. CASE p \in 2 .. N + 1
    <3>1. (k = 1 \/ k = 2) /\ Op(p, 1) = "pose" /\ Op(p, 2) = "dit"
      BY <1>1, <2>2, Table_ex1
    <3> QED BY <3>1
  <2>3. p = 1 \/ p \in 2 .. N + 1
    BY <2>0
  <2> QED BY <2>1, <2>2, <2>3
<1>2. CASE prog = P!ex1c
  <2> SUFFICES ASSUME NEW p \in 1 .. L, NEW k \in 1 .. Lg(p) PROVE Op(p, k) # "kill"
    BY DEF SansKill
  <2>0. N \in Nat \ {0} /\ L = N + 1 /\ Lg(N + 1) = 0
    BY <1>2, Nombre, Table_ex1c
  <2>1. p \in 1 .. N
    <3>1. p # N + 1
      BY <2>0
    <3> QED BY <2>0, <3>1
  <2>2. /\ (k = 1 \/ k = 2 \/ k = 3 \/ k = 4)
        /\ Op(p, 1) = "lit" /\ Op(p, 2) = "fork" /\ Op(p, 3) = "wait" /\ Op(p, 4) = "dit"
    BY <1>2, <2>1, Table_ex1c
  <2> QED BY <2>2
<1>3. CASE prog = P!posix \/ prog = P!libc
  <2> SUFFICES ASSUME NEW p \in 1 .. L, NEW k \in 1 .. Lg(p) PROVE Op(p, k) # "kill"
    BY DEF SansKill
  <2>1. p = 1 \/ p = 2 \/ p = 3 \/ p = 4
    <3>1. L = 4
      BY <1>3, Table_posix, Table_libc
    <3> QED BY <3>1
  <2>2. Lg(p) = 3
    BY <1>3, <2>1, Table_posix, Table_libc
  <2>3. k = 1 \/ k = 2 \/ k = 3
    BY <2>2
  <2> QED BY <1>3, <2>1, <2>3, Table_posix, Table_libc
<1> QED BY <1>1, <1>2, <1>3

(* The inductive invariant of the programs that read or write a file.      *)
Lus ==
    /\ P!Nom({"ex1", "ex1c", "posix", "libc"}) => Muets
    /\ P!Nom({"ex1"}) => Renverse
    /\ P!Nom({"ex1c"}) => Lecture /\ Fins /\ Rangees
    /\ P!Nom({"posix", "libc"}) => Repartis
    /\ P!Nom({"taille"}) => Ecrits

(* The first state satisfies it.                                         *)
LEMMA LusInit == P!Init => Lus
<1> SUFFICES ASSUME P!Init PROVE Lus
  OBVIOUS
<1>1. Base /\ prog \in P!Programmes
  BY BaseInit DEF Base, Types
<1>2. P!Nom({"ex1c"}) => prog = P!ex1c
  BY <1>1, ParNom DEF P!Nom
<1> QED BY <1>1, <1>2, MuetsInit, RenverseInit, LectureInit, RangeesInit, RepartisInit, EcritsInit DEF Lus

(* Every step keeps it.                                                  *)
LEMMA LusPas ==
  ASSUME Base, Attendus, Parts, Lus, NEW p \in P!Pids, P!Pas(p)
  PROVE  Lus'
<1>0. prog \in P!Programmes /\ prog' = prog /\ Types'
  BY MasquesPas, BasePas DEF Base, Types
<1>1. \A noms : P!Nom(noms)' <=> P!Nom(noms)
  BY <1>0 DEF P!Nom
<1>2. ASSUME P!Nom({"ex1", "ex1c", "posix", "libc"}) PROVE Muets'
  <2>1. prog \in {P!ex1, P!ex1c, P!posix, P!libc} /\ Muets
    BY <1>2, <1>0, ParNom DEF P!Nom, Lus
  <2> QED BY <2>1, SansKill_caracteres, MuetsPas
<1>3. ASSUME P!Nom({"ex1"}) PROVE Renverse'
  <2>1. prog = P!ex1 /\ Renverse /\ Muets
    BY <1>3, <1>0, ParNom DEF P!Nom, Lus
  <2> QED BY <2>1, RenversePas
<1>4. ASSUME P!Nom({"ex1c"}) PROVE (Lecture /\ Fins /\ Rangees)'
  <2>1. prog = P!ex1c /\ Lecture /\ Fins /\ Rangees /\ Muets
    BY <1>4, <1>0, ParNom DEF P!Nom, Lus
  <2> QED BY <1>0, <2>1, LecturePas, FinsPas, RangeesPas
<1>5. ASSUME P!Nom({"posix", "libc"}) PROVE Repartis'
  <2>1. (prog = P!posix \/ prog = P!libc) /\ Repartis /\ Muets
    BY <1>5, <1>0, ParNom DEF P!Nom, Lus
  <2> QED BY <1>0, <2>1, RepartisPas
<1>6. ASSUME P!Nom({"taille"}) PROVE Ecrits'
  <2>1. prog = P!taille_fic /\ Ecrits /\ Signaux
    BY <1>6, <1>0, ParNom DEF P!Nom, Lus, Parts, Envois
  <2> QED BY <2>1, EcritsPas
<1> QED BY <1>1, <1>2, <1>3, <1>4, <1>5, <1>6 DEF Lus

(* So does a step that changes nothing.                                  *)
LEMMA LusStable ==
  ASSUME Lus, UNCHANGED P!vars
  PROVE  Lus'
<1>0. UNCHANGED <<prog, etat, pere, ip, pendants, val, trace, pos, taille, tampon>>
  BY DEF P!vars, P!svars, P!dvars
<1>1. Muets => Muets'
  BY <1>0 DEF Muets
<1>2. Renverse => Renverse'
  BY <1>0 DEF Renverse
<1>3. Lecture /\ Fins => (Lecture /\ Fins)'
  BY <1>0 DEF Lecture, Fins, P!Termine
<1>4. Rangees => Rangees'
  BY <1>0 DEF Rangees
<1>5. Repartis => Repartis'
  BY <1>0 DEF Repartis, Lieu
<1>6. Ecrits => Ecrits'
  BY <1>0 DEF Ecrits
<1> QED BY <1>0, <1>1, <1>2, <1>3, <1>4, <1>5, <1>6 DEF Lus, P!Nom

(* ChaqueCaractere, in the four programs.                                *)
LEMMA ChaqueCaractereOK ==
  ASSUME Base, Lus
  PROVE  P!ChaqueCaractere
<1>1. CASE P!Nom({"ex1", "ex1c", "posix", "libc"})
  <2>1. prog \in {P!ex1, P!ex1c, P!posix, P!libc}
    BY <1>1, ParNom DEF P!Nom, Base, Types
  <2>2. /\ prog = P!ex1 => Renverse
        /\ prog = P!ex1c => Rangees
        /\ prog = P!posix \/ prog = P!libc => Repartis
    BY Noms DEF Lus, P!Nom
  <2> QED BY <2>1, <2>2, Caracteres_ex1, Caracteres_ex1c, Caracteres_lecteurs
<1>2. CASE ~P!Nom({"ex1", "ex1c", "posix", "libc"})
  BY <1>2 DEF P!ChaqueCaractere, P!Nom
<1> QED BY <1>1, <1>2

(* In every state, for any N and any length of the file: what main       *)
(* displays is the sum of the values of its sons, or the value of the    *)
(* last of the chain (BonTotal); in ex1c.c and diff_C_POSIX.c no         *)
(* character is displayed twice nor lost, whoever reads it, and ex1.c    *)
(* displays the characters N + 1 to 1 in this order, without those past  *)
(* the end of the file (ChaqueCaractere); the file of                    *)
(* taille_fic_egal_8.c is 8 characters long at the end (TailleHuit).     *)
THEOREM ResultatsProc == P!Spec => []Resultats
<1>1. P!Init => Base /\ Attendus /\ Parts /\ Totaux /\ Lus
  BY BaseInit, PartsInit, TotauxInit, LusInit
<1>2. Base /\ Attendus /\ Parts /\ Totaux /\ Lus /\ [P!Next]_P!vars => (Base /\ Attendus /\ Parts /\ Totaux /\ Lus)'
  <2> SUFFICES ASSUME Base, Attendus, Parts, Totaux, Lus, [P!Next]_P!vars
               PROVE  (Base /\ Attendus /\ Parts /\ Totaux /\ Lus)'
    OBVIOUS
  <2>1. CASE UNCHANGED P!vars
    BY <2>1, BaseStable, PartsStable, TotauxStable, LusStable
  <2>2. CASE P!Next
    <3>1. PICK p \in P!Pids : P!Pas(p)
      BY <2>2 DEF P!Next
    <3> QED BY <3>1, BasePas, PartsPas, TotauxPas, LusPas
  <2> QED BY <2>1, <2>2
<1>3. Base /\ Totaux /\ Lus => Resultats
  <2> SUFFICES ASSUME Base, Totaux, Lus PROVE P!Resultats
    BY DEF Resultats
  <2>1. P!BonTotal
    BY BonTotalOK
  <2>2. P!ChaqueCaractere
    BY ChaqueCaractereOK
  <2>3. P!TailleHuit
    BY TailleHuitOK DEF Lus
  <2> QED BY <2>1, <2>2, <2>3 DEF P!Resultats
<1> QED BY <1>1, <1>2, <1>3, PTL DEF P!Spec

-----------------------------------------------------------------------------
(* Barriers.                                                               *)

(* The barriers of processes: the places inside the section of mutexSem,   *)
(* those past the count, and the processes in the section.                 *)
Sections == {"compte", "decompte", "valeur", "postAttend", "postLibere"}
Comptes  == {"valeur", "postAttend", "postLibere", "attend", "libere", "apres"}
Etapes   == {"absent", "fork", "avant", "compte", "decompte", "valeur",
             "postAttend", "postLibere", "attend", "libere", "apres"}
Dedans   == {p \in S!Processes : etape[p] \in Sections}

(* The counter of the program that runs, cpt up or compteur down, counts   *)
(* the processes that came; and who releases, is released or may be, does  *)
(* so because nbProcess of them did.                                       *)
Comptees ==
    /\ version = "shm" => cpt = Cardinality(S!Arrives)
    /\ version = "compteur" => compteur = nbProcess - Cardinality(S!Arrives)
    /\ \A p \in S!Processes : etape[p] = "compte" => version = "shm"
    /\ \A p \in S!Processes : etape[p] \in {"decompte", "valeur"} => version = "compteur"
    /\ \A p \in S!Processes :
        etape[p] \in {"postLibere", "libere"} => Cardinality(S!Arrives) >= nbProcess
    /\ barrier > 0 => Cardinality(S!Arrives) >= nbProcess

(* One process at most has still to fork, and its descendants do not exist.*)
Chaine ==
    \A p, q \in S!Processes : etape[p] = "fork" /\ q > p => etape[q] = "absent"

SIInv ==
    /\ S!TypeOK
    /\ mutexSem + Cardinality(Dedans) = IF version = "shm" THEN 1 ELSE nbProcess
    /\ Comptees
    /\ Chaine

LEMMA NbProcess == nbProcess \in Nat \ {0}
  BY MCBarriereAssumption DEF S!ProcessusAssumption

LEMMA MemesCardinaux == \A X : S!Cardinality(X) = Cardinality(X) /\ S!B!Cardinality(X) = Cardinality(X)
  BY DEF S!Cardinality, S!B!Cardinality, Cardinality

LEMMA EnsemblesFinis ==
    /\ IsFiniteSet(S!Processes) /\ Cardinality(S!Processes) = nbProcess + 1
    /\ IsFiniteSet(S!Arrives) /\ Cardinality(S!Arrives) \in 0 .. nbProcess + 1
    /\ IsFiniteSet(Dedans) /\ Cardinality(Dedans) \in Nat
<1>1. IsFiniteSet(S!Processes) /\ Cardinality(S!Processes) = nbProcess + 1
  BY NbProcess, FS_Interval DEF S!Processes
<1>2. S!Arrives \subseteq S!Processes /\ Dedans \subseteq S!Processes
  BY DEF S!Arrives, Dedans
<1>3. IsFiniteSet(S!Arrives) /\ IsFiniteSet(Dedans) /\ Cardinality(S!Arrives) <= Cardinality(S!Processes)
  BY <1>1, <1>2, FS_Subset
<1>4. Cardinality(S!Arrives) \in Nat /\ Cardinality(Dedans) \in Nat
  BY <1>3, FS_CardinalityType
<1> QED BY <1>1, <1>3, <1>4, NbProcess

LEMMA SInitOK == S!Init => SIInv
<1> SUFFICES ASSUME S!Init PROVE SIInv
  OBVIOUS
<1> USE NbProcess DEF S!Init
<1>1. \A p \in S!Processes : etape[p] \in {"fork", "absent"} /\ (etape[p] = "fork" => p = 0)
  OBVIOUS
<1>2. S!Arrives = {} /\ Dedans = {}
  BY <1>1 DEF S!Arrives, Dedans, Sections
<1>3. Cardinality(S!Arrives) = 0 /\ Cardinality(Dedans) = 0
  BY <1>2, FS_EmptySet
<1>4. S!TypeOK
  BY DEF S!TypeOK, S!Processes
<1>5. Comptees
  BY <1>1, <1>3 DEF Comptees
<1>6. Chaine
  BY <1>1 DEF Chaine, S!Processes
<1> QED BY <1>3, <1>4, <1>5, <1>6 DEF SIInv

(* A step of p from one place to another changes the two sets by p at most.*)
LEMMA Deplace ==
  ASSUME S!TypeOK, NEW p \in S!Processes, NEW from, NEW to \in Etapes, S!Goto(p, from, to)
  PROVE  /\ etape[p] = from /\ etape'[p] = to
         /\ etape' \in [S!Processes -> Etapes]
         /\ \A q \in S!Processes : q # p => etape'[q] = etape[q]
         /\ (from \in Comptes <=> to \in Comptes) => S!Arrives' = S!Arrives
         /\ from \notin Comptes /\ to \in Comptes =>
                /\ p \notin S!Arrives /\ S!Arrives' = S!Arrives \cup {p}
                /\ Cardinality(S!Arrives') = Cardinality(S!Arrives) + 1
         /\ (from \in Sections <=> to \in Sections) => Dedans' = Dedans
         /\ from \notin Sections /\ to \in Sections => Cardinality(Dedans') = Cardinality(Dedans) + 1
         /\ from \in Sections /\ to \notin Sections => Cardinality(Dedans') = Cardinality(Dedans) - 1
         /\ from # "apres" => S!Passes' = IF to = "apres" THEN S!Passes \cup {p} ELSE S!Passes
<1>1. etape[p] = from /\ etape' = [etape EXCEPT ![p] = to] /\ etape \in [S!Processes -> Etapes]
  BY DEF S!Goto, S!TypeOK, Etapes
<1>2. /\ etape'[p] = to /\ etape' \in [S!Processes -> Etapes]
      /\ \A q \in S!Processes : q # p => etape'[q] = etape[q]
  BY <1>1
<1>3. S!Arrives = {q \in S!Processes : etape[q] \in Comptes}
  BY DEF S!Arrives, Comptes
<1>4. S!Arrives' = {q \in S!Processes : etape'[q] \in Comptes}
  BY DEF S!Arrives, Comptes
<1>5. ASSUME from \notin Comptes, to \in Comptes
      PROVE  /\ p \notin S!Arrives /\ S!Arrives' = S!Arrives \cup {p}
             /\ Cardinality(S!Arrives') = Cardinality(S!Arrives) + 1
  <2>1. p \notin S!Arrives /\ S!Arrives' = S!Arrives \cup {p}
    BY <1>1, <1>2, <1>3, <1>4, <1>5
  <2> QED BY <2>1, EnsemblesFinis, FS_AddElement
<1>6. ASSUME from \notin Sections, to \in Sections
      PROVE  Cardinality(Dedans') = Cardinality(Dedans) + 1
  <2>1. p \notin Dedans /\ Dedans' = Dedans \cup {p}
    BY <1>1, <1>2, <1>6 DEF Dedans
  <2> QED BY <2>1, EnsemblesFinis, FS_AddElement
<1>7. ASSUME from \in Sections, to \notin Sections
      PROVE  Cardinality(Dedans') = Cardinality(Dedans) - 1
  <2>1. p \in Dedans /\ Dedans' = Dedans \ {p}
    BY <1>1, <1>2, <1>7 DEF Dedans
  <2> QED BY <2>1, EnsemblesFinis, FS_RemoveElement
<1>8. (from \in Comptes <=> to \in Comptes) => S!Arrives' = S!Arrives
  BY <1>1, <1>2, <1>3, <1>4
<1>9. (from \in Sections <=> to \in Sections) => Dedans' = Dedans
  BY <1>1, <1>2 DEF Dedans
<1>10. from # "apres" => S!Passes' = IF to = "apres" THEN S!Passes \cup {p} ELSE S!Passes
  BY <1>1, <1>2 DEF S!Passes
<1> QED BY <1>1, <1>2, <1>5, <1>6, <1>7, <1>8, <1>9, <1>10

LEMMA MutexWaitOK ==
  ASSUME SIInv, NEW p \in S!Processes, S!MutexWait(p)
  PROVE  SIInv' /\ UNCHANGED S!B!bvars
<1> USE NbProcess
<1>0. S!TypeOK
  BY DEF SIInv
<1>1. PICK to \in Etapes : S!Goto(p, "avant", to) /\ to = (IF version = "shm" THEN "compte" ELSE "decompte")
  BY DEF S!MutexWait, Etapes
<1>2. mutexSem > 0 /\ mutexSem' = mutexSem - 1 /\ UNCHANGED <<version, compteur, barrier, cpt, i>>
  BY DEF S!MutexWait
<1>3. /\ etape[p] = "avant" /\ etape'[p] = to /\ etape' \in [S!Processes -> Etapes]
      /\ \A q \in S!Processes : q # p => etape'[q] = etape[q]
      /\ S!Arrives' = S!Arrives
      /\ Cardinality(Dedans') = Cardinality(Dedans) + 1
      /\ S!Passes' = S!Passes
  BY <1>0, <1>1, Deplace DEF Comptes, Sections
<1>4. S!TypeOK'
  BY <1>0, <1>1, <1>2, <1>3, EnsemblesFinis DEF S!TypeOK, Etapes, SIInv, Comptees
<1>5. mutexSem' + Cardinality(Dedans') = IF version' = "shm" THEN 1 ELSE nbProcess
  BY <1>0, <1>2, <1>3, EnsemblesFinis DEF S!TypeOK, SIInv
<1>6. Comptees'
  BY <1>0, <1>1, <1>2, <1>3, EnsemblesFinis DEF S!TypeOK, SIInv, Comptees
<1>7. Chaine'
  BY <1>1, <1>2, <1>3 DEF SIInv, Chaine
<1> QED BY <1>3, <1>4, <1>5, <1>6, <1>7 DEF SIInv, S!B!bvars

LEMMA ComptePOK ==
  ASSUME SIInv, NEW p \in S!Processes, S!Compte(p)
  PROVE  SIInv' /\ S!B!Arrive(p)
<1> USE NbProcess
<1>0. S!TypeOK
  BY DEF SIInv
<1>1. PICK to \in Etapes : S!Goto(p, "compte", to) /\ to = (IF cpt + 1 < nbProcess THEN "postAttend" ELSE "postLibere")
  BY DEF S!Compte, Etapes
<1>2. cpt' = cpt + 1 /\ UNCHANGED <<version, mutexSem, compteur, barrier, i>>
  BY DEF S!Compte
<1>3. /\ etape[p] = "compte" /\ etape'[p] = to /\ etape' \in [S!Processes -> Etapes]
      /\ \A q \in S!Processes : q # p => etape'[q] = etape[q]
      /\ p \notin S!Arrives /\ S!Arrives' = S!Arrives \cup {p}
      /\ Cardinality(S!Arrives') = Cardinality(S!Arrives) + 1
      /\ Dedans' = Dedans
      /\ S!Passes' = S!Passes
  BY <1>0, <1>1, Deplace DEF Comptes, Sections
<1>10. cpt' \in 0 .. nbProcess + 1
  <2>1. cpt = Cardinality(S!Arrives)
    BY <1>3 DEF SIInv, Comptees
  <2>2. IsFiniteSet(S!Arrives') /\ Cardinality(S!Arrives') \in 0 .. nbProcess + 1
    <3>1. S!Arrives' \subseteq S!Processes
      BY <1>3 DEF S!Arrives
    <3>2. IsFiniteSet(S!Arrives') /\ Cardinality(S!Arrives') <= Cardinality(S!Processes)
      BY <3>1, EnsemblesFinis, FS_Subset
    <3> QED BY <3>2, FS_CardinalityType, EnsemblesFinis
  <2> QED BY <1>2, <1>3, <2>1, <2>2
<1>4. S!TypeOK'
  BY <1>0, <1>1, <1>2, <1>3, <1>10 DEF S!TypeOK, Etapes
<1>5. mutexSem' + Cardinality(Dedans') = IF version' = "shm" THEN 1 ELSE nbProcess
  BY <1>0, <1>2, <1>3, EnsemblesFinis DEF S!TypeOK, SIInv
<1>6. Comptees'
  BY <1>0, <1>1, <1>2, <1>3, EnsemblesFinis DEF S!TypeOK, SIInv, Comptees
<1>7. Chaine'
  BY <1>1, <1>2, <1>3 DEF SIInv, Chaine
<1>8. S!B!Arrive(p)
  BY <1>3 DEF S!B!Arrive
<1> QED BY <1>4, <1>5, <1>6, <1>7, <1>8 DEF SIInv

LEMMA DecompteOK ==
  ASSUME SIInv, NEW p \in S!Processes, S!Decompte(p)
  PROVE  SIInv' /\ S!B!Arrive(p)
<1> USE NbProcess
<1>0. S!TypeOK
  BY DEF SIInv
<1>1. PICK to \in Etapes : S!Goto(p, "decompte", to) /\ to = "valeur"
  BY DEF S!Decompte, Etapes
<1>2. compteur > 0 /\ compteur' = compteur - 1 /\ UNCHANGED <<version, mutexSem, barrier, cpt, i>>
  BY DEF S!Decompte
<1>3. /\ etape[p] = "decompte" /\ etape'[p] = to /\ etape' \in [S!Processes -> Etapes]
      /\ \A q \in S!Processes : q # p => etape'[q] = etape[q]
      /\ p \notin S!Arrives /\ S!Arrives' = S!Arrives \cup {p}
      /\ Cardinality(S!Arrives') = Cardinality(S!Arrives) + 1
      /\ Dedans' = Dedans
      /\ S!Passes' = S!Passes
  BY <1>0, <1>1, Deplace DEF Comptes, Sections
<1>4. S!TypeOK'
  BY <1>0, <1>1, <1>2, <1>3, EnsemblesFinis DEF S!TypeOK, Etapes, SIInv, Comptees
<1>5. mutexSem' + Cardinality(Dedans') = IF version' = "shm" THEN 1 ELSE nbProcess
  BY <1>0, <1>2, <1>3, EnsemblesFinis DEF S!TypeOK, SIInv
<1>6. Comptees'
  BY <1>0, <1>1, <1>2, <1>3, EnsemblesFinis DEF S!TypeOK, SIInv, Comptees
<1>7. Chaine'
  BY <1>1, <1>2, <1>3 DEF SIInv, Chaine
<1>8. S!B!Arrive(p)
  BY <1>3 DEF S!B!Arrive
<1> QED BY <1>4, <1>5, <1>6, <1>7, <1>8 DEF SIInv

LEMMA ValeurOK ==
  ASSUME SIInv, NEW p \in S!Processes, S!Valeur(p)
  PROVE  SIInv' /\ UNCHANGED S!B!bvars
<1> USE NbProcess
<1>0. S!TypeOK
  BY DEF SIInv
<1>1. PICK to \in Etapes : S!Goto(p, "valeur", to) /\ to = (IF compteur > 0 THEN "postAttend" ELSE "postLibere")
  BY DEF S!Valeur, Etapes
<1>2. UNCHANGED <<version, mutexSem, compteur, barrier, cpt, i>>
  BY DEF S!Valeur
<1>3. /\ etape[p] = "valeur" /\ etape'[p] = to /\ etape' \in [S!Processes -> Etapes]
      /\ \A q \in S!Processes : q # p => etape'[q] = etape[q]
      /\ S!Arrives' = S!Arrives
      /\ Dedans' = Dedans
      /\ S!Passes' = S!Passes
  BY <1>0, <1>1, Deplace DEF Comptes, Sections
<1>4. S!TypeOK'
  BY <1>0, <1>1, <1>2, <1>3, EnsemblesFinis DEF S!TypeOK, Etapes, SIInv, Comptees
<1>5. mutexSem' + Cardinality(Dedans') = IF version' = "shm" THEN 1 ELSE nbProcess
  BY <1>0, <1>2, <1>3, EnsemblesFinis DEF S!TypeOK, SIInv
<1>6. Comptees'
  BY <1>0, <1>1, <1>2, <1>3, EnsemblesFinis DEF S!TypeOK, SIInv, Comptees
<1>7. Chaine'
  BY <1>1, <1>2, <1>3 DEF SIInv, Chaine
<1> QED BY <1>3, <1>4, <1>5, <1>6, <1>7 DEF SIInv, S!B!bvars

LEMMA QuitteOK ==
  ASSUME SIInv, NEW p \in S!Processes, S!Quitte(p)
  PROVE  SIInv' /\ S!B!Passe(p)
<1> USE NbProcess
<1>0. S!TypeOK
  BY DEF SIInv
<1>1. PICK to \in Etapes : S!Goto(p, "libere", to) /\ to = "apres"
  BY DEF S!Quitte, Etapes
<1>2. UNCHANGED <<version, mutexSem, compteur, barrier, cpt, i>>
  BY DEF S!Quitte
<1>3. /\ etape[p] = "libere" /\ etape'[p] = to /\ etape' \in [S!Processes -> Etapes]
      /\ \A q \in S!Processes : q # p => etape'[q] = etape[q]
      /\ S!Arrives' = S!Arrives
      /\ Dedans' = Dedans
      /\ S!Passes' = S!Passes \cup {p}
  BY <1>0, <1>1, Deplace DEF Comptes, Sections
<1>4. S!TypeOK'
  BY <1>0, <1>1, <1>2, <1>3, EnsemblesFinis DEF S!TypeOK, Etapes, SIInv, Comptees
<1>5. mutexSem' + Cardinality(Dedans') = IF version' = "shm" THEN 1 ELSE nbProcess
  BY <1>0, <1>2, <1>3, EnsemblesFinis DEF S!TypeOK, SIInv
<1>6. Comptees'
  BY <1>0, <1>1, <1>2, <1>3, EnsemblesFinis DEF S!TypeOK, SIInv, Comptees
<1>7. Chaine'
  BY <1>1, <1>2, <1>3 DEF SIInv, Chaine
<1>8. S!B!Passe(p)
  <2>1. p \in S!Arrives \ S!Passes
    BY <1>3 DEF S!Arrives, S!Passes
  <2>2. Cardinality(S!Arrives) >= nbProcess
    BY <1>0, <1>2, <1>3 DEF SIInv, Comptees, S!TypeOK
  <2> QED BY <1>3, <2>1, <2>2, MemesCardinaux DEF S!B!Passe
<1> QED BY <1>4, <1>5, <1>6, <1>7, <1>8 DEF SIInv

LEMMA AttendOK ==
  ASSUME SIInv, NEW p \in S!Processes, S!Attend(p)
  PROVE  SIInv' /\ S!B!Passe(p)
<1> USE NbProcess
<1>0. S!TypeOK
  BY DEF SIInv
<1>1. PICK to \in Etapes : S!Goto(p, "attend", to) /\ to = "apres"
  BY DEF S!Attend, Etapes
<1>2. barrier > 0 /\ barrier' = barrier - 1 /\ UNCHANGED <<version, mutexSem, compteur, cpt, i>>
  BY DEF S!Attend
<1>3. /\ etape[p] = "attend" /\ etape'[p] = to /\ etape' \in [S!Processes -> Etapes]
      /\ \A q \in S!Processes : q # p => etape'[q] = etape[q]
      /\ S!Arrives' = S!Arrives
      /\ Dedans' = Dedans
      /\ S!Passes' = S!Passes \cup {p}
  BY <1>0, <1>1, Deplace DEF Comptes, Sections
<1>4. S!TypeOK'
  BY <1>0, <1>1, <1>2, <1>3, EnsemblesFinis DEF S!TypeOK, Etapes, SIInv, Comptees
<1>5. mutexSem' + Cardinality(Dedans') = IF version' = "shm" THEN 1 ELSE nbProcess
  BY <1>0, <1>2, <1>3, EnsemblesFinis DEF S!TypeOK, SIInv
<1>6. Comptees'
  BY <1>0, <1>1, <1>2, <1>3, EnsemblesFinis DEF S!TypeOK, SIInv, Comptees
<1>7. Chaine'
  BY <1>1, <1>2, <1>3 DEF SIInv, Chaine
<1>8. S!B!Passe(p)
  <2>1. p \in S!Arrives \ S!Passes
    BY <1>3 DEF S!Arrives, S!Passes
  <2>2. Cardinality(S!Arrives) >= nbProcess
    BY <1>0, <1>2, <1>3 DEF SIInv, Comptees, S!TypeOK
  <2> QED BY <1>3, <2>1, <2>2, MemesCardinaux DEF S!B!Passe
<1> QED BY <1>4, <1>5, <1>6, <1>7, <1>8 DEF SIInv

LEMMA MutexPostOK ==
  ASSUME SIInv, NEW p \in S!Processes, S!MutexPost(p)
  PROVE  SIInv' /\ UNCHANGED S!B!bvars
<1> USE NbProcess
<1>0. S!TypeOK
  BY DEF SIInv
<1>1. PICK from \in Sections, to \in Etapes :
        /\ S!Goto(p, from, to)
        /\ \/ from = "postAttend" /\ to = "attend" /\ i' = i
           \/ from = "postLibere" /\ to = "libere" /\ i' = [i EXCEPT ![p] = 1]
  BY DEF S!MutexPost, Etapes, Sections
<1>2. mutexSem' = mutexSem + 1 /\ UNCHANGED <<version, compteur, barrier, cpt>> /\ i' \in [S!Processes -> 0 .. nbProcess]
  BY <1>0, <1>1 DEF S!MutexPost, S!TypeOK
<1>3. /\ etape[p] = from /\ etape'[p] = to /\ etape' \in [S!Processes -> Etapes]
      /\ \A q \in S!Processes : q # p => etape'[q] = etape[q]
      /\ S!Arrives' = S!Arrives
      /\ Cardinality(Dedans') = Cardinality(Dedans) - 1
      /\ S!Passes' = S!Passes
  BY <1>0, <1>1, Deplace DEF Comptes, Sections
<1>5. mutexSem' + Cardinality(Dedans') = IF version' = "shm" THEN 1 ELSE nbProcess
  BY <1>0, <1>2, <1>3, EnsemblesFinis DEF S!TypeOK, SIInv
<1>9. Cardinality(Dedans') \in Nat
  <2>1. p \in Dedans
    BY <1>3, <1>1 DEF Dedans
  <2>2. Cardinality(Dedans) # 0
    BY <2>1, EnsemblesFinis, FS_EmptySet
  <2> QED BY <1>3, <2>2, EnsemblesFinis
<1>4. S!TypeOK'
  BY <1>0, <1>2, <1>3, <1>5, <1>9 DEF S!TypeOK, Etapes
<1>6. Comptees'
  BY <1>0, <1>1, <1>2, <1>3 DEF SIInv, Comptees
<1>7. Chaine'
  BY <1>1, <1>3 DEF SIInv, Chaine
<1> QED BY <1>3, <1>4, <1>5, <1>6, <1>7 DEF SIInv, S!B!bvars

LEMMA LibereOK ==
  ASSUME SIInv, NEW p \in S!Processes, S!Libere(p)
  PROVE  SIInv' /\ UNCHANGED S!B!bvars
<1> USE NbProcess DEF SIInv
<1>1. /\ etape[p] = "libere" /\ i[p] < nbProcess /\ barrier' = barrier + 1
      /\ i' = [i EXCEPT ![p] = @ + 1] /\ UNCHANGED <<version, mutexSem, compteur, cpt, etape>>
  BY DEF S!Libere
<1>2. S!Arrives' = S!Arrives /\ S!Passes' = S!Passes /\ Dedans' = Dedans
  BY <1>1 DEF S!Arrives, S!Passes, Dedans
<1>3. S!TypeOK'
  BY <1>1 DEF S!TypeOK
<1>4. Comptees' /\ Chaine'
  BY <1>1, <1>2 DEF Comptees, Chaine
<1> QED BY <1>1, <1>2, <1>3, <1>4 DEF S!B!bvars

(* The child that the chain creates was not there.                         *)
LEMMA ForkOK ==
  ASSUME SIInv, NEW p \in S!Processes, S!Fork(p)
  PROVE  SIInv' /\ UNCHANGED S!B!bvars
<1> USE NbProcess DEF SIInv
<1>1. /\ etape[p] = "fork" /\ UNCHANGED <<version, mutexSem, compteur, barrier, cpt, i>>
      /\ etape' = [q \in S!Processes |-> CASE q = p -> "avant" [] q = p + 1 -> "fork"
                                            [] OTHER -> etape[q]]
  BY DEF S!Fork
<1>2. \A q \in S!Processes : q = p + 1 => etape[q] = "absent"
  BY <1>1 DEF Chaine, S!Processes
<1>3. /\ etape' \in [S!Processes -> Etapes] /\ etape'[p] = "avant"
      /\ \A q \in S!Processes : q # p => etape'[q] = IF q = p + 1 THEN "fork" ELSE etape[q]
  BY <1>1 DEF S!TypeOK, Etapes, S!Processes
<1>4. \A q \in S!Processes : etape'[q] = etape[q] \/ (etape[q] \in {"absent", "fork"} /\ etape'[q] \in {"avant", "fork"})
  BY <1>1, <1>2, <1>3
<1>5. S!Arrives' = S!Arrives /\ S!Passes' = S!Passes /\ Dedans' = Dedans
  BY <1>4 DEF S!Arrives, S!Passes, Dedans, Sections
<1>6. S!TypeOK'
  BY <1>1, <1>3 DEF S!TypeOK, Etapes
<1>7. Comptees'
  BY <1>1, <1>4, <1>5 DEF Comptees
<1>8. Chaine'
  BY <1>1, <1>2, <1>3 DEF Chaine, S!Processes
<1> QED BY <1>1, <1>5, <1>6, <1>7, <1>8 DEF S!B!bvars

LEMMA SStepOK == SIInv /\ [S!Next]_svars => SIInv' /\ [S!B!Next]_S!B!bvars
<1> SUFFICES ASSUME SIInv, [S!Next]_svars PROVE SIInv' /\ [S!B!Next]_S!B!bvars
  OBVIOUS
<1>1. CASE UNCHANGED svars
  BY <1>1 DEF svars, SIInv, S!TypeOK, Comptees, Chaine, Dedans, S!Arrives, S!Passes, S!B!bvars
<1>2. ASSUME NEW p \in S!Processes, S!Fork(p) \/ S!wait_barrier(p)
      PROVE  SIInv' /\ [S!B!Next]_S!B!bvars
  BY <1>2, ForkOK, MutexWaitOK, ComptePOK, DecompteOK, ValeurOK, MutexPostOK, LibereOK, QuitteOK, AttendOK
     DEF S!wait_barrier, S!B!Next
<1> QED BY <1>1, <1>2 DEF S!Next

(* The semaphores are barriers too, in both programs and for any number of *)
(* processes, although one more comes than they count: nobody passes before*)
(* nbProcess have come, and no value leaves its bounds.                    *)
THEOREM ProcessusImplementent == MCSpec => ProcessusImplements
<1>1. MCInit => SIInv /\ S!B!Init
  <2>1. S!Init => S!B!Init
    BY DEF S!Init, S!B!Init, S!Arrives, S!Passes
  <2> QED BY <2>1, SInitOK DEF MCInit
<1>2. SIInv /\ [MCNext]_<<exo, vars, svars>> => SIInv' /\ [S!B!Next]_S!B!bvars
  BY SStepOK DEF MCNext, Par
<1>3. SIInv => S!TypeOK
  BY DEF SIInv
<1> QED BY <1>1, <1>2, <1>3, PTL DEF MCSpec, ProcessusImplements, S!Implements, S!B!Spec

-----------------------------------------------------------------------------
(* The barrier of threads.                                                 *)
(* The counter counts the threads that came; the condition is raised only  *)
(* when all of them did; nobody has passed before; and the mutex is held   *)
(* by the thread that counts itself or that is inside the while.           *)
IInv ==
    /\ TypeOK
    /\ val_inside_barrier = Cardinality(Arrives)
    /\ condition = 1 => Arrives = Threads
    /\ \A t \in Threads : pc[t] = "apres" => condition = 1
    /\ PersonneNeDort
    /\ \A t \in Threads : pc[t] = "compte" => mutex = t
    /\ \A t \in attente["cond"] : pc[t] = "boucle"

USE BarriereAssumption, PersonneAssumption

(* The cardinality of the instantiated module is the one of FiniteSets.    *)
LEMMA MemeCardinal == \A X : B!Cardinality(X) = Cardinality(X)
  BY DEF B!Cardinality, Cardinality

LEMMA ArrivesFinite == IsFiniteSet(Arrives) /\ Cardinality(Arrives) \in Nat
  BY FS_Subset, FS_CardinalityType DEF Arrives

LEMMA InitOK == Init => IInv
<1> SUFFICES ASSUME Init PROVE IInv
  OBVIOUS
<1> USE DEF Init, MoniteurInit
<1>1. Arrives = {}
  BY DEF Arrives
<1>2. Cardinality(Arrives) = 0 /\ val_thread_max \in Nat
  BY <1>1, FS_EmptySet, FS_CardinalityType DEF val_thread_max
<1>3. TypeOK
  BY <1>2 DEF TypeOK, MoniteurTypeOK
<1> QED BY <1>1, <1>2, <1>3 DEF IInv, PersonneNeDort

(* A thread that counts itself is one more, and the last one completes the *)
(* set of threads.                                                         *)
LEMMA Arrivee ==
  ASSUME IInv, NEW t \in Threads, pc[t] = "compte",
         NEW l \in {"boucle", "apres"}, Goto(t, l)
  PROVE  /\ t \notin Arrives /\ Arrives' = Arrives \cup {t}
         /\ Cardinality(Arrives') = Cardinality(Arrives) + 1
         /\ Cardinality(Arrives') <= val_thread_max
         /\ Cardinality(Arrives') = val_thread_max => Arrives' = Threads
<1>1. t \notin Arrives /\ Arrives' = Arrives \cup {t}
  BY DEF Arrives, Goto, IInv, TypeOK
<1>2. Cardinality(Arrives') = Cardinality(Arrives) + 1
  BY <1>1, ArrivesFinite, FS_AddElement
<1>3. Arrives' \subseteq Threads
  BY <1>1 DEF Arrives
<1> HIDE DEF Arrives
<1>4. /\ Cardinality(Arrives') <= Cardinality(Threads)
      /\ Cardinality(Threads) = Cardinality(Arrives') => Arrives' = Threads
  BY <1>3, FS_Subset
<1> QED BY <1>1, <1>2, <1>4 DEF val_thread_max

LEMMA DernierOK ==
  ASSUME IInv, NEW t \in Threads, Dernier(t)
  PROVE  IInv' /\ B!ArriveEtPasse(t)
<1> USE DEF IInv, TypeOK, MoniteurTypeOK
<1>1. /\ t \notin Arrives /\ Arrives' = Arrives \cup {t}
      /\ Cardinality(Arrives') = Cardinality(Arrives) + 1
      /\ Arrives' = Threads
      /\ val_inside_barrier' = Cardinality(Arrives') /\ Cardinality(Arrives') = val_thread_max
      /\ val_thread_max \in Nat
  BY Arrivee, FS_CardinalityType DEF Dernier, val_thread_max
<1>2. /\ condition' = 1 /\ mutex' = Personne /\ mutex = t
      /\ attente' = [attente EXCEPT !["cond"] = {}]
      /\ pc' = [pc EXCEPT ![t] = "apres"]
  BY DEF Dernier, Unlock, Broadcast, Goto
<1>3. TypeOK'
  BY <1>1, <1>2
<1>4. IInv'
  BY <1>1, <1>2, <1>3 DEF PersonneNeDort
<1>5. Passes' = Passes \cup {t}
  BY <1>2 DEF Passes
<1>6. B!ArriveEtPasse(t)
  BY <1>1, <1>5, ArrivesFinite, MemeCardinal DEF B!ArriveEtPasse
<1> QED BY <1>4, <1>6

LEMMA CompteOK ==
  ASSUME IInv, NEW t \in Threads, Compte(t)
  PROVE  IInv' /\ B!Arrive(t)
<1> USE DEF IInv, TypeOK, MoniteurTypeOK
<1>1. /\ t \notin Arrives /\ Arrives' = Arrives \cup {t}
      /\ val_inside_barrier' = Cardinality(Arrives')
      /\ val_inside_barrier' \in 0 .. val_thread_max
  BY Arrivee, ArrivesFinite DEF Compte
<1>2. /\ pc' = [pc EXCEPT ![t] = "boucle"] /\ pc[t] = "compte"
      /\ condition' = condition /\ mutex' = mutex /\ attente' = attente
  BY DEF Compte, Goto, mvars
<1>3. condition = 0
  BY <1>1
<1>4. IInv'
  BY <1>1, <1>2, <1>3 DEF PersonneNeDort
<1>5. Passes' = Passes
  BY <1>2 DEF Passes
<1> QED BY <1>1, <1>4, <1>5 DEF B!Arrive

LEMMA SortOK ==
  ASSUME IInv, NEW t \in Threads, Sort(t)
  PROVE  IInv' /\ B!Passe(t)
<1> USE DEF IInv, TypeOK, MoniteurTypeOK
<1>1. /\ pc' = [pc EXCEPT ![t] = "apres"] /\ pc[t] = "boucle"
      /\ condition = 1 /\ condition' = 1 /\ mutex' = Personne /\ mutex = t
      /\ attente' = attente /\ val_inside_barrier' = val_inside_barrier
  BY DEF Sort, Unlock, Goto
<1>2. Arrives' = Arrives /\ Passes' = Passes \cup {t} /\ t \in Arrives \ Passes
  BY <1>1 DEF Arrives, Passes
<1>3. IInv'
  BY <1>1, <1>2 DEF PersonneNeDort
<1>4. Cardinality(Arrives) >= val_thread_max
  BY <1>1, FS_CardinalityType DEF val_thread_max
<1>5. B!Passe(t)
  BY <1>2, <1>4, MemeCardinal DEF B!Passe
<1> QED BY <1>3, <1>5

(* The other steps do not move anybody.                                    *)
LEMMA AutresOK ==
  ASSUME IInv,
         \/ \E t \in Threads : Entre(t) \/ Dort(t) \/ Reprend(t) \/ Intempestif(t)
         \/ UNCHANGED vars
  PROVE  IInv' /\ UNCHANGED B!bvars
<1> USE DEF IInv, TypeOK, MoniteurTypeOK, PersonneNeDort
<1> SUFFICES IInv' /\ Arrives' = Arrives /\ Passes' = Passes
  BY DEF B!bvars
<1>1. ASSUME NEW t \in Threads, Entre(t)
      PROVE  IInv' /\ Arrives' = Arrives /\ Passes' = Passes
  <2>1. /\ pc' = [pc EXCEPT ![t] = "compte"] /\ pc[t] = "avant" /\ mutex' = t
        /\ mutex = Personne /\ UNCHANGED <<attente, val_inside_barrier, condition>>
    BY <1>1 DEF Entre, Lock, Goto
  <2>2. Arrives' = Arrives /\ Passes' = Passes
    BY <2>1 DEF Arrives, Passes
  <2> QED BY <2>1, <2>2
<1>2. ASSUME NEW t \in Threads, Dort(t)
      PROVE  IInv' /\ Arrives' = Arrives /\ Passes' = Passes
  <2>1. /\ attente' = [attente EXCEPT !["cond"] = @ \cup {t}] /\ pc[t] = "boucle"
        /\ condition = 0 /\ mutex = t /\ mutex' = Personne
        /\ UNCHANGED <<pc, val_inside_barrier, condition>>
    BY <1>2 DEF Dort, CondWait, Unlock
  <2>2. Arrives' = Arrives /\ Passes' = Passes
    BY <2>1 DEF Arrives, Passes
  <2> QED BY <2>1, <2>2
<1>3. ASSUME NEW t \in Threads, Reprend(t)
      PROVE  IInv' /\ Arrives' = Arrives /\ Passes' = Passes
  BY <1>3 DEF Reprend, Lock, Arrives, Passes
<1>4. ASSUME NEW t \in Threads, Intempestif(t)
      PROVE  IInv' /\ Arrives' = Arrives /\ Passes' = Passes
  BY <1>4 DEF Intempestif, ReveilIntempestif, Arrives, Passes
<1>5. CASE UNCHANGED vars
  BY <1>5 DEF vars, mvars, Arrives, Passes
<1> QED BY <1>1, <1>2, <1>3, <1>4, <1>5

LEMMA StepOK == IInv /\ [Next]_vars => IInv' /\ [B!Next]_B!bvars
<1> SUFFICES ASSUME IInv, [Next]_vars PROVE IInv' /\ [B!Next]_B!bvars
  OBVIOUS
<1>1. ASSUME NEW t \in Threads, Dernier(t) \/ Compte(t) \/ Sort(t)
      PROVE  IInv' /\ B!Next
  BY <1>1, DernierOK, CompteOK, SortOK DEF B!Next
<1> QED BY <1>1, AutresOK DEF Next, wait_barrier

LEMMA Invariance == Spec => []IInv
  BY InitOK, StepOK, PTL DEF Spec

(* The counter and the mutex are used as their types say.                  *)
THEOREM BarriereTyped == Spec => []TypeOK
<1>1. IInv => TypeOK
  BY DEF IInv
<1> QED BY <1>1, Invariance, PTL

(* Nobody sleeps once the last thread has come, for any number of threads. *)
THEOREM BarriereWakes == Spec => []PersonneNeDort
<1>1. IInv => PersonneNeDort
  BY DEF IInv
<1> QED BY <1>1, Invariance, PTL

(* wait_barrier is a barrier: every step of the threads is a step of the   *)
(* abstract barrier of as many participants, or none.                      *)
THEOREM BarriereImplements == Spec => Implements
<1>1. Init => B!Init
  BY DEF Init, B!Init, Arrives, Passes
<1> QED BY <1>1, Invariance, StepOK, PTL DEF Spec, Implements, B!Spec
=============================================================================

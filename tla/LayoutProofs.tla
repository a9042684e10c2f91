---------------------------- MODULE LayoutProofs ----------------------------
(***************************************************************************)
(* The layout arithmetic, for every file and every generation size; and    *)
(* induction over the naturals in the forms the other proofs use.          *)
(***************************************************************************)
EXTENDS Layout, Integers, WellFoundedInduction, TLAPS

-----------------------------------------------------------------------------
(* Induction, from the well-foundedness of < on Nat, and what it gives for *)
(* a function that is defined by recursion over 0..n.                      *)

LEMMA Least ==
    ASSUME NEW S \in SUBSET Nat, S # {}
    PROVE  \E m \in S : \A k \in S : m <= k
<1>1. PICK m \in S : \A k \in S : ~(<<k, m>> \in OpToRel(<, Nat))
  BY WFMin, NatLessThanWellFounded, Zenon
<1>2. \A k \in S : ~(k < m)
  BY <1>1, Zenon DEF OpToRel
<1> QED BY <1>2

LEMMA Induction ==
    ASSUME NEW n \in Nat, NEW P, 0 \in P, \A i \in 0..n - 1 : i \in P => i + 1 \in P
    PROVE  0..n \subseteq P
<1> DEFINE S == (0..n) \ P
<1>1. S \in SUBSET Nat
  OBVIOUS
<1>2. SUFFICES ASSUME S # {} PROVE FALSE
  OBVIOUS
<1>3. PICK m \in S : \A k \in S : m <= k
  <2> HIDE DEF S
  <2> QED BY <1>1, <1>2, Least
<1>4. m \in 0..n /\ m \notin P
  BY <1>3
<1>5. m # 0 /\ m - 1 \in 0..n - 1 /\ (m - 1) + 1 = m /\ ~(m <= m - 1)
  BY <1>4
<1>6. m - 1 \in P
  BY <1>3, <1>5
<1> QED BY <1>4, <1>5, <1>6

\* A recursive definition over 0..n whose steps stay in S defines a function.
Steps(n, S) == [1..n -> [S -> S]]

Solves(f, n, S, base, step) ==
    /\ f \in [0..n -> S]
    /\ f[0] = base
    /\ \A i \in 1..n : f[i] = step[i][f[i - 1]]

LEMMA Recursion ==
    ASSUME NEW n \in Nat, NEW S, NEW base \in S, NEW step \in Steps(n, S)
    PROVE  \E f : Solves(f, n, S, base, step)
<1> DEFINE Good(k, f) == f[0] = base /\ \A i \in 1..k : f[i] = step[i][f[i - 1]]
           P == {k \in 0..n : \E f \in [0..k -> S] : Good(k, f)}
<1>1. 0 \in P
  <2> DEFINE f == [i \in 0..0 |-> base]
  <2>1. f \in [0..0 -> S] /\ Good(0, f)
    OBVIOUS
  <2>2. 0 \in 0..n
    OBVIOUS
  <2> QED BY <2>1, <2>2
<1>2. ASSUME NEW k \in 0..n - 1, k \in P PROVE k + 1 \in P
  <2>1. PICK f \in [0..k -> S] : Good(k, f)
    BY <1>2
  <2> DEFINE g == [i \in 0..k + 1 |-> IF i = k + 1 THEN step[k + 1][f[k]] ELSE f[i]]
  <2>2. k + 1 \in 0..n /\ k + 1 \in 1..n /\ f[k] \in S
    OBVIOUS
  <2>3. g \in [0..k + 1 -> S]
    <3>1. step[k + 1][f[k]] \in S
      BY <2>2 DEF Steps
    <3>2. \A i \in 0..k + 1 : i # k + 1 => f[i] \in S
      BY <2>1
    <3> QED BY <3>1, <3>2
  <2>4. g[0] = base
    BY <2>1
  <2>5. ASSUME NEW i \in 1..k + 1
        PROVE  g[i] = step[i][g[i - 1]]
    <3>1. i - 1 \in 0..k + 1 /\ i - 1 # k + 1 /\ i \in 0..k + 1
      OBVIOUS
    <3>2. g[i - 1] = f[i - 1]
      BY <3>1
    <3>3. CASE i = k + 1
      <4>1. i - 1 = k
        BY <3>3
      <4> QED BY <3>2, <3>3, <4>1
    <3>4. CASE i # k + 1
      <4>1. i \in 1..k /\ g[i] = f[i]
        BY <3>1, <3>4
      <4> HIDE DEF g
      <4> QED BY <2>1, <3>2, <4>1
    <3> QED BY <3>3, <3>4
  <2> HIDE DEF g
  <2> QED BY <2>2, <2>3, <2>4, <2>5
<1>3. 0..n \subseteq P
  <2> HIDE DEF P
  <2> QED BY <1>1, <1>2, Induction
<1>4. n \in P
  BY <1>3
<1> QED BY <1>4 DEF Solves

-----------------------------------------------------------------------------
(* The layout.                                                             *)

\* Quotient and remainder, as the provers need them.
LEMMA Division ==
    ASSUME NEW nb \in Nat, NEW n \in Nat, n > 0
    PROVE  /\ nb \div n \in Nat
           /\ n * (nb \div n) <= nb
           /\ nb < n * ((nb \div n) + 1)
<1>1. nb \div n \in Nat /\ nb % n \in 0..n - 1 /\ nb = n * (nb \div n) + (nb % n)
  BY Z3
<1> QED BY <1>1, Z3

\* There is a last generation, and what the evenly divided ones leave for it.
LEMMA GenerationCount ==
    ASSUME NEW nb \in Nat \ {0}, NEW n \in Nat \ {0}
    PROVE  /\ NumGens(nb, n) \in Nat \ {0}
           /\ EvenlyDivided(nb, n) => nb = n * NumGens(nb, n)
           /\ ~EvenlyDivided(nb, n) =>
                    nb - n * (NumGens(nb, n) - 1) \in 1..n - 1
<1> DEFINE q == nb \div n
<1>1. q \in Nat /\ n * q <= nb /\ nb < n * (q + 1)
  BY Division
<1>2. CASE EvenlyDivided(nb, n)
  <2>1. NumGens(nb, n) = q /\ n * q = nb
    BY <1>2 DEF NumGens, EvenlyDivided
  <2>2. q # 0
    BY <2>1, <1>1, Z3
  <2> QED BY <1>1, <1>2, <2>1, <2>2
<1>3. CASE ~EvenlyDivided(nb, n)
  <2>1. NumGens(nb, n) = q + 1 /\ n * q # nb
    BY <1>3 DEF NumGens, EvenlyDivided
  <2>2. n * (q + 1) = n * q + n /\ n * q \in Nat
    BY <1>1, Z3
  <2>3. nb - n * q \in 1..n - 1
    BY <1>1, <2>1, <2>2
  <2> HIDE DEF q
  <2>4. (q + 1) - 1 = q
    BY <1>1
  <2> QED BY <1>1, <1>3, <2>1, <2>3, <2>4
<1> QED BY <1>2, <1>3

\* Every generation has at least one block and none has more than the first,
\* for which the shared buffers are allocated.
THEOREM GenerationSizes ==
    ASSUME NEW nb \in Nat \ {0}, NEW n \in Nat \ {0}
    PROVE  LET nbg == NumBlocksGen(nb, n)
           IN  /\ DOMAIN nbg = 0..NumGens(nb, n) - 1
               /\ 0 \in DOMAIN nbg
               /\ \A g \in DOMAIN nbg : nbg[g] \in 1..n /\ nbg[g] <= nbg[0]
<1> DEFINE last == NumGens(nb, n) - 1
           nbg == NumBlocksGen(nb, n)
<1>1. last \in Nat /\ (~EvenlyDivided(nb, n) => nb - n * last \in 1..n - 1)
  BY GenerationCount
<1>2. DOMAIN nbg = 0..last /\ 0 \in DOMAIN nbg
  BY <1>1 DEF NumBlocksGen
<1>3. ASSUME NEW g \in 0..last
      PROVE  nbg[g] = IF g < last \/ EvenlyDivided(nb, n) THEN n ELSE nb - n * last
  BY DEF NumBlocksGen
<1>4. 0 \in 0..last
  BY <1>1
<1>5. ASSUME NEW g \in 0..last
      PROVE  nbg[g] \in 1..n /\ nbg[g] <= nbg[0]
  <2> HIDE DEF nbg
  <2>1. CASE EvenlyDivided(nb, n)
    <3>1. nbg[g] = n /\ nbg[0] = n
      BY <1>3, <1>4, <2>1
    <3> QED BY <3>1
  <2>2. CASE ~EvenlyDivided(nb, n) /\ g < last
    <3>1. 0 < last
      BY <1>1, <2>2
    <3>2. nbg[g] = n /\ nbg[0] = n
      BY <1>3, <1>4, <2>2, <3>1
    <3> QED BY <3>2
  <2>3. CASE ~EvenlyDivided(nb, n) /\ ~(g < last)
    <3>1. nbg[g] = nb - n * last /\ nb - n * last \in 1..n - 1
      BY <1>1, <1>3, <2>3
    <3>2. nbg[0] = n \/ (g = 0 /\ nbg[0] = nbg[g])
      BY <1>1, <1>3, <1>4, <2>3
    <3> QED BY <3>1, <3>2
  <2> QED BY <2>1, <2>2, <2>3
<1> QED BY <1>2, <1>5

\* All generations but the last are as large as the first, and together they
\* hold every block.
LEMMA GenerationTotal ==
    ASSUME NEW nb \in Nat \ {0}, NEW n \in Nat \ {0}
    PROVE  LET nbg == NumBlocksGen(nb, n)
               last == NumGens(nb, n) - 1
           IN  /\ last \in Nat /\ DOMAIN nbg = 0..last
               /\ \A g \in 0..last - 1 : nbg[g] = nbg[0]
               /\ nbg[0] * last + nbg[last] = nb
<1> DEFINE last == NumGens(nb, n) - 1
           nbg == NumBlocksGen(nb, n)
<1>1. /\ last \in Nat
      /\ EvenlyDivided(nb, n) => nb = n * NumGens(nb, n)
      /\ ~EvenlyDivided(nb, n) => nb - n * last \in 1..n - 1
  BY GenerationCount
<1>2. DOMAIN nbg = 0..last
  BY DEF NumBlocksGen
<1>3. \A g \in 0..last : nbg[g] = IF g < last \/ EvenlyDivided(nb, n) THEN n ELSE nb - n * last
  BY DEF NumBlocksGen
<1>4. 0 \in 0..last /\ last \in 0..last /\ ~(last < last)
  BY <1>1
<1>5. NumGens(nb, n) = last + 1
  <2>1. NumGens(nb, n) \in Nat
    BY GenerationCount
  <2> QED BY <2>1
<1> HIDE DEF nbg, last
<1>6. CASE EvenlyDivided(nb, n)
  <2>1. nb = n * (last + 1) /\ n * (last + 1) = n * last + n
    BY <1>1, <1>5, <1>6, Z3
  <2>2. \A g \in 0..last : nbg[g] = n
    BY <1>3, <1>6
  <2>3. nbg[0] = n /\ nbg[last] = n /\ \A g \in 0..last - 1 : nbg[g] = n
    BY <1>1, <1>4, <2>2
  <2> QED BY <1>1, <1>2, <2>1, <2>3 DEF nbg, last
<1>7. CASE ~EvenlyDivided(nb, n)
  <2>1. nbg[last] = nb - n * last /\ n * last \in Nat
    BY <1>1, <1>3, <1>4, <1>7
  <2>2. CASE last = 0
    <3>1. nbg[0] = nb - n * last
      BY <2>1, <2>2
    <3>2. nbg[0] = nb
      BY <2>1, <2>2, <3>1
    <3>3. nb * 0 + nb = nb
      OBVIOUS
    <3>4. nbg[0] * last + nbg[last] = nb
      BY <2>2, <3>2, <3>3
    <3>5. 0..last - 1 = {}
      BY <2>2
    <3> QED BY <1>1, <1>2, <3>4, <3>5 DEF nbg, last
  <2>3. CASE last # 0
    <3>1. \A g \in 0..last - 1 : g \in 0..last /\ g < last
      BY <1>1
    <3>2. 0 \in 0..last - 1
      BY <1>1, <2>3
    <3>3. \A g \in 0..last - 1 : nbg[g] = n
      BY <1>3, <3>1
    <3>4. nbg[0] = n
      BY <3>2, <3>3
    <3>5. n * last + nbg[last] = nb
      BY <2>1
    <3> QED BY <1>1, <1>2, <3>3, <3>4, <3>5 DEF nbg, last
  <2> QED BY <2>2, <2>3
<1> QED BY <1>6, <1>7

\* A node that is told only the number of blocks and the size of generation 0
\* computes the layout of the node that told it.
THEOREM LayoutFromFirstGeneration ==
    ASSUME NEW nb \in Nat \ {0}, NEW n \in Nat \ {0}
    PROVE  NumBlocksGen(nb, NumBlocksGen(nb, n)[0]) = NumBlocksGen(nb, n)
<1> DEFINE last == NumGens(nb, n) - 1
           nbg == NumBlocksGen(nb, n)
<1>1. last \in Nat /\ (~EvenlyDivided(nb, n) => nb - n * last \in 1..n - 1)
  BY GenerationCount
<1>2. nbg[0] = IF 0 < last \/ EvenlyDivided(nb, n) THEN n ELSE nb - n * last
  BY <1>1 DEF NumBlocksGen
<1>3. CASE 0 < last \/ EvenlyDivided(nb, n)
  BY <1>2, <1>3
\* One short generation: it holds all the blocks.
<1>4. CASE ~(0 < last \/ EvenlyDivided(nb, n))
  <2>1. last = 0 /\ nbg[0] = nb
    <3>1. last = 0 /\ nbg[0] = nb - n * last
      <4> HIDE DEF last, nbg
      <4> QED BY <1>1, <1>2, <1>4
    <3>2. n * 0 = 0 /\ nb - 0 = nb
      OBVIOUS
    <3> HIDE DEF last, nbg
    <3> QED BY <3>1, <3>2
  <2>2. nb \div nb = 1
    BY Z3
  <2>3. EvenlyDivided(nb, nb) /\ NumGens(nb, nb) = 1
    BY <2>2 DEF EvenlyDivided, NumGens
  <2>4. NumBlocksGen(nb, nb) = [g \in 0..0 |-> nb]
    BY <2>3 DEF NumBlocksGen
  <2>5. nbg = [g \in 0..0 |-> nb]
    BY <1>1, <1>4, <2>1 DEF NumBlocksGen
  <2> QED BY <2>1, <2>4, <2>5
<1> QED BY <1>3, <1>4
=============================================================================

---------------------------- MODULE FileIOProofs ----------------------------
(***************************************************************************)
(* For files, blocks and generations of any size: both ends of a transfer  *)
(* cut the file in the same way, the buffers sized for generation 0 are    *)
(* large enough for every generation, the encoder loads and combines what  *)
(* it says it does, and the client's output is the file.                   *)
(*                                                                         *)
(* Everything rests on two facts about the layout: block i of generation g *)
(* is block num_blocks_gen[0] * g + i of the file, and only the last block *)
(* reaches the file's end.  The loops that add up positions and append     *)
(* blocks are recursive functions; Recursion and Induction of LayoutProofs *)
(* say what they compute.                                                  *)
(***************************************************************************)
EXTENDS FileIO, LayoutProofs, FiniteSetTheorems, SequenceTheorems

\* A file that is not empty has a block.
LEMMA SomeBlock ==
    ASSUME NEW fs \in Nat \ {0}, NEW bs \in Nat \ {0}
    PROVE  NumBlocks(fs, bs) \in Nat \ {0}
<1> DEFINE q == (fs + bs - 1) \div bs
<1>1. fs + bs - 1 \in Nat /\ bs <= fs + bs - 1
  OBVIOUS
<1>2. q \in Nat /\ fs + bs - 1 < bs * (q + 1)
  BY <1>1, Division
<1>3. q # 0
  <2>1. ASSUME q = 0 PROVE FALSE
    <3>1. bs * (0 + 1) = bs
      OBVIOUS
    <3> HIDE DEF q
    <3> QED BY <1>1, <1>2, <2>1, <3>1
  <2> QED BY <2>1
<1> QED BY <1>2, <1>3 DEF NumBlocks

\* What the command line gave never changes.
ParamsOK == file_size \in Nat \ {0} /\ block_size \in Nat \ {0} /\ per_gen \in Nat \ {0}

LEMMA ParamsInvariant == Spec => []ParamsOK
<1>1. Init => ParamsOK
  BY BoundsAssumption DEF Init, ParamsOK
<1>2. ParamsOK /\ [Next]_vars => ParamsOK'
  <2> SUFFICES ASSUME ParamsOK, [Next]_vars PROVE ParamsOK'
    OBVIOUS
  <2>1. ASSUME NEW g \in Gens, Encode(g) PROVE ParamsOK'
    BY <2>1 DEF ParamsOK, Encode, params
  <2>2. CASE DecodeGen
    BY <2>2 DEF ParamsOK, DecodeGen, params
  <2>3. CASE UNCHANGED vars
    BY <2>3 DEF ParamsOK, vars, params
  <2> QED BY <2>1, <2>2, <2>3 DEF Next
<1> QED BY <1>1, <1>2, PTL DEF Spec

\* A client that knows the number of blocks and num_blocks_gen[0] cuts the file
\* as the seed does (client Init against LoadFileInfo).
THEOREM ClientLayout == Spec => []ClientLayoutAgrees
<1>1. ParamsOK => ClientLayoutAgrees
  <2> SUFFICES ASSUME ParamsOK PROVE ClientLayoutAgrees
    OBVIOUS
  <2>1. num_blocks \in Nat \ {0}
    BY SomeBlock DEF ParamsOK, num_blocks
  <2> QED BY <2>1, LayoutFromFirstGeneration
        DEF ParamsOK, ClientLayoutAgrees, client_num_blocks_gen, num_blocks_gen
<1> QED BY <1>1, ParamsInvariant, PTL

\* The allocations made for generation 0 hold every generation (cb and m_gdata
\* in both Init functions).
THEOREM LargestFirst == Spec => []FirstGenerationLargest
<1>1. ParamsOK => FirstGenerationLargest
  <2> SUFFICES ASSUME ParamsOK PROVE FirstGenerationLargest
    OBVIOUS
  <2>1. num_blocks \in Nat \ {0} /\ per_gen \in Nat \ {0}
    BY SomeBlock DEF ParamsOK, num_blocks
  <2>2. /\ DOMAIN num_blocks_gen = 0..NumGens(num_blocks, per_gen) - 1
        /\ 0 \in DOMAIN num_blocks_gen
        /\ \A g \in DOMAIN num_blocks_gen :
              num_blocks_gen[g] \in 1..per_gen /\ num_blocks_gen[g] <= num_blocks_gen[0]
    BY <2>1, GenerationSizes DEF num_blocks_gen
  <2>3. NumGens(num_blocks, per_gen) \in Nat \ {0}
    BY <2>1, GenerationCount
  <2>4. Cardinality(0..NumGens(num_blocks, per_gen) - 1) = NumGens(num_blocks, per_gen)
    BY <2>3, FS_Interval
  <2>5. Gens = DOMAIN num_blocks_gen
    BY <2>2, <2>4 DEF Gens, num_gens
  <2>6. num_blocks_gen[0] \in Int
    BY <2>1, <2>2
  <2> QED BY <2>1, <2>2, <2>5, <2>6 DEF FirstGenerationLargest
<1> QED BY <1>1, ParamsInvariant, PTL
-----------------------------------------------------------------------------
(* Where a generation starts, for the loop that adds up the ones before.   *)

Sums(t, n) == CHOOSE pos : pos = [i \in 0..n |-> IF i = 0 THEN 0 ELSE pos[i - 1] + t[i - 1]]

LEMMA SumsExist ==
    ASSUME NEW t, NEW n \in Nat, \A i \in 0..n - 1 : t[i] \in Nat
    PROVE  /\ Sums(t, n) = [i \in 0..n |-> IF i = 0 THEN 0 ELSE Sums(t, n)[i - 1] + t[i - 1]]
           /\ BlocksBefore(t, n) = Sums(t, n)[n]
<1> DEFINE step == [i \in 1..n |-> [x \in Nat |-> x + t[i - 1]]]
<1>1. step \in Steps(n, Nat)
  <2>1. ASSUME NEW i \in 1..n, NEW x \in Nat
        PROVE  x + t[i - 1] \in Nat
    <3>1. i - 1 \in 0..n - 1
      OBVIOUS
    <3> QED BY <3>1
  <2> QED BY <2>1 DEF Steps
<1>2. PICK f : Solves(f, n, Nat, 0, step)
  <2>1. 0 \in Nat
    OBVIOUS
  <2> HIDE DEF step
  <2> QED BY <1>1, <2>1, Recursion
<1>3. f = [i \in 0..n |-> IF i = 0 THEN 0 ELSE f[i - 1] + t[i - 1]]
  <2>1. /\ f \in [0..n -> Nat] /\ f[0] = 0
        /\ \A i \in 1..n : f[i] = step[i][f[i - 1]]
    BY <1>2 DEF Solves
  <2>2. ASSUME NEW i \in 1..n
        PROVE  f[i] = f[i - 1] + t[i - 1]
    <3>1. f[i - 1] \in Nat
      BY <2>1
    <3> QED BY <2>1, <3>1
  <2>3. \A i \in 0..n : i # 0 => i \in 1..n
    OBVIOUS
  <2> HIDE DEF step
  <2> QED BY <2>1, <2>2, <2>3
<1>4. Sums(t, n) = [i \in 0..n |-> IF i = 0 THEN 0 ELSE Sums(t, n)[i - 1] + t[i - 1]]
  BY <1>3, Zenon DEF Sums
<1>5. BlocksBefore(t, n) = Sums(t, n)[n]
  BY DEF BlocksBefore, Sums
<1> QED BY <1>4, <1>5

LEMMA SumOfEqual ==
    ASSUME NEW t, NEW n \in Nat, NEW c \in Nat, \A i \in 0..n - 1 : t[i] = c
    PROVE  BlocksBefore(t, n) = c * n
<1> DEFINE pos == Sums(t, n)
           P == {i \in 0..n : pos[i] = c * i}
<1>1. /\ pos = [i \in 0..n |-> IF i = 0 THEN 0 ELSE pos[i - 1] + t[i - 1]]
      /\ BlocksBefore(t, n) = pos[n]
  <2>1. \A i \in 0..n - 1 : t[i] \in Nat
    OBVIOUS
  <2> QED BY <2>1, SumsExist
<1> HIDE DEF pos
<1>2. 0 \in P
  <2>1. c * 0 = 0 /\ 0 \in 0..n
    OBVIOUS
  <2>2. pos[0] = 0
    BY <1>1, <2>1
  <2> QED BY <2>1, <2>2
<1>3. ASSUME NEW i \in 0..n - 1, i \in P
      PROVE  i + 1 \in P
  <2>1. i + 1 \in 0..n /\ i + 1 # 0 /\ (i + 1) - 1 = i
    OBVIOUS
  <2>2. pos[i + 1] = pos[i] + t[i]
    BY <1>1, <2>1
  <2>3. pos[i] = c * i /\ t[i] = c
    BY <1>3
  <2>4. c * (i + 1) = c * i + c
    BY Z3
  <2> QED BY <2>1, <2>2, <2>3, <2>4
<1>4. 0..n \subseteq P
  <2> HIDE DEF P
  <2> QED BY <1>2, <1>3, Induction
<1> QED BY <1>1, <1>4
-----------------------------------------------------------------------------
(* The layout of this file.                                                *)

LEMMA Monotonic ==
    ASSUME NEW a \in Nat, NEW x \in Nat, NEW y \in Nat, x <= y
    PROVE  a * x \in Nat /\ a * y \in Nat /\ a * x <= a * y
<1>1. \A u, v \in Nat : u * v \in Nat
  OBVIOUS
<1>2. y - x \in Nat
  OBVIOUS
<1>3. a * (y - x) \in Nat
  BY <1>1, <1>2
<1>4. a * y = a * x + a * (y - x)
  BY Z3
<1> QED BY <1>1, <1>3, <1>4

LEMMA Successor ==
    ASSUME NEW a \in Nat, NEW x \in Nat
    PROVE  a * (x + 1) = a * x + a /\ a * x \in Nat
  BY Z3

LEMMA LayoutIs ==
    ASSUME ParamsOK
    PROVE  /\ num_blocks \in Nat \ {0} /\ num_gens \in Nat \ {0}
           /\ DOMAIN num_blocks_gen = Gens /\ 0 \in Gens /\ num_gens - 1 \in Gens
           /\ \A g \in Gens : /\ num_blocks_gen[g] \in Nat \ {0}
                              /\ g # num_gens - 1 => num_blocks_gen[g] = num_blocks_gen[0]
                              /\ BlocksBefore(num_blocks_gen, g) = num_blocks_gen[0] * g
           /\ num_blocks_gen[0] * (num_gens - 1) + num_blocks_gen[num_gens - 1] = num_blocks
           /\ client_num_blocks_gen = num_blocks_gen
<1> DEFINE nbg == num_blocks_gen
           last == NumGens(num_blocks, per_gen) - 1
<1>1. num_blocks \in Nat \ {0} /\ per_gen \in Nat \ {0}
  BY SomeBlock DEF ParamsOK, num_blocks
<1>2. /\ DOMAIN nbg = 0..last /\ 0 \in DOMAIN nbg
      /\ \A g \in DOMAIN nbg : nbg[g] \in 1..per_gen
  BY <1>1, GenerationSizes DEF num_blocks_gen
<1>3. /\ last \in Nat
      /\ \A g \in 0..last - 1 : nbg[g] = nbg[0]
      /\ nbg[0] * last + nbg[last] = num_blocks
  BY <1>1, GenerationTotal DEF num_blocks_gen
<1>4. client_num_blocks_gen = nbg
  BY <1>1, LayoutFromFirstGeneration DEF client_num_blocks_gen, num_blocks_gen
<1> HIDE DEF last
<1>5. num_gens = last + 1
  <2>1. Cardinality(0..last) = IF 0 > last THEN 0 ELSE last - 0 + 1
    BY <1>3, FS_Interval
  <2> QED BY <1>2, <1>3, <2>1 DEF num_gens
<1>6. Gens = 0..last /\ num_gens - 1 = last
  BY <1>3, <1>5 DEF Gens
<1> HIDE DEF nbg
<1>7. ASSUME NEW g \in 0..last
      PROVE  /\ nbg[g] \in Nat \ {0}
             /\ g # last => nbg[g] = nbg[0]
             /\ BlocksBefore(nbg, g) = nbg[0] * g
  <2>1. nbg[g] \in Nat \ {0} /\ nbg[0] \in Nat
    BY <1>1, <1>2, <1>3
  <2>2. g \in Nat /\ \A i \in 0..g - 1 : nbg[i] = nbg[0]
    BY <1>3
  <2>3. BlocksBefore(nbg, g) = nbg[0] * g
    BY <2>1, <2>2, SumOfEqual
  <2> QED BY <1>3, <2>1, <2>3
<1> QED BY <1>1, <1>2, <1>3, <1>4, <1>5, <1>6, <1>7 DEF nbg

\* The last block, and no other, reaches the end of the file.
LEMMA LastBlock ==
    ASSUME ParamsOK
    PROVE  /\ block_size * (num_blocks - 1) \in Nat
           /\ block_size * (num_blocks - 1) < file_size
           /\ file_size <= block_size * (num_blocks - 1) + block_size
<1> DEFINE q == num_blocks
           bs == block_size
           fs == file_size
<1>1. q \in Nat \ {0} /\ bs \in Nat \ {0} /\ fs \in Nat \ {0}
  BY LayoutIs DEF ParamsOK
<1>2. bs * q <= fs + bs - 1 /\ fs + bs - 1 < bs * (q + 1)
  <2>1. fs + bs - 1 \in Nat /\ bs > 0
    BY <1>1
  <2> QED BY <1>1, <2>1, Division DEF num_blocks, NumBlocks
<1> HIDE DEF q, bs, fs
<1>3. q - 1 \in Nat /\ (q - 1) + 1 = q
  BY <1>1
<1>4. bs * q = bs * (q - 1) + bs /\ bs * (q - 1) \in Nat
  <2> DEFINE p == q - 1
  <2>1. p \in Nat /\ p + 1 = q
    BY <1>3
  <2> HIDE DEF p
  <2>2. bs * (p + 1) = bs * p + bs /\ bs * p \in Nat
    BY <1>1, <2>1, Successor
  <2>3. bs * q = bs * p + bs /\ bs * p \in Nat
    BY <2>1, <2>2
  <2> QED BY <2>3 DEF p
<1>5. bs * (q + 1) = bs * q + bs
  BY <1>1, Successor
<1>6. bs * (q - 1) < fs /\ fs <= bs * (q - 1) + bs
  BY <1>1, <1>2, <1>4, <1>5
<1> QED BY <1>4, <1>6 DEF q, bs, fs

\* Block i of generation g is block nbg[0] * g + i of the file.
LEMMA BlockNumber ==
    ASSUME ParamsOK, NEW g \in Gens, NEW i \in 0..num_blocks_gen[g] - 1
    PROVE  LET k == num_blocks_gen[0] * g + i
           IN  /\ k \in 0..num_blocks - 1
               /\ k = num_blocks - 1 <=> g = num_gens - 1 /\ i = num_blocks_gen[g] - 1
               /\ Pos(g) \in Nat /\ block_size * i \in Nat
               /\ Pos(g) + block_size * i = block_size * k
               /\ block_size * k \in Nat
               /\ k # num_blocks - 1 => block_size * k + block_size < file_size
<1> DEFINE n == num_blocks_gen[0]
           m == num_blocks_gen[g]
           last == num_gens - 1
           nb == num_blocks
           bs == block_size
           fs == file_size
           k == n * g + i
<1>1. /\ n \in Nat \ {0} /\ m \in Nat \ {0} /\ nb \in Nat \ {0} /\ bs \in Nat \ {0}
      /\ last \in Nat /\ g \in 0..last /\ fs \in Nat
      /\ g # last => m = n
      /\ n * last + num_blocks_gen[last] = nb
      /\ num_blocks_gen[last] \in Nat \ {0}
  BY LayoutIs DEF ParamsOK, Gens
<1>2. g = last => n * last + m = nb
  BY <1>1
<1>3. i \in 0..m - 1
  OBVIOUS
<1>4. Pos(g) = bs * (n * g)
  BY LayoutIs DEF Pos
<1>5. bs * (nb - 1) \in Nat /\ bs * (nb - 1) < fs
  BY LastBlock
<1> HIDE DEF n, m, last, nb, bs, fs
<1>6. n * g \in Nat /\ n * last \in Nat /\ g \in Nat /\ i \in Nat
  BY <1>1, <1>3, Monotonic
<1>7. k \in 0..nb - 1 /\ (k = nb - 1 <=> g = last /\ i = m - 1)
  <2>1. CASE g = last
    BY <1>1, <1>2, <1>3, <1>6, <2>1
  <2>2. CASE g # last
    <3>1. g + 1 \in Nat /\ g + 1 <= last
      BY <1>1, <2>2
    <3>2. n * (g + 1) <= n * last
      BY <1>1, <3>1, Monotonic
    <3>3. n * (g + 1) = n * g + n
      BY <1>1, <1>6, Successor
    <3> QED BY <1>1, <1>3, <1>6, <2>2, <3>2, <3>3
  <2> QED BY <2>1, <2>2
<1>8. bs * (n * g) \in Nat /\ bs * i \in Nat /\ bs * (n * g) + bs * i = bs * k /\ bs * k \in Nat
  <2> DEFINE x == n * g
  <2>1. x \in Nat
    BY <1>6
  <2> HIDE DEF x
  <2>2. bs * x \in Nat /\ bs * i \in Nat
    BY <1>1, <1>6, <2>1, Monotonic
  <2>3. bs * x + bs * i = bs * (x + i)
    BY <1>1, <1>6, <2>1, Z3
  <2>4. bs * x \in Nat /\ bs * i \in Nat /\ bs * x + bs * i = bs * (x + i) /\ bs * (x + i) \in Nat
    BY <2>2, <2>3
  <2> QED BY <2>4 DEF x
<1> HIDE DEF k
<1>9. ASSUME k # nb - 1
      PROVE  bs * k + bs < fs
  <2>1. k \in Nat /\ k + 1 \in Nat /\ nb - 1 \in Nat /\ k + 1 <= nb - 1
    BY <1>1, <1>7, <1>9
  <2>2. bs * (k + 1) <= bs * (nb - 1)
    <3> DEFINE y == nb - 1
               x == k + 1
    <3>1. x \in Nat /\ y \in Nat /\ x <= y
      BY <2>1
    <3> HIDE DEF x, y
    <3>2. bs * x <= bs * y
      BY <1>1, <3>1, Monotonic
    <3> QED BY <3>2 DEF x, y
  <2>3. bs * (k + 1) = bs * k + bs
    BY <1>1, <2>1, Successor
  <2> QED BY <1>1, <1>5, <1>8, <2>2, <2>3
<1> QED BY <1>4, <1>7, <1>8, <1>9 DEF n, m, last, nb, bs, fs, k
-----------------------------------------------------------------------------
(* LoadFile                                                                *)

LEMMA ReadIs ==
    ASSUME ParamsOK, NEW g \in Gens
    PROVE  /\ GenSize(g) = block_size * (num_blocks_gen[g] - 1) + block_size
           /\ GenSize(g) \in Nat
           /\ ReadCount(g) = IF g = num_gens - 1 THEN file_size - Pos(g) ELSE GenSize(g)
           /\ LastGen(g) <=> g = num_gens - 1
           /\ ReadAccepted(g)
<1> DEFINE m == num_blocks_gen[g]
           bs == block_size
           fs == file_size
           i == m - 1
           k == num_blocks_gen[0] * g + i
           size == GenSize(g)
           pos == Pos(g)
           last == num_gens - 1
           nb == num_blocks
<1>1. m \in Nat \ {0} /\ bs \in Nat \ {0} /\ fs \in Nat /\ last \in Int /\ nb \in Nat
  BY LayoutIs DEF ParamsOK
<1>2. i \in 0..m - 1 /\ i + 1 = m /\ i \in Nat
  BY <1>1
<1>3. /\ k = nb - 1 <=> g = last /\ i = m - 1
      /\ pos \in Nat /\ bs * i \in Nat /\ bs * k \in Nat
      /\ pos + bs * i = bs * k
      /\ k # nb - 1 => bs * k + bs < fs
  <2> HIDE DEF i
  <2> QED BY <1>2, BlockNumber
<1>4. bs * (nb - 1) < fs /\ fs <= bs * (nb - 1) + bs
  BY LastBlock
<1>5. size = bs * m
  BY DEF GenSize
<1>6. ReadCount(g) = IF fs - pos < size THEN fs - pos ELSE size
  BY DEF ReadCount
<1>7. LastGen(g) <=> ReadCount(g) + pos = fs /\ g = last
  BY DEF LastGen
<1>8. ReadAccepted(g) <=> LastGen(g) \/ ReadCount(g) = size
  BY DEF ReadAccepted
<1> HIDE DEF m, bs, fs, k, size, pos, last, nb
<1>9. size = bs * i + bs /\ size \in Nat
  <2> HIDE DEF i
  <2>1. bs * (i + 1) = bs * i + bs
    BY <1>1, <1>2, Successor
  <2> QED BY <1>1, <1>2, <1>3, <1>5, <2>1
<1> USE DEF i
<1>10. CASE g = last
  <2>1. k = nb - 1
    BY <1>3, <1>10
  <2>2. bs * k < fs /\ fs <= bs * k + bs
    BY <1>4, <2>1
  <2> DEFINE u == bs * i
             v == bs * k
  <2>3. u \in Nat /\ v \in Nat /\ pos + u = v /\ v < fs /\ fs <= v + bs /\ size = u + bs
    BY <1>3, <1>9, <2>2
  <2> HIDE DEF u, v
  <2>4. fs - pos <= size
    BY <1>1, <1>3, <2>3
  <2>5. ReadCount(g) = fs - pos
    BY <1>1, <1>3, <1>6, <1>9, <2>4
  <2>6. LastGen(g)
    BY <1>1, <1>3, <1>7, <1>10, <2>5
  <2> QED BY <1>8, <1>9, <1>10, <2>5, <2>6 DEF m, bs, fs, size, pos, last
<1>11. CASE g # last
  <2>1. bs * k + bs < fs
    BY <1>3, <1>11
  <2> DEFINE u == bs * i
             v == bs * k
  <2>2. u \in Nat /\ v \in Nat /\ pos + u = v /\ v + bs < fs /\ size = u + bs
    BY <1>3, <1>9, <2>1
  <2> HIDE DEF u, v
  <2>3. ~(fs - pos < size)
    BY <1>1, <1>3, <2>2
  <2>4. ReadCount(g) = size
    BY <1>6, <2>3
  <2> QED BY <1>7, <1>8, <1>9, <1>11, <2>4 DEF m, bs, fs, size, pos, last
<1> QED BY <1>10, <1>11

\* Every block LoadFile makes is the file's, padded where the file ends.
LEMMA LoadBlockIs ==
    ASSUME ParamsOK, NEW g \in Gens, NEW i \in 0..num_blocks_gen[g] - 1
    PROVE  LoadBlock(g, i) = FileBlock(num_blocks_gen[0] * g + i)
<1> DEFINE m == num_blocks_gen[g]
           bs == block_size
           fs == file_size
           k == num_blocks_gen[0] * g + i
           size == GenSize(g)
           pos == Pos(g)
           last == num_gens - 1
           nb == num_blocks
           read == ReadCount(g)
           stop == IF LastGen(g) /\ i = m - 1 THEN read - (m - 1) * bs ELSE bs
<1>1. m \in Nat \ {0} /\ bs \in Nat \ {0} /\ fs \in Nat /\ nb \in Nat \ {0}
  BY LayoutIs DEF ParamsOK
<1>2. /\ k = nb - 1 <=> g = last /\ i = m - 1
      /\ pos \in Nat /\ bs * i \in Nat /\ bs * k \in Nat
      /\ pos + bs * i = bs * k
      /\ k # nb - 1 => bs * k + bs < fs
  BY BlockNumber
<1>3. bs * (nb - 1) < fs /\ fs <= bs * (nb - 1) + bs
  BY LastBlock
<1>4. /\ size = bs * (m - 1) + bs /\ size \in Nat
      /\ read = IF g = last THEN fs - pos ELSE size
      /\ LastGen(g) <=> g = last
  BY ReadIs
<1>5. LoadBlock(g, i) = [j \in 0..bs - 1 |-> IF j < stop THEN fbuf(g, bs * i + j) ELSE Pad]
  BY DEF LoadBlock
<1>6. FileBlock(k) = [j \in 0..bs - 1 |-> IF k * bs + j < fs THEN k * bs + j ELSE Pad]
  BY DEF FileBlock
<1>7. \A x : fbuf(g, x) = IF x < read THEN pos + x ELSE Junk
  BY DEF fbuf
<1>8. i \in 0..m - 1
  OBVIOUS
<1>9. k * bs = bs * k /\ (m - 1) * bs = bs * (m - 1) /\ k \in Nat /\ i \in Nat /\ m - 1 \in Nat
  <2>1. k \in Nat
    BY BlockNumber, <1>1
  <2>2. \A x, y \in Nat : x * y = y * x
    OBVIOUS
  <2>3. i \in Nat /\ m - 1 \in Nat
    BY <1>1, <1>8
  <2> HIDE DEF k
  <2> QED BY <1>1, <2>1, <2>2, <2>3
<1> HIDE DEF m, bs, fs, k, size, pos, last, nb, read
<1> DEFINE u == bs * i
           v == bs * k
           w == bs * (m - 1)
<1>10. /\ u \in Nat /\ v \in Nat /\ pos + u = v /\ k * bs = v
       /\ size = w + bs /\ (m - 1) * bs = w
       /\ k # nb - 1 => v + bs < fs
       /\ k = nb - 1 => v < fs /\ fs <= v + bs
       /\ i = m - 1 => u = w
       /\ w \in Nat
  BY <1>1, <1>2, <1>3, <1>4, <1>9, Monotonic
<1>11. i # m - 1 => u + bs <= w
  <2> SUFFICES ASSUME i # m - 1 PROVE u + bs <= w
    OBVIOUS
  <2>1. i + 1 \in Nat /\ i + 1 <= m - 1
    BY <1>1, <1>8
  <2>2. bs * (i + 1) <= bs * (m - 1)
    <3> DEFINE x == i + 1
               y == m - 1
    <3>1. x \in Nat /\ y \in Nat /\ x <= y
      BY <1>9, <2>1
    <3> HIDE DEF x, y
    <3>2. bs * x <= bs * y
      BY <1>1, <3>1, Monotonic
    <3> QED BY <3>2 DEF x, y
  <2>3. bs * (i + 1) = bs * i + bs
    BY <1>1, <1>9, Successor
  <2> QED BY <2>2, <2>3
<1> HIDE DEF u, v, w
<1>12. stop = IF g = last /\ i = m - 1 THEN read - w ELSE bs
  BY <1>4, <1>10
<1>13. ASSUME NEW j \in 0..bs - 1
       PROVE  (IF j < stop THEN fbuf(g, bs * i + j) ELSE Pad)
                = IF k * bs + j < fs THEN k * bs + j ELSE Pad
  <2>1. fbuf(g, bs * i + j) = IF u + j < read THEN pos + (u + j) ELSE Junk
    BY <1>7 DEF u
  <2>2. pos + (u + j) = v + j
    BY <1>1, <1>2, <1>10
  <2> HIDE DEF stop
  <2>3. CASE g = last /\ i = m - 1
    <3>1. k = nb - 1 /\ u = w /\ read = fs - pos /\ stop = read - w
      BY <1>2, <1>4, <1>10, <1>12, <2>3
    <3>2. j < stop <=> v + j < fs
      BY <1>1, <1>2, <1>10, <3>1
    <3>3. u + j < read <=> v + j < fs
      BY <1>1, <1>2, <1>10, <3>1
    <3> QED BY <1>10, <2>1, <2>2, <3>2, <3>3
  <2>4. CASE ~(g = last /\ i = m - 1)
    <3>1. k # nb - 1 /\ stop = bs
      BY <1>2, <1>12, <2>4
    <3>2. j < stop /\ v + j < fs
      BY <1>1, <1>10, <3>1
    <3>3. u + j < read
      <4>1. CASE g = last
        <5>1. read = fs - pos
          BY <1>4, <4>1
        <5> QED BY <1>1, <1>2, <1>10, <3>2, <5>1
      <4>2. CASE g # last
        <5>1. read = w + bs
          BY <1>4, <1>10, <4>2
        <5>2. u <= w
          BY <1>1, <1>10, <1>11
        <5> QED BY <1>1, <1>10, <5>1, <5>2
      <4> QED BY <4>1, <4>2
    <3> QED BY <1>10, <2>1, <2>2, <3>2, <3>3
  <2> QED BY <2>3, <2>4
<1>14. LoadBlock(g, i) = FileBlock(k)
  <2> HIDE DEF stop
  <2> QED BY <1>5, <1>6, <1>13
<1> QED BY <1>14 DEF k

\* However the file's end falls inside its last block, the read that fills a
\* generation is complete or ends at the file's end, in the last generation:
\* LoadFile never aborts, for a file, blocks and generations of any size
\* (codetorrent.cpp:399-415).
THEOREM ReadsComplete == Spec => []NoShortRead
<1>1. ParamsOK => NoShortRead
  BY ReadIs DEF NoShortRead
<1> QED BY <1>1, ParamsInvariant, PTL
-----------------------------------------------------------------------------
(* The encoder.                                                            *)

EncoderInv ==
    /\ ParamsOK /\ TypeOK
    /\ gen_in_memory # -1 => data = LoadBlocks(gen_in_memory)

\* What was given on the command line determines the layout and the file.
LEMMA SameLayout ==
    ASSUME UNCHANGED params
    PROVE  /\ ParamsOK' <=> ParamsOK
           /\ UNCHANGED <<file_size, block_size, per_gen, fopen, num_blocks, num_blocks_gen,
                          num_gens, Gens, client_num_blocks_gen>>
           /\ \A g : LoadBlocks(g)' = LoadBlocks(g)
           /\ \A k : FileBlock(k)' = FileBlock(k)
<1>1. UNCHANGED <<file_size, block_size, per_gen, fopen>>
  BY DEF params
<1>2. UNCHANGED num_blocks
  BY <1>1 DEF num_blocks
<1>3. UNCHANGED num_blocks_gen
  BY <1>1, <1>2 DEF num_blocks_gen
<1>4. UNCHANGED num_gens /\ UNCHANGED client_num_blocks_gen
  BY <1>2, <1>3 DEF num_gens, client_num_blocks_gen
<1>5. UNCHANGED Gens
  BY <1>4 DEF Gens
<1>6. \A g : Pos(g)' = Pos(g) /\ GenSize(g)' = GenSize(g)
  BY <1>1, <1>3 DEF Pos, GenSize
<1>7. \A g : ReadCount(g)' = ReadCount(g)
  BY <1>1, <1>6 DEF ReadCount
<1>8. /\ \A g : LastGen(g)' <=> LastGen(g)
      /\ \A g, k : fbuf(g, k)' = fbuf(g, k)
  BY <1>1, <1>4, <1>6, <1>7 DEF LastGen, fbuf
<1>9. \A g, i : LoadBlock(g, i)' = LoadBlock(g, i)
  BY <1>1, <1>3, <1>7, <1>8 DEF LoadBlock
<1>10. \A g : LoadBlocks(g)' = LoadBlocks(g)
  BY <1>3, <1>9 DEF LoadBlocks
<1>11. \A k : FileBlock(k)' = FileBlock(k)
  BY <1>1 DEF FileBlock
<1> QED BY <1>1, <1>2, <1>3, <1>4, <1>5, <1>10, <1>11 DEF ParamsOK

\* After Encode the cache holds what gen_in_memory says, and that is the
\* generation asked for unless the load failed.
LEMMA CacheStep ==
    ASSUME EncoderInv, NEW g \in Gens, Encode(g)
    PROVE  /\ gen_in_memory' \in Gens \cup {-1}
           /\ gen_in_memory' # -1 => data' = LoadBlocks(gen_in_memory')
           /\ fopen = {TRUE} => gen_in_memory' = g
<1>1. CASE gen_in_memory = g /\ UNCHANGED <<data, gen_in_memory>>
  BY <1>1 DEF EncoderInv, TypeOK
<1>2. CASE data' = LoadBlocks(g) /\ gen_in_memory' = g
  BY <1>2
<1>3. CASE FALSE \in fopen /\ UNCHANGED <<data, gen_in_memory>>
  <2>1. fopen # {TRUE}
    BY <1>3, Zenon
  <2> QED BY <1>3, <2>1 DEF EncoderInv, TypeOK
<1> QED BY <1>1, <1>2, <1>3 DEF Encode, LoadFile

LEMMA EncoderNext == EncoderInv /\ [Next]_vars => EncoderInv'
<1> SUFFICES ASSUME EncoderInv, [Next]_vars PROVE EncoderInv'
  OBVIOUS
<1>1. UNCHANGED params
  BY DEF Next, Encode, DecodeGen, vars, params
<1>2. /\ ParamsOK' /\ UNCHANGED <<file_size, block_size, per_gen, fopen, num_gens, Gens>>
      /\ \A g : LoadBlocks(g)' = LoadBlocks(g)
  BY <1>1, SameLayout DEF EncoderInv
<1>3. ASSUME NEW g \in Gens, Encode(g)
      PROVE  EncoderInv'
  <2>1. /\ gen_in_memory' \in Gens \cup {-1}
        /\ gen_in_memory' # -1 => data' = LoadBlocks(gen_in_memory')
    BY <1>3, CacheStep
  <2>2. cb_to'.gen = g /\ UNCHANGED decoded
    BY <1>3 DEF Encode, client
  <2> QED BY <1>2, <2>1, <2>2 DEF EncoderInv, TypeOK
<1>4. CASE DecodeGen
  <2>1. UNCHANGED <<data, gen_in_memory, cb_to>> /\ decoded \in Gens /\ decoded' = decoded + 1
    BY <1>4, LayoutIs DEF DecodeGen, ClientGens, encoder, EncoderInv
  <2>2. decoded' \in 0..num_gens
    BY <2>1, LayoutIs DEF Gens, EncoderInv
  <2> QED BY <1>2, <2>1, <2>2 DEF EncoderInv, TypeOK
<1>5. CASE UNCHANGED vars
  BY <1>2, <1>5 DEF EncoderInv, TypeOK, vars, encoder, client
<1> QED BY <1>3, <1>4, <1>5 DEF Next

LEMMA EncoderInit == Init => EncoderInv
<1> SUFFICES ASSUME Init PROVE EncoderInv
  OBVIOUS
<1>1. ParamsOK
  BY BoundsAssumption DEF Init, ParamsOK
<1>2. cb_to.gen = -1
  BY DEF Init, NoBlock
<1>3. 0 \in 0..num_gens
  BY <1>1, LayoutIs
<1> QED BY <1>1, <1>2, <1>3 DEF EncoderInv, TypeOK, Init

LEMMA EncoderInvariance == Spec => []EncoderInv
  BY EncoderInit, EncoderNext, PTL DEF Spec

\* The variables stay in the ranges the declarations give them, for every
\* command line.
THEOREM FileTypes == Spec => []TypeOK
<1>1. EncoderInv => TypeOK
  BY DEF EncoderInv
<1> QED BY <1>1, EncoderInvariance, PTL

\* The block Encode labels with a generation combines that generation's source
\* blocks, whichever generations were asked for before, on every node that can
\* open the file, and on one that sometimes cannot whenever gen_in_memory says
\* so (codetorrent.cpp:376-378, 420, 454, 614-616).
THEOREM EncoderCorrect == Spec => []EncodesItsGeneration
<1>1. Init => EncodesItsGeneration
  BY DEF Init, EncodesItsGeneration, NoBlock
<1>2. EncoderInv /\ EncodesItsGeneration /\ [Next]_vars => EncodesItsGeneration'
  <2> DEFINE combined == [i \in DOMAIN cb_to.combines |->
                            FileBlock(cb_to.gen * num_blocks_gen[0] + i)]
  <2> SUFFICES ASSUME EncoderInv, EncodesItsGeneration, [Next]_vars,
                      cb_to'.gen # -1, fopen' = {TRUE} \/ gen_in_memory' = cb_to'.gen
               PROVE  (cb_to.combines = combined)'
    BY DEF EncodesItsGeneration
  <2>1. UNCHANGED params
    BY DEF Next, Encode, DecodeGen, vars, params
  <2>2. UNCHANGED <<fopen, file_size, block_size, num_blocks_gen>>
    BY <2>1, SameLayout
  <2>3. CASE UNCHANGED <<cb_to, gen_in_memory>>
    <3>1. cb_to.combines = combined
      BY <2>2, <2>3 DEF EncodesItsGeneration
    <3> QED BY <2>2, <2>3, <3>1 DEF FileBlock
  <2>4. ASSUME NEW g \in Gens, Encode(g)
        PROVE  (cb_to.combines = combined)'
    <3> DEFINE n == num_blocks_gen[0]
               m == num_blocks_gen[g]
    <3>1. cb_to'.gen = g /\ cb_to'.combines = Combined(data', g)
      BY <2>4 DEF Encode
    <3>2. gen_in_memory' = g
      BY <2>2, <2>4, <3>1, CacheStep
    <3>3. data' = LoadBlocks(g)
      <4>1. g # -1
        BY LayoutIs DEF Gens, EncoderInv
      <4> QED BY <2>4, <3>2, <4>1, CacheStep
    <3>4. \A i \in 0..m - 1 : LoadBlock(g, i) = FileBlock(n * g + i)
      BY LoadBlockIs DEF EncoderInv
    <3>5. data' = [i \in 0..m - 1 |-> LoadBlock(g, i)]
      BY <3>3 DEF LoadBlocks
    <3>6. Combined(data', g) = [i \in 0..m - 1 |-> FileBlock(n * g + i)]
      BY <3>4, <3>5 DEF Combined
    <3>7. g * n = n * g
      <4>1. n \in Nat /\ g \in Int
        BY LayoutIs DEF Gens, EncoderInv
      <4> HIDE DEF n
      <4> QED BY <4>1
    <3> HIDE DEF n, m
    <3>8. cb_to'.combines = [i \in DOMAIN cb_to'.combines |-> FileBlock(g * n + i)]
      BY <3>1, <3>6, <3>7
    <3>9. combined' = [i \in DOMAIN cb_to'.combines |-> FileBlock(g * n + i)]
      BY <2>2, <3>1 DEF FileBlock, n
    <3> QED BY <3>8, <3>9
  <2>5. CASE DecodeGen
    BY <2>3, <2>5 DEF DecodeGen, encoder
  <2>6. CASE UNCHANGED vars
    BY <2>3, <2>6 DEF vars, encoder
  <2> QED BY <2>4, <2>5, <2>6 DEF Next
<1> QED BY <1>1, <1>2, EncoderInvariance, PTL DEF Spec
-----------------------------------------------------------------------------
(* The client's output file.                                               *)

\* How many bytes of the file lie before block k.
Bytes(k) == IF block_size * k < file_size THEN block_size * k ELSE file_size

\* s is the file's beginning, len bytes of it.
Prefix(s, len) == s \in Seq(Int) /\ Len(s) = len /\ \A k \in 1..len : s[k] = k - 1

\* What WriteFile writes of a block.
Piece(g, j) == [k \in 1..WriteSize(g, j) |-> LoadBlock(g, j)[k - 1]]

LEMMA WriteSizeIs ==
    ASSUME ParamsOK, NEW g \in Gens, NEW j \in 0..num_blocks_gen[g] - 1
    PROVE  LET k == num_blocks_gen[0] * g + j
           IN  /\ WriteSize(g, j) \in 1..block_size
               /\ Bytes(k) = block_size * k /\ Bytes(k) \in Nat
               /\ Bytes(k + 1) = Bytes(k) + WriteSize(g, j)
               /\ Bytes(k + 1) <= file_size
<1> DEFINE n == num_blocks_gen[0]
           m == num_blocks_gen[g]
           last == num_gens - 1
           nb == num_blocks
           bs == block_size
           fs == file_size
           k == n * g + j
           size == WriteSize(g, j)
<1>1. /\ bs \in Nat \ {0} /\ fs \in Nat \ {0} /\ nb \in Nat \ {0} /\ n \in Nat /\ m \in Nat \ {0}
      /\ last \in Gens /\ BlocksBefore(num_blocks_gen, last) = n * last
      /\ client_num_blocks_gen = num_blocks_gen /\ ClientGens = Gens
      /\ last \in Nat
  BY LayoutIs DEF ParamsOK, ClientGens
<1>2. /\ k \in 0..nb - 1
      /\ k = nb - 1 <=> g = last /\ j = m - 1
      /\ bs * k \in Nat
      /\ k # nb - 1 => bs * k + bs < fs
  BY BlockNumber
<1>3. bs * (nb - 1) < fs /\ fs <= bs * (nb - 1) + bs
  BY LastBlock
<1>4. size = IF g = last /\ j = m - 1 THEN fs - (n * last + m - 1) * bs ELSE bs
  <2>1. Cardinality(ClientGens) - 1 = last
    BY <1>1 DEF ClientGens, num_gens
  <2> QED BY <1>1, <2>1 DEF WriteSize
<1>5. \A x : Bytes(x) = IF bs * x < fs THEN bs * x ELSE fs
  BY DEF Bytes
<1>6. j \in 0..m - 1
  OBVIOUS
<1>7. g = last /\ j = m - 1 => k = n * last + m - 1
  <2>1. n * last \in Nat
    BY <1>1, Monotonic
  <2> DEFINE x == n * last
  <2> HIDE DEF x, m
  <2>2. x + (m - 1) = x + m - 1
    BY <1>1, <2>1 DEF x
  <2> QED BY <2>2 DEF x
<1> HIDE DEF n, m, last, nb, bs, fs, k, size
<1>8. k \in Nat /\ bs * (k + 1) = bs * k + bs /\ k * bs = bs * k
  <2>1. k \in Nat
    BY <1>1, <1>2
  <2>2. bs * (k + 1) = bs * k + bs
    BY <1>1, <2>1, Successor
  <2>3. \A x, y \in Nat : x * y = y * x
    OBVIOUS
  <2> QED BY <1>1, <2>1, <2>2, <2>3
<1> DEFINE v == bs * k
<1>9. v \in Nat /\ bs * (k + 1) = v + bs /\ k * bs = v
  BY <1>2, <1>8
<1>10. CASE k = nb - 1
  <2>1. v < fs /\ fs <= v + bs
    BY <1>3, <1>10
  <2>2. size = fs - v
    BY <1>2, <1>4, <1>7, <1>9, <1>10
  <2> HIDE DEF v
  <2>3. size \in 1..bs /\ fs = v + size
    BY <1>1, <1>9, <2>1, <2>2
  <2>4. Bytes(k) = v
    BY <1>5, <2>1 DEF v
  <2>5. Bytes(k + 1) = fs
    BY <1>1, <1>5, <1>9, <2>1
  <2> QED BY <1>1, <1>9, <2>3, <2>4, <2>5 DEF k, n, bs, fs, size, v
<1>11. CASE k # nb - 1
  <2>1. v + bs < fs
    BY <1>2, <1>11
  <2>2. size = bs
    BY <1>2, <1>4, <1>11
  <2> HIDE DEF v
  <2>3. v < fs
    BY <1>1, <1>9, <2>1
  <2>4. Bytes(k) = v
    BY <1>5, <2>3 DEF v
  <2>5. Bytes(k + 1) = v + bs
    BY <1>5, <1>9, <2>1
  <2>6. bs \in 1..bs /\ v + bs <= fs
    BY <1>1, <1>9, <2>1
  <2> QED BY <1>9, <2>2, <2>4, <2>5, <2>6 DEF k, n, bs, fs, size, v
<1> QED BY <1>10, <1>11

\* The bytes of a block that are written are those of the file.
LEMMA PieceIs ==
    ASSUME ParamsOK, NEW g \in Gens, NEW j \in 0..num_blocks_gen[g] - 1
    PROVE  LET k == num_blocks_gen[0] * g + j
           IN  /\ Piece(g, j) \in Seq(Int) /\ Len(Piece(g, j)) = WriteSize(g, j)
               /\ \A x \in 1..WriteSize(g, j) : Piece(g, j)[x] = Bytes(k) + x - 1
<1> DEFINE bs == block_size
           fs == file_size
           k == num_blocks_gen[0] * g + j
           size == WriteSize(g, j)
           v == Bytes(k)
           block == LoadBlock(g, j)
<1>1. /\ size \in 1..bs /\ v = bs * k /\ v \in Nat
      /\ Bytes(k + 1) = v + size /\ Bytes(k + 1) <= fs
  BY WriteSizeIs
<1>2. block = FileBlock(k)
  BY LoadBlockIs
<1>3. bs \in Nat /\ fs \in Nat /\ k \in Nat
  <2>1. k \in 0..num_blocks - 1
    BY BlockNumber
  <2> QED BY <2>1, LayoutIs DEF ParamsOK
<1>4. FileBlock(k) = [i \in 0..bs - 1 |-> IF k * bs + i < fs THEN k * bs + i ELSE Pad]
  BY DEF FileBlock
<1>5. Piece(g, j) = [x \in 1..size |-> block[x - 1]]
  BY DEF Piece
<1> HIDE DEF bs, fs, k, size, v, block
<1>6. k * bs = v
  <2>1. \A x, y \in Nat : x * y = y * x
    OBVIOUS
  <2> QED BY <1>1, <1>3, <2>1
<1>7. ASSUME NEW x \in 1..size
      PROVE  block[x - 1] = v + x - 1
  <2>1. x - 1 \in 0..bs - 1 /\ v + (x - 1) < fs
    BY <1>1, <1>3
  <2>2. block[x - 1] = v + (x - 1)
    BY <1>2, <1>4, <1>6, <2>1
  <2> QED BY <1>1, <2>2
<1>8. size \in Nat /\ \A x \in 1..size : v + x - 1 \in Int
  BY <1>1, <1>3
<1>9. Piece(g, j) = [x \in 1..size |-> v + x - 1]
  BY <1>5, <1>7
<1>10. Piece(g, j) \in Seq(Int) /\ Len(Piece(g, j)) = size
  BY <1>8, <1>9
<1> QED BY <1>9, <1>10 DEF k, v, size
\* The loop of WriteFile, for the blocks of generation g.
Appended(w, g) ==
    CHOOSE append : append = [j \in 0..num_blocks_gen[g] |->
        IF j = 0 THEN w ELSE append[j - 1] \o Piece(g, j - 1)]

LEMMA AppendedSteps ==
    ASSUME ParamsOK, NEW g \in Gens, NEW w \in Seq(Int)
    PROVE  /\ Appended(w, g)[0] = w
           /\ \A j \in 0..num_blocks_gen[g] - 1 :
                Appended(w, g)[j + 1] = Appended(w, g)[j] \o Piece(g, j)
<1> DEFINE m == num_blocks_gen[g]
           step == [j \in 1..m |-> [s \in Seq(Int) |-> s \o Piece(g, j - 1)]]
<1>1. m \in Nat /\ \A j \in 0..m - 1 : Piece(g, j) \in Seq(Int)
  BY LayoutIs, PieceIs
<1>2. Appended(w, g) = CHOOSE append : append = [j \in 0..m |->
                            IF j = 0 THEN w ELSE append[j - 1] \o Piece(g, j - 1)]
  BY DEF Appended
<1> HIDE DEF m
<1>3. step \in Steps(m, Seq(Int))
  <2>1. ASSUME NEW j \in 1..m, NEW s \in Seq(Int)
        PROVE  s \o Piece(g, j - 1) \in Seq(Int)
    <3>1. j - 1 \in 0..m - 1
      BY <1>1
    <3>2. Piece(g, j - 1) \in Seq(Int)
      BY <1>1, <3>1
    <3> QED BY <3>2, ConcatProperties
  <2> QED BY <2>1 DEF Steps
<1>4. PICK f : Solves(f, m, Seq(Int), w, step)
  <2> HIDE DEF step
  <2> QED BY <1>1, <1>3, Recursion
<1>5. f = [j \in 0..m |-> IF j = 0 THEN w ELSE f[j - 1] \o Piece(g, j - 1)]
  <2>1. /\ f \in [0..m -> Seq(Int)] /\ f[0] = w
        /\ \A j \in 1..m : f[j] = step[j][f[j - 1]]
    BY <1>4 DEF Solves
  <2>2. ASSUME NEW j \in 1..m
        PROVE  f[j] = f[j - 1] \o Piece(g, j - 1)
    <3>1. f[j - 1] \in Seq(Int)
      BY <1>1, <2>1
    <3> QED BY <2>1, <3>1
  <2>3. \A j \in 0..m : j # 0 => j \in 1..m
    BY <1>1
  <2> HIDE DEF step
  <2> QED BY <2>1, <2>2, <2>3
<1> DEFINE a == Appended(w, g)
<1>6. a = [j \in 0..m |-> IF j = 0 THEN w ELSE a[j - 1] \o Piece(g, j - 1)]
  BY <1>2, <1>5, Zenon
<1> HIDE DEF a
<1>7. 0 \in 0..m /\ \A j \in 0..m - 1 : j + 1 \in 0..m /\ j + 1 # 0 /\ (j + 1) - 1 = j
  BY <1>1
<1>8. a[0] = w /\ \A j \in 0..m - 1 : a[j + 1] = a[j] \o Piece(g, j)
  BY <1>6, <1>7
<1> QED BY <1>8 DEF a, m

\* A prefix of the file and the file's next bytes are a prefix of the file.
LEMMA PrefixExtended ==
    ASSUME NEW u \in Nat, NEW s, Prefix(s, u), NEW t \in Seq(Int), NEW size \in Nat,
           Len(t) = size, \A x \in 1..size : t[x] = u + x - 1
    PROVE  Prefix(s \o t, u + size)
<1>1. s \in Seq(Int) /\ Len(s) = u /\ \A k \in 1..u : s[k] = k - 1
  BY DEF Prefix
<1>2. /\ s \o t \in Seq(Int) /\ Len(s \o t) = u + size
      /\ \A i \in 1..u + size : (s \o t)[i] = IF i <= u THEN s[i] ELSE t[i - u]
  BY <1>1, ConcatProperties
<1>3. ASSUME NEW i \in 1..u + size
      PROVE  (s \o t)[i] = i - 1
  <2>1. CASE i <= u
    BY <1>1, <1>2, <2>1
  <2>2. CASE ~(i <= u)
    <3>1. i - u \in 1..size /\ u + (i - u) - 1 = i - 1
      BY <2>2
    <3>2. t[i - u] = u + (i - u) - 1
      BY <3>1
    <3> QED BY <1>2, <2>2, <3>1, <3>2
  <2> QED BY <2>1, <2>2
<1> QED BY <1>2, <1>3 DEF Prefix

LEMMA GenerationWritten ==
    ASSUME ParamsOK, NEW g \in Gens, NEW w, Prefix(w, Bytes(num_blocks_gen[0] * g))
    PROVE  LET m == num_blocks_gen[g]
           IN  Prefix(Appended(w, g)[m], Bytes(num_blocks_gen[0] * g + m))
<1> DEFINE m == num_blocks_gen[g]
           x == num_blocks_gen[0] * g
           a == Appended(w, g)
           P == {j \in 0..m : Prefix(a[j], Bytes(x + j))}
<1>1. m \in Nat /\ x \in Nat
  BY LayoutIs, Monotonic DEF Gens
<1>2. w \in Seq(Int)
  BY DEF Prefix
<1>3. a[0] = w /\ \A j \in 0..m - 1 : a[j + 1] = a[j] \o Piece(g, j)
  BY <1>2, AppendedSteps
<1>4. ASSUME NEW j \in 0..m - 1
      PROVE  /\ Piece(g, j) \in Seq(Int) /\ Len(Piece(g, j)) = WriteSize(g, j)
             /\ \A y \in 1..WriteSize(g, j) : Piece(g, j)[y] = Bytes(x + j) + y - 1
             /\ WriteSize(g, j) \in Nat /\ Bytes(x + j) \in Nat
             /\ Bytes(x + j + 1) = Bytes(x + j) + WriteSize(g, j)
  <2>1. /\ Piece(g, j) \in Seq(Int) /\ Len(Piece(g, j)) = WriteSize(g, j)
        /\ \A y \in 1..WriteSize(g, j) : Piece(g, j)[y] = Bytes(x + j) + y - 1
    BY PieceIs
  <2>2. /\ WriteSize(g, j) \in 1..block_size /\ Bytes(x + j) \in Nat
        /\ Bytes(x + j + 1) = Bytes(x + j) + WriteSize(g, j)
    BY WriteSizeIs
  <2>3. WriteSize(g, j) \in Nat
    BY <2>2 DEF ParamsOK
  <2> QED BY <2>1, <2>2, <2>3
<1>5. Prefix(w, Bytes(x))
  OBVIOUS
<1> HIDE DEF m, x, a
<1>6. 0 \in P
  <2>1. x + 0 = x /\ 0 \in 0..m
    BY <1>1
  <2> QED BY <1>3, <1>5, <2>1
<1>7. ASSUME NEW j \in 0..m - 1, j \in P
      PROVE  j + 1 \in P
  <2> DEFINE u == Bytes(x + j)
             t == Piece(g, j)
             size == WriteSize(g, j)
             s == a[j]
  <2>1. Prefix(s, u) /\ j + 1 \in 0..m
    BY <1>1, <1>7
  <2>2. /\ t \in Seq(Int) /\ Len(t) = size /\ \A y \in 1..size : t[y] = u + y - 1
        /\ size \in Nat /\ u \in Nat /\ Bytes(x + j + 1) = u + size
    BY <1>4
  <2>3. a[j + 1] = s \o t
    BY <1>3
  <2> HIDE DEF u, t, size, s
  <2>4. Prefix(s \o t, u + size)
    BY <2>1, <2>2, PrefixExtended
  <2>5. x + (j + 1) = x + j + 1
    BY <1>1
  <2> QED BY <2>1, <2>2, <2>3, <2>4, <2>5
<1>8. 0..m \subseteq P
  <2> HIDE DEF P
  <2> QED BY <1>1, <1>6, <1>7, Induction
<1>9. Prefix(a[m], Bytes(x + m))
  BY <1>1, <1>8
<1> QED BY <1>9 DEF m, x, a

-----------------------------------------------------------------------------
\* The number of blocks in the first d generations.
Start(d) == IF d = num_gens THEN num_blocks ELSE num_blocks_gen[0] * d

OutputInv == Prefix(written, Bytes(Start(decoded)))

LEMMA BytesWhole ==
    ASSUME ParamsOK
    PROVE  Bytes(num_blocks) = file_size /\ Bytes(0) = 0
<1> DEFINE k == num_blocks - 1
           bs == block_size
<1>1. k \in Nat /\ k + 1 = num_blocks /\ bs \in Nat \ {0} /\ file_size \in Nat \ {0}
  BY LayoutIs DEF ParamsOK
<1>2. file_size <= bs * k + bs
  BY LastBlock
<1> HIDE DEF k, bs
<1>3. bs * (k + 1) = bs * k + bs /\ bs * k \in Nat
  BY <1>1, Successor
<1>4. ~(bs * num_blocks < file_size)
  BY <1>1, <1>2, <1>3
<1>5. bs * 0 = 0 /\ 0 < file_size
  BY <1>1
<1> QED BY <1>4, <1>5 DEF Bytes, bs

LEMMA OutputNext == EncoderInv /\ OutputInv /\ [Next]_vars => OutputInv'
<1> SUFFICES ASSUME EncoderInv, OutputInv, [Next]_vars PROVE OutputInv'
  OBVIOUS
<1>1. ParamsOK
  BY DEF EncoderInv
<1>2. UNCHANGED params
  BY DEF Next, Encode, DecodeGen, vars, params
<1>3. UNCHANGED <<file_size, block_size, num_blocks, num_blocks_gen, num_gens>>
  BY <1>2, SameLayout
<1>4. CASE UNCHANGED <<written, decoded>>
  BY <1>3, <1>4 DEF OutputInv, Prefix, Bytes, Start
<1>5. ASSUME NEW g \in Gens, Encode(g) PROVE UNCHANGED <<written, decoded>>
  BY <1>5 DEF Encode, client
<1>6. CASE DecodeGen
  <2> DEFINE g == decoded
             n == num_blocks_gen[0]
             m == num_blocks_gen[g]
  <2>1. /\ num_gens \in Nat \ {0} /\ n \in Nat /\ m \in Nat
        /\ g # num_gens - 1 => m = n
        /\ n * (num_gens - 1) + num_blocks_gen[num_gens - 1] = num_blocks
        /\ client_num_blocks_gen = num_blocks_gen /\ DOMAIN num_blocks_gen = Gens
        /\ g \in Gens
    BY <1>1, <1>6, LayoutIs DEF DecodeGen, ClientGens
  <2>2. WriteFile(g, LoadBlocks(g)) /\ decoded' = g + 1
    BY <1>6 DEF DecodeGen
  <2>3. g \in 0..num_gens - 1
    BY <2>1 DEF Gens
  <2>4. written' = Appended(written, g)[m]
    <3>1. \A j \in 0..m : j # 0 => j - 1 \in 0..m - 1
      BY <2>1
    <3>2. \A i \in 0..m - 1 : LoadBlocks(g)[i] = LoadBlock(g, i)
      BY DEF LoadBlocks
    <3> DEFINE piece(j) == [k \in 1..WriteSize(g, j) |-> LoadBlocks(g)[j][k - 1]]
    <3>3. \A i \in 0..m - 1 : piece(i) = Piece(g, i)
      BY <3>2 DEF Piece
    <3> DEFINE f == CHOOSE append : append = [j \in 0..m |->
                        IF j = 0 THEN written ELSE append[j - 1] \o piece(j - 1)]
    <3>4. written' = f[m]
      BY <2>1, <2>2 DEF WriteFile
    <3> HIDE DEF piece
    <3>5. \A append : [j \in 0..m |-> IF j = 0 THEN written ELSE append[j - 1] \o piece(j - 1)]
                = [j \in 0..m |-> IF j = 0 THEN written ELSE append[j - 1] \o Piece(g, j - 1)]
      BY <3>1, <3>3
    <3>6. f = Appended(written, g)
      BY <3>5, Zenon DEF Appended
    <3> HIDE DEF f
    <3> QED BY <3>4, <3>6
  <2>5. Prefix(written, Bytes(n * g))
    <3>1. g # num_gens
      BY <2>1, <2>3
    <3> QED BY <3>1 DEF OutputInv, Start
  <2>6. Prefix(written', Bytes(n * g + m))
    BY <1>1, <2>1, <2>4, <2>5, GenerationWritten
  <2>7. Start(g + 1) = n * g + m
    <3>1. CASE g = num_gens - 1
      BY <2>1, <2>3, <3>1 DEF Start
    <3>2. CASE g # num_gens - 1
      <4>1. g + 1 # num_gens /\ m = n /\ g \in Nat
        BY <2>1, <2>3, <3>2
      <4>2. n * (g + 1) = n * g + n
        <5> HIDE DEF n
        <5> QED BY <2>1, <4>1, Successor
      <4> QED BY <4>1, <4>2 DEF Start
    <3> QED BY <3>1, <3>2
  <2>8. Prefix(written', Bytes(Start(g + 1)))
    BY <2>6, <2>7
  <2> QED BY <1>3, <2>2, <2>8 DEF OutputInv, Prefix, Bytes, Start
<1>7. CASE UNCHANGED vars
  BY <1>4, <1>7 DEF vars, client
<1> QED BY <1>4, <1>5, <1>6, <1>7 DEF Next

\* Whatever the sizes, the output file is at every moment the beginning of the
\* shared file, and all of it once every generation is decoded: padding never
\* reaches it and no byte is lost where generations or the file end
\* (codetorrent.cpp:522-552, 769-797).
THEOREM OutputCorrect == Spec => []OutputIsFilePrefix
<1>1. Init => OutputInv
  <2> SUFFICES ASSUME Init PROVE OutputInv
    OBVIOUS
  <2>1. ParamsOK
    BY EncoderInit DEF EncoderInv
  <2>2. written = <<>> /\ decoded = 0
    BY DEF Init
  <2>3. num_gens # 0 /\ num_blocks_gen[0] \in Nat
    BY <2>1, LayoutIs
  <2>4. num_blocks_gen[0] * 0 = 0
    BY <2>3
  <2>5. Bytes(Start(decoded)) = 0
    BY <2>1, <2>2, <2>3, <2>4, BytesWhole DEF Start
  <2>6. Prefix(<<>>, 0)
    BY EmptySeq DEF Prefix
  <2> QED BY <2>2, <2>5, <2>6 DEF OutputInv
<1>2. EncoderInv /\ OutputInv => OutputIsFilePrefix
  <2> SUFFICES ASSUME EncoderInv, OutputInv PROVE OutputIsFilePrefix
    OBVIOUS
  <2>1. \A k \in 1..Len(written) : written[k] = k - 1
    BY DEF OutputInv, Prefix
  <2>2. decoded = num_gens => Len(written) = file_size
    BY BytesWhole DEF OutputInv, Prefix, Start, EncoderInv
  <2> QED BY <2>1, <2>2 DEF OutputIsFilePrefix
<1> QED BY <1>1, <1>2, OutputNext, EncoderInvariance, PTL DEF Spec
=============================================================================

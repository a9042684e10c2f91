--------------------------- MODULE MCCodeTorrent ---------------------------
(***************************************************************************)
(* CodeTorrent over the field of four elements, small enough to enumerate  *)
(* vectors and large enough to have weights other than 0 and 1.  The field *)
(* is the one Galois builds for GF = 4, PP = 7.                            *)
(***************************************************************************)
EXTENDS CodeTorrentRefinement

GF4 == 0..3

\* Addition is exclusive or; 2 generates the multiplicative group.
Add4(x, y) == << <<0, 1, 2, 3>>, <<1, 0, 3, 2>>, <<2, 3, 0, 1>>, <<3, 2, 1, 0>> >>[x + 1][y + 1]
Log4 == <<0, 1, 2>>
ALog4 == <<1, 2, 3>>
Mul4(x, y) == IF x = 0 \/ y = 0 THEN 0 ELSE ALog4[((Log4[x] + Log4[y]) % 3) + 1]
Div4(x, y) == IF x = 0 \/ y = 0 THEN 0 ELSE ALog4[((Log4[x] + 3 - Log4[y]) % 3) + 1]

\* The shared file: block i of generation g is (g + i + 1) mod 4.
MCData == [g \in Gens |-> [i \in 0..num_blocks_gen[g] - 1 |-> (g + i + 1) % 4]]

\* A handful of vectors: two a seed may send, one a multiple of the first, one
\* re-encoded with a zero, and for the last generation both scalings of 1.
FewVectors(g) ==
    IF num_blocks_gen[g] = 2
    THEN {[i \in 0..1 |-> v[i + 1]] : v \in {<<1, 1>>, <<2, 2>>, <<1, 3>>}}
    ELSE {[i \in 0..0 |-> 1], [i \in 0..0 |-> 2]}

\* The fewest that fill every generation: two old blocks of a generation may
\* then stand for one block twice.
FewestVectors(g) ==
    IF num_blocks_gen[g] = 2
    THEN {[i \in 0..1 |-> v[i + 1]] : v \in {<<1, 1>>, <<1, 3>>}}
    ELSE {[i \in 0..0 |-> 2]}

\* For a generation of three: dense vectors as a seed sends, two of them
\* dependent, and re-encoded ones that start at a later column or not at 1.
TripleVectors(g) ==
    {[i \in 0..2 |-> v[i + 1]] :
        v \in {<<1, 1, 1>>, <<2, 2, 2>>, <<1, 2, 3>>, <<3, 1, 0>>, <<0, 2, 3>>, <<0, 0, 2>>}}
=============================================================================

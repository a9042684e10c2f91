------------------------------- MODULE FileIO -------------------------------
(***************************************************************************)
(* The disk side of CodeTorrent: the generation cache an encoder reads the *)
(* shared file through (LoadFile, Encode) and the output file a client     *)
(* writes generation by generation while it decodes (DecodeGen, WriteFile).*)
(*                                                                         *)
(* A byte of the shared file is named by its offset, so a block is a       *)
(* function from 0..block_size-1 to offsets, Pad and Junk.  Network coding *)
(* itself is the subject of module NC: here the block an encoder emits is  *)
(* the vector of source blocks it combines, and a decoded generation is    *)
(* the vector of blocks its encoder loaded.                                *)
(***************************************************************************)
EXTENDS Layout, Integers, Sequences, FiniteSets

CONSTANTS
    MaxFileSize, MaxBlockSize, MaxPerGen,  \* bounds on the command line's values
    Hosts                                  \* each the outcomes fopen(filename) has on a node:
                                           \*   {TRUE}        a seed
                                           \*   {TRUE, FALSE} a seed short of descriptors
                                           \*   {FALSE}       a client that finished: it holds
                                           \*                 filename.received, not filename

ASSUME BoundsAssumption ==
    /\ MaxFileSize \in Nat \ {0} /\ MaxBlockSize \in Nat \ {0} /\ MaxPerGen \in Nat \ {0}
    /\ Hosts \subseteq (SUBSET BOOLEAN) \ {{}}

VARIABLES
    file_size, block_size, per_gen,  \* what the seed was started with
    fopen,          \* what fopen(filename, "rb") may do on the encoding node
    data,           \* encoder: the blocks of one generation, [] if none
    gen_in_memory,  \* encoder: which generation data holds, -1 for none
    cb_to,          \* encoder: the coded block Encode returned last
    written,        \* client: bytes of out_filename
    decoded         \* client: generations DecodeGen has finished

params == <<file_size, block_size, per_gen, fopen>>
encoder == <<data, gen_in_memory, cb_to>>
client == <<written, decoded>>
vars == <<params, encoder, client>>

Pad == -1    \* a padding zero
Junk == -2   \* memory nobody wrote

NoBlock == [gen |-> -1, combines |-> <<>>]

num_blocks == NumBlocks(file_size, block_size)

\* The encoder's layout, and the one a client computes from CT_FileInfo.
num_blocks_gen == NumBlocksGen(num_blocks, per_gen)
\* (Mutant: CT_FileInfo carries the size of the last generation.)
client_num_blocks_gen_OfLast ==
    NumBlocksGen(num_blocks, num_blocks_gen[NumGens(num_blocks, per_gen) - 1])
client_num_blocks_gen == NumBlocksGen(num_blocks, num_blocks_gen[0])

num_gens_RoundedDown == num_blocks \div per_gen   \* mutant
num_gens == Cardinality(DOMAIN num_blocks_gen)
Gens == 0..num_gens - 1

\* The number of blocks before generation g (the loops that add up pos).
\* (Mutant: g's own blocks are counted too.)
BlocksBefore_Inclusive(nbg, g) ==
    LET pos[i \in 0..g + 1] == IF i = 0 THEN 0 ELSE pos[i - 1] + nbg[i - 1]
    IN  pos[g + 1]
BlocksBefore(nbg, g) ==
    LET pos[i \in 0..g] == IF i = 0 THEN 0 ELSE pos[i - 1] + nbg[i - 1]
    IN  pos[g]

-----------------------------------------------------------------------------
(* LoadFile                                                                *)

GenSize(g) == block_size * num_blocks_gen[g]
Pos(g) == block_size * BlocksBefore(num_blocks_gen, g)

\* fread's result
ReadCount(g) == IF file_size - Pos(g) < GenSize(g) THEN file_size - Pos(g) ELSE GenSize(g)

LastGen(g) == ReadCount(g) + Pos(g) = file_size /\ g = num_gens - 1

\* LoadFile aborts the process unless this holds.
ReadAccepted(g) == LastGen(g) \/ ReadCount(g) = GenSize(g)

fbuf(g, k) == IF k < ReadCount(g) THEN Pos(g) + k ELSE Junk

LoadBlock(g, i) ==
    LET last_block_size == ReadCount(g) - (num_blocks_gen[g] - 1) * block_size
        stop == IF LastGen(g) /\ i = num_blocks_gen[g] - 1 THEN last_block_size ELSE block_size
    IN  [j \in 0..block_size - 1 |-> IF j < stop THEN fbuf(g, block_size * i + j) ELSE Pad]

LoadBlocks(g) == [i \in 0..num_blocks_gen[g] - 1 |-> LoadBlock(g, i)]

\* A failed fopen returns before CleanData: the cache keeps its old generation.
LoadFile(g) ==
    \/ /\ TRUE \in fopen
       /\ ReadAccepted(g)
       /\ data' = LoadBlocks(g)
       /\ gen_in_memory' = g
    \/ /\ FALSE \in fopen
       /\ UNCHANGED <<data, gen_in_memory>>

\* EncodeBlock reads data[0..num_blocks_gen[g]-1], whatever data holds.
Combined(blocks, g) ==
    [i \in 0..num_blocks_gen[g] - 1 |->
        IF i \in DOMAIN blocks THEN blocks[i] ELSE [j \in 0..block_size - 1 |-> Junk]]

\* Mutant: the cache test asks whether anything is loaded, not what.
Encode_AnyLoaded(g) ==
    /\ IF gen_in_memory = -1 THEN LoadFile(g) ELSE UNCHANGED <<data, gen_in_memory>>
    /\ cb_to' = [gen |-> g, combines |-> Combined(data', g)]
    /\ UNCHANGED <<params, client>>

Encode(g) ==
    /\ IF gen_in_memory # g THEN LoadFile(g) ELSE UNCHANGED <<data, gen_in_memory>>
    /\ cb_to' = [gen |-> g, combines |-> Combined(data', g)]
    /\ UNCHANGED <<params, client>>

-----------------------------------------------------------------------------
(* DecodeGen: Decode's loop calls it for 0, 1, ..., num_gens-1             *)

ClientGens == DOMAIN client_num_blocks_gen

\* What fwrite takes of block j of m_gdata.  (Mutant: the padding as well.)
WriteSize_Padded(g, j) == block_size
WriteSize(g, j) ==
    LET last == Cardinality(ClientGens) - 1
    IN  IF g = last /\ j = client_num_blocks_gen[g] - 1
        THEN file_size - (BlocksBefore(client_num_blocks_gen, last)
                            + client_num_blocks_gen[g] - 1) * block_size
        ELSE block_size

\* The file is opened with "ab": every byte goes to the end.
WriteFile(g, m_gdata) ==
    LET append[j \in 0..client_num_blocks_gen[g]] ==
            IF j = 0 THEN written
            ELSE append[j - 1] \o [k \in 1..WriteSize(g, j - 1) |-> m_gdata[j - 1][k - 1]]
    IN  written' = append[client_num_blocks_gen[g]]

DecodeGen ==
    /\ decoded \in ClientGens
    /\ WriteFile(decoded, LoadBlocks(decoded))
    /\ decoded' = decoded + 1
    /\ UNCHANGED <<params, encoder>>

-----------------------------------------------------------------------------
Init ==
    /\ file_size \in 1..MaxFileSize
    /\ block_size \in 1..MaxBlockSize
    /\ per_gen \in 1..MaxPerGen
    /\ fopen \in Hosts
    /\ data = <<>> /\ gen_in_memory = -1 /\ cb_to = NoBlock
    /\ written = <<>> /\ decoded = 0

Next ==
    \/ \E g \in Gens : Encode(g)
    \/ DecodeGen

Spec == Init /\ [][Next]_vars

-----------------------------------------------------------------------------
\* The variables stay in the ranges the declarations give them.
TypeOK ==
    /\ file_size \in 1..MaxFileSize /\ block_size \in 1..MaxBlockSize /\ per_gen \in 1..MaxPerGen
    /\ fopen \in Hosts
    /\ gen_in_memory \in Gens \cup {-1}
    /\ cb_to.gen \in Gens \cup {-1}
    /\ decoded \in 0..num_gens

\* The client never learns the seed's blocks-per-generation, only the size of
\* generation 0, which is smaller when the whole file fits one generation; the
\* two nodes still cut the file in the same way (pack, main.cpp:477; client
\* Init, codetorrent.cpp:234-256).
ClientLayoutAgrees == client_num_blocks_gen = num_blocks_gen

\* No generation is empty and generation 0 is as large as any: cb and m_gdata
\* are allocated with num_blocks_gen[0] entries and used for every generation
\* (codetorrent.cpp:186-187, 195, 258-259, 291).
FirstGenerationLargest == \A g \in Gens : num_blocks_gen[g] \in 1..num_blocks_gen[0]

\* LoadFile never meets the short read that makes it abort, whatever the
\* generation and however the file's end falls inside its last block
\* (codetorrent.cpp:399-415).
NoShortRead == \A g \in Gens : ReadAccepted(g)

\* Block k of the file: its bytes, padded in the last block.
FileBlock(k) ==
    [j \in 0..block_size - 1 |->
        IF k * block_size + j < file_size THEN k * block_size + j ELSE Pad]

\* The block Encode labels with a generation combines the blocks of that generation,
\* on every node that can open the file, and on one that sometimes cannot whenever
\* gen_in_memory says so: a failed load leaves the cache as it was, never one
\* generation's number beside another's data (codetorrent.cpp:376-378, 420, 454,
\* 614-616).
EncodesItsGeneration ==
    cb_to.gen # -1 /\ (fopen = {TRUE} \/ gen_in_memory = cb_to.gen) =>
        cb_to.combines = [i \in DOMAIN cb_to.combines |->
                            FileBlock(cb_to.gen * num_blocks_gen[0] + i)]

\* The output file is at every moment a prefix of the shared file, and the
\* whole of it once every generation is decoded: padding never reaches it and
\* no byte is lost at a generation or file boundary.
OutputIsFilePrefix ==
    /\ \A k \in 1..Len(written) : written[k] = k - 1
    /\ decoded = num_gens => Len(written) = file_size
=============================================================================

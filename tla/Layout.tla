------------------------------- MODULE Layout -------------------------------
(***************************************************************************)
(* How a file is cut into blocks and the blocks into generations.  Seed    *)
(* (LoadFileInfo) and client (the client Init) run the same arithmetic on  *)
(* different inputs: the seed on the command line's blocks-per-generation, *)
(* the client on the num_blocks_gen[0] that a CT_FILEINFO packet carries.  *)
(*                                                                         *)
(* Every CodeTorrent object is built with field_size = 8 (main.cpp), so a  *)
(* symbol is a byte and file_size * 8 / field_size is file_size.  Sizes    *)
(* are naturals: each int in this code is at most file_size + block_size.  *)
(***************************************************************************)
EXTENDS Naturals

\* num_blocks = ceil(file_size / block_size)
NumBlocks(file_size, block_size) == (file_size + block_size - 1) \div block_size

\* "boundary case: generations are evenly divided"
EvenlyDivided(num_blocks, per_gen) == per_gen * (num_blocks \div per_gen) = num_blocks

NumGens(num_blocks, per_gen) ==
    IF EvenlyDivided(num_blocks, per_gen)
    THEN num_blocks \div per_gen
    ELSE (num_blocks \div per_gen) + 1

\* Mutant: the short generation comes first.
NumBlocksGen_ShortFirst(num_blocks, per_gen) ==
    LET last == NumGens(num_blocks, per_gen) - 1
    IN  [g \in 0..last |->
            IF g > 0 \/ EvenlyDivided(num_blocks, per_gen)
            THEN per_gen
            ELSE num_blocks - per_gen * last]

\* The vector num_blocks_gen, indexed from 0 as in the code.  Only the last
\* generation may be shorter.
NumBlocksGen(num_blocks, per_gen) ==
    LET last == NumGens(num_blocks, per_gen) - 1
    IN  [g \in 0..last |->
            IF g < last \/ EvenlyDivided(num_blocks, per_gen)
            THEN per_gen
            ELSE num_blocks - per_gen * last]
=============================================================================

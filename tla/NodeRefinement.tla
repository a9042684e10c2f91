--------------------------- MODULE NodeRefinement ---------------------------
(***************************************************************************)
(* Node implements StoreCounters: however its threads interleave, each     *)
(* method of the store takes effect at one step.  Decode, which reads,     *)
(* writes and unlocks in several, does at the last: until then the thread  *)
(* holds work_mutex, which the abstract store does not see.                *)
(***************************************************************************)
EXTENDS Node

\* The object of the one thread that is given a file info.
obj == CHOOSE o \in FileInfoThreads : TRUE

Decoding == identity[obj] = CT_SERVER /\ out_file = 0

Abstract ==
    INSTANCE StoreCounters WITH
        Size <- LAMBDA g : num_blocks_gen[g],
        BufferSize <- buffer_size,
        decoded <- out_file > 0,
        locked <- work_mutex[obj] # NULL /\ ~Decoding,
        rank <- rank_vec[obj],
        in_buf <- rank_vec_in_buf[obj],
        in_file <- file

\* Whatever threads wait for work_mutex, find each other's flags or come late,
\* the store they share goes through states that one thread alone could take it
\* through: a block is counted once, never beyond its generation and never
\* without the lock, evicted only from a full buffer, and the file is written
\* once, from everything (codetorrent.cpp:635-744, 904-941; main.cpp:294-352,
\* 574).
StoreIsSequential == Abstract!Spec
=============================================================================

----------------------- MODULE CodeTorrentRefinement -----------------------
(***************************************************************************)
(* CodeTorrent implements Download and, counting only, StoreCounters,      *)
(* restarts included.                                                      *)
(***************************************************************************)
EXTENDS CodeTorrent

\* What the node knows of a generation is the row space of its m_helpful, which
\* stays when the temp files are removed and is lost with the process.  A
\* generation is stale if the process found records in its temp file.
Abstract ==
    INSTANCE Download WITH
        Size <- LAMBDA g : num_blocks_gen[g],
        known <- [g \in Gens |-> RowSpace(m_helpful[g], num_blocks_gen[g])],
        stale <- {g \in Gens : ~Fresh(g)},
        output <- out_file,
        relayed <- reencoded

\* Through buffering, eviction to disk, row reduction and restarts the store is
\* the abstract download: every accepted block extends what is known by itself,
\* whatever is passed on has its true payload and, of a generation this process
\* received alone, is a nonzero block of the known subspace, and decoding yields
\* the file, but for generations mixed with what an earlier process left
\* (codetorrent.cpp:635-797, 904-941; nc.cpp:91-206, 264-306).
ImplementsDownload == Abstract!Spec

\* The numbers Node keeps of the store.
Counts ==
    INSTANCE StoreCounters WITH
        Size <- LAMBDA g : num_blocks_gen[g],
        BufferSize <- buffer_size,
        decoded <- identity = CT_SERVER,
        locked <- work_mutex = "held",
        rank <- rank_vec,
        in_buf <- rank_vec_in_buf,
        in_file <- [g \in Gens |-> Len(file[g])]

\* What the store does to its lock, its buffer and its temp files depends on the
\* numbers of blocks alone, as module Node takes it to: no generation is evicted
\* unless the buffer is full, the file is written once, from everything, and
\* work_mutex is kept only by a request for a generation without a block and by
\* a second Decode (codetorrent.cpp:635-744, 904-941).
ImplementsCounters == Counts!Spec
=============================================================================

--------------------------- MODULE StoreCounters ---------------------------
(***************************************************************************)
(* What a store's callers see of it if they count blocks and look at none: *)
(* every method is one step, and what a method does to the lock, to the    *)
(* buffer and to the temp files depends on numbers of blocks alone.  The   *)
(* store with its matrices and sequences (CodeTorrent) implements this,    *)
(* and so do the interleaved packet threads of a node (Node), whose store  *)
(* is these numbers: what Node abstracts from is no more than this.        *)
(***************************************************************************)
EXTENDS Naturals, FiniteSets

CONSTANTS
    Gens,          \* the generations of the file
    Size(_),       \* their sizes in blocks
    BufferSize     \* at how many buffered blocks one generation is evicted

VARIABLES
    decoded,       \* whether the file has been written
    locked,        \* whether a method has returned without unlocking
    rank,          \* per generation, the helpful blocks received,
    in_buf,        \* how many of them are in memory,
    in_file        \* and how many records its temp file has

vars == <<decoded, locked, rank, in_buf, in_file>>

None == [g \in Gens |-> 0]
Full == \A g \in Gens : rank[g] = Size(g)
BufSize(held) == Cardinality(UNION {{g} \X (1..held[g]) : g \in Gens})

Init ==
    /\ decoded = FALSE /\ locked = FALSE
    /\ rank = None /\ in_buf = None /\ in_file = None

\* Where the blocks are once held counts those in memory: some one generation
\* is evicted if memory is full, and only then.
Place(held) ==
    \/ BufSize(held) < BufferSize /\ in_buf' = held /\ UNCHANGED in_file
    \/ /\ BufSize(held) >= BufferSize
       /\ \E e \in Gens :
            /\ held[e] > 0
            /\ in_buf' = [held EXCEPT ![e] = 0]
            /\ in_file' = [in_file EXCEPT ![e] = @ + held[e]]

\* A helpful block arrives.
Store(g) ==
    /\ ~locked
    /\ rank[g] # Size(g)
    /\ rank' = [rank EXCEPT ![g] = @ + 1]
    /\ Place([in_buf EXCEPT ![g] = @ + 1])
    /\ UNCHANGED <<decoded, locked>>

\* A request for a generation there is nothing of: the lock is never released.
Refuse(g) ==
    /\ ~locked
    /\ ~decoded
    /\ rank[g] = 0
    /\ locked' = TRUE
    /\ UNCHANGED <<decoded, rank, in_buf, in_file>>

\* The file is written once, when nothing is missing; the temp files may go.
Decode ==
    /\ ~locked
    /\ ~decoded /\ Full
    /\ decoded' = TRUE
    /\ in_file' \in {in_file, None}
    /\ UNCHANGED <<locked, rank, in_buf>>

\* Asked to decode again, it does nothing, but never releases the lock.
DecodeAgain ==
    /\ ~locked
    /\ decoded
    /\ locked' = TRUE
    /\ UNCHANGED <<decoded, rank, in_buf, in_file>>

\* The process dies and is started again: only the temp files survive.
Restart ==
    /\ decoded' = FALSE /\ locked' = FALSE
    /\ rank' = None /\ in_buf' = None
    /\ UNCHANGED in_file

Next ==
    \/ \E g \in Gens : Store(g) \/ Refuse(g)
    \/ Decode \/ DecodeAgain
    \/ Restart

Spec == Init /\ [][Next]_vars
=============================================================================

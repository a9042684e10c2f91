---------------------------- MODULE CodeTorrent ----------------------------
(***************************************************************************)
(* The block store of one downloading node: class CodeTorrent on the       *)
(* client side.  Coded blocks arrive (StoreBlock), those that raise the    *)
(* rank of their generation go to the memory buffer buf, a full buffer is  *)
(* relieved by moving one generation's blocks to its temp file (FlushBuf), *)
(* neighbours are served combinations of what is held (ReEncode), and a    *)
(* complete download is decoded once (Decode).  The process may be killed  *)
(* and started again in the same directory.                                *)
(*                                                                         *)
(* Each public method locks work_mutex for the whole of its work, so each  *)
(* is one action here, unlocking included: the paths that return without   *)
(* unlocking leave work_mutex held.                                        *)
(*                                                                         *)
(* buf holds the blocks of all generations in arrival order.  Every reader *)
(* of buf filters it by generation, so it is modelled as one sequence per  *)
(* generation; only buf.size() spans them.                                 *)
(***************************************************************************)
EXTENDS NC, Layout, FiniteSets, SequencesExt

CONSTANTS
    num_blocks, per_gen,   \* what the client Init is given
    Data,                  \* the shared file: one vector of symbols per generation
    Incoming(_),           \* coefficient vectors that arrive for a generation
    Weights,               \* the weights ReEncodeBlock may draw
    MaxRestarts            \* bound on the number of restarts explored

CT_SERVER == "CT_SERVER"
CT_CLIENT == "CT_CLIENT"

Null == [gen |-> -1]

num_gens == NumGens(num_blocks, per_gen)
Gens == 0..num_gens - 1
num_blocks_gen == NumBlocksGen(num_blocks, per_gen)
buffer_size == per_gen * 2

\* CT_FileInfo carries num_blocks_gen[0], which no file is shorter than.
ASSUME LayoutAssumption == num_blocks \in Nat /\ per_gen \in 1..num_blocks

\* The file and the coded blocks have the sizes the layout gives them, and the
\* draw of ReEncodeBlock repeats while it yields 0.
ASSUME CodingAssumption ==
    /\ Data = [g \in Gens |-> Data[g]]
    /\ \A g \in Gens :
        /\ Data[g] \in Vector(num_blocks_gen[g])
        /\ Incoming(g) \subseteq Vector(num_blocks_gen[g])
    /\ Weights \subseteq NonZero

ASSUME BoundAssumption == MaxRestarts \in Nat

VARIABLES
    identity,         \* CT_CLIENT, CT_SERVER once Decode has run
    work_mutex,       \* "free", or "held" when a method returned with it locked
    buf,              \* per generation, the blocks in the memory buffer
    file,             \* per generation, the blocks in its temp file
    m_helpful,        \* per generation, the row-reduced coefficient matrix
    rank_vec,         \* per generation, the number of helpful blocks stored
    rank_vec_in_buf,  \* the same, counting only those still in buf
    gen_completed,    \* number of generations of full rank
    out_file,         \* out_filename: the decoded generations, <<>> if none
    reencoded,        \* the block the last ReEncode returned, Null if it failed
    leftover,         \* history: temp file records older than this process
    restarts          \* number of restarts so far

memory == <<buf, m_helpful, rank_vec, rank_vec_in_buf, gen_completed>>
disk == <<file, out_file>>
vars == <<identity, work_mutex, memory, disk, reencoded, leftover, restarts>>

DownloadCompleted == identity = CT_SERVER \/ gen_completed = num_gens

\* A block as it arrives: coded from the shared file by the seed's Encode or
\* by a peer's ReEncode.  Nobody else sends CT_DATA packets.
Arriving(g, coeffs) == EncodeBlock(Data[g], coeffs, num_blocks_gen[g])
CodedBlocks(g) == {Arriving(g, coeffs) : coeffs \in Incoming(g)}

\* buf.size()
BufSlots(b) == UNION {{g} \X (1..Len(b[g])) : g \in Gens}
BufSize(b) == Cardinality(BufSlots(b))

\* tempBuf of ReEncode and DecodeGen: the generation's blocks in buf, then
\* ReadGenBuf(g, 0), ReadGenBuf(g, 1), ... for as many as are not in buf.
\* (Mutant: what was evicted is forgotten.)
TempBuf_MemoryOnly(g) == buf[g]
TempBuf(g) == buf[g] \o SubSeq(file[g], 1, rank_vec[g] - rank_vec_in_buf[g])

-----------------------------------------------------------------------------
\* What FlushBuf sets.
Flushed(b, in_buf, f) == buf' = b /\ rank_vec_in_buf' = in_buf /\ file' = f

\* Mutant: tempBlock is set once, before the loop.
FlushBuf_SameBlock(b, in_buf) ==
    \/ BufSize(b) < buffer_size /\ Flushed(b, in_buf, file)
    \/ /\ BufSize(b) >= buffer_size
       /\ \E e \in {g \in Gens : in_buf[g] > 0} :
            Flushed([b EXCEPT ![e] = <<>>], [in_buf EXCEPT ![e] = 0],
                    [file EXCEPT ![e] = @ \o [i \in DOMAIN b[e] |-> Last(b[e])]])

\* Mutant: the counter is not brought down.
FlushBuf_KeepsCount(b, in_buf) ==
    \/ BufSize(b) < buffer_size /\ Flushed(b, in_buf, file)
    \/ /\ BufSize(b) >= buffer_size
       /\ \E e \in {g \in Gens : in_buf[g] > 0} :
            Flushed([b EXCEPT ![e] = <<>>], in_buf, [file EXCEPT ![e] = @ \o Reverse(b[e])])

\* Mutant: one temp file for all generations.
FlushBuf_OneFile(b, in_buf) ==
    \/ BufSize(b) < buffer_size /\ Flushed(b, in_buf, file)
    \/ /\ BufSize(b) >= buffer_size
       /\ \E e \in {g \in Gens : in_buf[g] > 0} :
            Flushed([b EXCEPT ![e] = <<>>], [in_buf EXCEPT ![e] = 0],
                    [file EXCEPT ![0] = @ \o Reverse(b[e])])

\* Mutant: evicts only above the buffer's size.
FlushBuf_Late(b, in_buf) ==
    \/ BufSize(b) <= buffer_size /\ Flushed(b, in_buf, file)
    \/ /\ BufSize(b) > buffer_size
       /\ \E e \in {g \in Gens : in_buf[g] > 0} :
            Flushed([b EXCEPT ![e] = <<>>], [in_buf EXCEPT ![e] = 0],
                    [file EXCEPT ![e] = @ \o Reverse(b[e])])

\* FlushBuf, on the buf and rank_vec_in_buf StoreBlock has just changed: does
\* nothing below the threshold, otherwise draws a generation with blocks in
\* the buffer and moves them, last one first, to the end of its temp file.
FlushBuf(b, in_buf) ==
    \/ BufSize(b) < buffer_size /\ Flushed(b, in_buf, file)
    \/ /\ BufSize(b) >= buffer_size
       /\ \E gen_to_evict \in {g \in Gens : in_buf[g] > 0} :
            LET pushed == b[gen_to_evict]
            IN  Flushed([b EXCEPT ![gen_to_evict] = <<>>],
                        [in_buf EXCEPT ![gen_to_evict] = @ - Len(pushed)],
                        [file EXCEPT ![gen_to_evict] = @ \o Reverse(pushed)])

\* IncrementGenCompleted, if the block was the generation's last.  (Mutant: at
\* the last but one as well.)
IncrementGenCompleted_Early(g) ==
    gen_completed' =
        IF rank_vec'[g] >= num_blocks_gen[g] - 1 THEN gen_completed + 1 ELSE gen_completed
IncrementGenCompleted(g) ==
    gen_completed' =
        IF rank_vec'[g] = num_blocks_gen[g] THEN gen_completed + 1 ELSE gen_completed

StoreBlock(g, coeffs) ==
    LET n == num_blocks_gen[g]
        helpful == IsHelpful(rank_vec[g], m_helpful[g], coeffs, n)
    IN  /\ work_mutex = "free"
        /\ \/ /\ ~helpful
              /\ UNCHANGED <<memory, file>>
           \/ /\ helpful
              /\ m_helpful' = [m_helpful EXCEPT ![g] = InsertRow(@, coeffs, n)]
              /\ rank_vec' = [rank_vec EXCEPT ![g] = @ + 1]
              /\ FlushBuf([buf EXCEPT ![g] = Append(@, Arriving(g, coeffs))],
                          [rank_vec_in_buf EXCEPT ![g] = @ + 1])
              /\ IncrementGenCompleted(g)
        /\ UNCHANGED <<identity, work_mutex, out_file, reencoded, leftover, restarts>>

\* Asked for a generation it has nothing of, ReEncode returns NULL and leaves
\* work_mutex locked.  main calls it while server_mode is false, which it sets
\* when Decode has returned: here both are the one step that changes identity.
ReEncode(g) ==
    /\ work_mutex = "free"
    /\ identity = CT_CLIENT
    /\ \/ /\ ~CanReEncode(TempBuf(g))
          /\ reencoded' = Null
          /\ work_mutex' = "held"
       \/ /\ CanReEncode(TempBuf(g))
          /\ \E rand \in [1..Len(TempBuf(g)) -> Weights] :
                LET block == ReEncodeBlock(TempBuf(g), rand, num_blocks_gen[g])
                IN  reencoded' = [gen |-> g, coeffs |-> block.coeffs, sums |-> block.sums]
          /\ UNCHANGED work_mutex
    /\ UNCHANGED <<identity, memory, disk, leftover, restarts>>

\* Decode's own clean-up.  CleanBuffer tests identity, which is CT_SERVER by
\* then, and clears nothing.  CleanTempFiles takes strlen of a buffer nobody
\* has written: the names it removes are the temp files' or miss them all.
CleanBuffer == UNCHANGED <<buf, rank_vec_in_buf>>
CleanTempFiles == \/ file' = [g \in Gens |-> <<>>]
                  \/ UNCHANGED file

\* main calls Decode when DownloadCompleted.  A thread that finds the work
\* done returns with work_mutex locked.
Decode ==
    /\ work_mutex = "free"
    /\ DownloadCompleted
    /\ \/ /\ identity # CT_CLIENT
          /\ work_mutex' = "held"
          /\ UNCHANGED <<identity, memory, disk>>
       \/ /\ identity = CT_CLIENT
          /\ identity' = CT_SERVER
          /\ out_file' = [g \in Gens |-> DecodeBuffer(TempBuf(g), num_blocks_gen[g])]
          /\ CleanBuffer
          /\ CleanTempFiles
          /\ UNCHANGED <<work_mutex, m_helpful, rank_vec, gen_completed>>
    /\ UNCHANGED <<reencoded, leftover, restarts>>

-----------------------------------------------------------------------------
\* The client Init: everything in memory starts empty and there is no output
\* file; a new process finds the temp files as the last one left them.
EmptyBuf == [g \in Gens |-> <<>>]
NoRank == [g \in Gens |-> 0]
EmptyHelpful == [g \in Gens |-> ZeroMatrix(num_blocks_gen[g])]

Init ==
    /\ identity = CT_CLIENT /\ work_mutex = "free"
    /\ buf = EmptyBuf /\ m_helpful = EmptyHelpful
    /\ rank_vec = NoRank /\ rank_vec_in_buf = NoRank /\ gen_completed = 0
    /\ out_file = <<>> /\ reencoded = Null
    /\ file = EmptyBuf /\ leftover = NoRank
    /\ restarts = 0

\* The process dies between two calls and is started again.
Restart ==
    /\ restarts < MaxRestarts
    /\ restarts' = restarts + 1
    /\ identity' = CT_CLIENT /\ work_mutex' = "free"
    /\ buf' = EmptyBuf /\ m_helpful' = EmptyHelpful
    /\ rank_vec' = NoRank /\ rank_vec_in_buf' = NoRank /\ gen_completed' = 0
    /\ out_file' = <<>> /\ reencoded' = Null   \* remove(out_filename)
    /\ UNCHANGED file
    /\ leftover' = [g \in Gens |-> Len(file[g])]

Next ==
    \/ \E g \in Gens : \E coeffs \in Incoming(g) : StoreBlock(g, coeffs)
    \/ \E g \in Gens : ReEncode(g)
    \/ Decode
    \/ Restart

Spec == Init /\ [][Next]_vars
-----------------------------------------------------------------------------
\* What the variables range over.  Every block stored or on disk is one that
\* arrived for that generation.
TypeOK ==
    /\ identity \in {CT_CLIENT, CT_SERVER}
    /\ work_mutex \in {"free", "held"}
    /\ buf = [g \in Gens |-> buf[g]] /\ file = [g \in Gens |-> file[g]]
    /\ \A g \in Gens : buf[g] \in Seq(CodedBlocks(g)) /\ file[g] \in Seq(CodedBlocks(g))
    /\ m_helpful = [g \in Gens |-> m_helpful[g]]
    /\ rank_vec \in [Gens -> Nat] /\ rank_vec_in_buf \in [Gens -> Nat]
    /\ gen_completed \in Nat
    /\ out_file = <<>> \/ DOMAIN out_file = Gens
    /\ reencoded.gen \in Gens \cup {-1}
    /\ leftover \in [Gens -> Nat]
    /\ restarts \in 0..MaxRestarts

\* The two counters that say where a generation's blocks are: rank_vec_in_buf
\* of them in buf, the other rank_vec - rank_vec_in_buf in the temp file, after
\* whatever an earlier process left there.  So ReadGenBuf never reads beyond
\* the file's end, the check its NOTE leaves to the caller
\* (codetorrent.cpp:849-851, 656-660, 780-784).
Accounting ==
    \A g \in Gens :
        /\ rank_vec_in_buf[g] = Len(buf[g])
        /\ rank_vec_in_buf[g] <= rank_vec[g]
        /\ rank_vec[g] <= num_blocks_gen[g]
        /\ identity = CT_CLIENT =>
                Len(file[g]) = leftover[g] + rank_vec[g] - rank_vec_in_buf[g]

\* Between two calls the memory buffer is below its size: one eviction is
\* always enough, whatever generation the draw picks (codetorrent.cpp:697-699,
\* 916-938).
BufferBound == BufSize(buf) < buffer_size

\* gen_completed, which is only ever incremented, counts the generations of
\* full rank, so DownloadCompleted is neither early nor missed
\* (codetorrent.cpp:708-711, codetorrent.h:127-131).
CompletionCount ==
    gen_completed = Cardinality({g \in Gens : rank_vec[g] = num_blocks_gen[g]})

\* When DownloadCompleted lets Decode run, every generation's tempBuf has
\* exactly the blocks BackSubstitution insists on; otherwise it would write
\* zeros, without an error anyone sees (nc.cpp:457-466, codetorrent.cpp:735-741).
DecodeHasAllBlocks ==
    identity = CT_CLIENT /\ DownloadCompleted =>
        \A g \in Gens : Len(TempBuf(g)) = num_blocks_gen[g]

\* The process found no temp file of g when it started.
Fresh(g) == leftover[g] = 0

\* What ReEncode and DecodeGen gather for a generation.
Gathered(g) == [i \in 1..Len(TempBuf(g)) |-> TempBuf(g)[i].coeffs]

RankIsGathered(g) ==
    /\ Len(TempBuf(g)) = rank_vec[g]
    /\ Independent(Gathered(g), num_blocks_gen[g])

\* GetRank takes the size of tempBuf for the number of linearly independent
\* vectors in it (nc.h:95-97).
GetRankIsRank == identity = CT_CLIENT => \A g \in Gens : RankIsGathered(g)

\* The same for generations whose temp file holds only what this process put
\* there.
GetRankIsRankWhenFresh ==
    identity = CT_CLIENT => \A g \in Gens : Fresh(g) => RankIsGathered(g)

\* m_helpful keeps its triangular shape: a row is zero, or starts at its
\* diagonal; and it has rank_vec[g] rows in use.  Otherwise a round of the
\* elimination could undo an earlier one (nc.cpp:171-201).
EchelonForm ==
    \A g \in Gens :
        LET m == m_helpful[g]
            Rows == Index(num_blocks_gen[g])
        IN  /\ \A i, k \in Rows : k < i => m[i][k] = 0
            /\ \A i \in Rows : m[i][i] = 0 => \A k \in Rows : m[i][k] = 0
            /\ Cardinality({i \in Rows : m[i][i] # 0}) = rank_vec[g]

\* A block is helpful exactly if its coefficients are no combination of those
\* stored, in memory or on disk: no innovative block is refused and no
\* redundant one counted.
HelpfulIffInnovative ==
    identity = CT_CLIENT =>
        \A g \in Gens : Fresh(g) =>
            LET n == num_blocks_gen[g]
                span == SpanSeq(Gathered(g), n)
            IN  \A coeffs \in Vector(n) :
                    IsHelpful(rank_vec[g], m_helpful[g], coeffs, n) <=> coeffs \notin span

\* A re-encoded block carries the payload its coefficients announce, wherever
\* the blocks it combines were kept and whichever process received them; and it
\* is not zero, if this process received them all.
ReEncodedSound ==
    reencoded # Null =>
        LET n == num_blocks_gen[reencoded.gen]
        IN  /\ Consistent(reencoded, Data[reencoded.gen], n)
            /\ Fresh(reencoded.gen) => reencoded.coeffs # ZeroVector(n)

\* What Decode writes is the shared file, in every generation whose temp file
\* held only blocks of this process.
DecodedIsFile ==
    identity = CT_SERVER => \A g \in Gens : Fresh(g) => out_file[g] = Data[g]

\* No block that was stored disappears from what ReEncode and DecodeGen gather,
\* whatever is evicted later, until the download is decoded or the process
\* dies.
StoredStaysGathered ==
    [][ (identity' = CT_CLIENT /\ restarts' = restarts)
            => \A g \in Gens : Fresh(g) => ToSet(TempBuf(g)) \subseteq ToSet(TempBuf(g)') ]_vars
=============================================================================

---------------------------- MODULE TestbedCache ----------------------------
(***************************************************************************)
(* How a node of the testbed (codetorrent-testbed/) prepares and hands out *)
(* coded blocks.  One thread, generateCodedBlock, fills ct_coded_blocks; a *)
(* thread per request takes a block from there or makes one; on a client,  *)
(* a thread per CT_DATA packet stores blocks meanwhile.  Only generation 0 *)
(* is ever requested, a client never becomes a server, and buf, with room  *)
(* for twice a generation, is never flushed to a temp file.                *)
(*                                                                         *)
(* work_mutex protects buf.  Nothing protects ct_coded_blocks, the object  *)
(* cb every ReEncode works in, nor the counters outside StoreBlock.  A     *)
(* step ends where a thread next touches something shared; what it finds   *)
(* when threads meet there is what their steps left.  A history variable   *)
(* says whether threads have ever met in one of these three places.        *)
(*                                                                         *)
(* Left out: blocks lost to the program but never freed (what generate-    *)
(* CodedBlock pops, what clear() drops), and a second generateCodedBlock,  *)
(* which two file infos handled at once would start (see Node).            *)
(***************************************************************************)
EXTENDS Integers, Sequences, FiniteSets

CONSTANTS
    num_blocks_gen,     \* of generation 0
    Limit, Keep,        \* how many blocks a seed keeps ready, and a client: 1000 and 2
    generator,          \* the thread that runs generateCodedBlock
    SeedThreads,        \* the threads handling CT_REQUEST packets at a time on a seed,
    ClientThreads,      \* and on a client,
    DataThreads         \* and those handling CT_DATA packets on a client

ASSUME SizesAssumption == num_blocks_gen \in Nat \ {0} /\ Limit \in Nat \ {0} /\ Keep \in Nat
ASSUME GeneratorAssumption == generator \notin SeedThreads \cup ClientThreads \cup DataThreads
ASSUME ThreadsAssumption ==
    /\ (SeedThreads \cup ClientThreads) \cap DataThreads = {}
    /\ IsFiniteSet(SeedThreads) /\ IsFiniteSet(ClientThreads)

VARIABLES
    server_mode,        \* which kind of node this is
    pc,
    work_mutex,         \* whether a StoreBlock holds it (other holders do in one step)
    buf,                \* the number of blocks of generation 0 in buf,
    rank_vec,           \* in rank_vec[0],
    rank_vec_in_buf,    \* and in rank_vec_in_buf[0]
    cb,                 \* the ReEncode calls, by thread, whose terms are in its two parts
    ct_coded_blocks,    \* the blocks that are ready, each the address of a CodedBlock
    torn,               \* the blocks in use whose coeffs and sums are of different calls
    tempBuf, blocks_in_file, coeffs, block,     \* locals of a thread
    busy,
    overlapped,         \* the shared things in which threads have met
    fault               \* what ended the process, "none" while it runs

store == <<work_mutex, buf, rank_vec, rank_vec_in_buf>>
locals == <<tempBuf, blocks_in_file, coeffs, block>>
blocks == <<ct_coded_blocks, torn>>
vars == <<server_mode, pc, store, cb, blocks, locals, busy, overlapped, fault>>

RequestThreads == SeedThreads \cup ClientThreads
Encoders == RequestThreads \cup {generator}
Threads == Encoders \cup DataThreads

\* Enough addresses for every block in use.
Addresses == 0..Limit + num_blocks_gen + Cardinality(Encoders)
NoBlock == -1
Ready == {ct_coded_blocks[i] : i \in DOMAIN ct_coded_blocks}
Unused == CHOOSE b \in Addresses \ (Ready \cup {block[t] : t \in Encoders}) : TRUE

-----------------------------------------------------------------------------
Goto(t, label) == pc' = [pc EXCEPT ![t] = label]

Fault(cause) ==
    /\ fault' = cause
    /\ UNCHANGED <<server_mode, pc, store, cb, blocks, locals, busy, overlapped>>

\* Where a thread is in the middle of using a shared thing.
Inside ==
    [ cb |-> {"memset sums", "add coeffs", "add sums", "copy coeffs", "copy sums"},
      ct_coded_blocks |-> {"front", "erase"},
      counters |-> {"minus rank_vec_in_buf", "plus rank_vec", "rank_vec_in_buf"} ]

\* Thread t uses thing.
Uses(t, thing) ==
    overlapped' = IF \E u \in Threads \ {t} : pc[u] \in Inside[thing]
                  THEN overlapped \cup {thing}
                  ELSE overlapped

Hold(t, b) == block' = [block EXCEPT ![t] = b]

\* Where a thread goes with the block it has made.
Made(t) == IF t = generator THEN Goto(t, "push_back") ELSE Goto(t, "send")

-----------------------------------------------------------------------------
(* CodeTorrent::Encode, ReEncode and StoreBlock                            *)

\* Under work_mutex, and into a block of its own.
Encode(t) ==
    /\ pc[t] = "encode"
    /\ Hold(t, Unused)
    /\ Made(t)
    /\ UNCHANGED <<server_mode, store, cb, blocks, tempBuf, blocks_in_file, coeffs,
                   busy, overlapped, fault>>

\* The blocks of buf are copied under work_mutex.
CopyBuf(t) ==
    /\ pc[t] = "reencode"
    /\ ~work_mutex
    /\ tempBuf' = [tempBuf EXCEPT ![t] = buf]
    /\ Goto(t, "count")
    /\ UNCHANGED <<server_mode, store, cb, blocks, blocks_in_file, coeffs, block,
                   busy, overlapped, fault>>

\* rank_vec - rank_vec_in_buf is read without it, in the compiler's order.
FirstCount(t) ==
    /\ pc[t] = "count"
    /\ \/ /\ blocks_in_file' = [blocks_in_file EXCEPT ![t] = rank_vec]
          /\ Goto(t, "minus rank_vec_in_buf")
       \/ /\ blocks_in_file' = [blocks_in_file EXCEPT ![t] = -rank_vec_in_buf]
          /\ Goto(t, "plus rank_vec")
    /\ Uses(t, "counters")
    /\ UNCHANGED <<server_mode, store, cb, blocks, tempBuf, coeffs, block, busy, fault>>

\* ReadGenBuf of a file that is not there ends the process.  ReEncodeBlock of an
\* empty tempBuf makes ReEncode return NULL, which send_codedBlock reads.
Difference(t) ==
    IF pc[t] = "plus rank_vec" THEN blocks_in_file[t] + rank_vec
    ELSE blocks_in_file[t] - rank_vec_in_buf

SecondCount(t) ==
    /\ pc[t] \in {"plus rank_vec", "minus rank_vec_in_buf"}
    /\ Uses(t, "counters")
    /\ IF Difference(t) > 0 \/ tempBuf[t] = 0
       THEN /\ fault' = IF Difference(t) > 0 THEN "no temp file" ELSE "no coded block"
            /\ UNCHANGED <<pc, tempBuf, blocks_in_file>>
       ELSE /\ Goto(t, "memset coeffs")
            /\ tempBuf' = [tempBuf EXCEPT ![t] = 0]
            /\ blocks_in_file' = [blocks_in_file EXCEPT ![t] = 0]
            /\ UNCHANGED fault
    /\ UNCHANGED <<server_mode, store, cb, blocks, coeffs, block, busy>>

\* ReEncodeBlock, with cb as its out.  The rounds of its loop are one step for each
\* part.  (Mutant: the terms of the last call stay in sums.)
MemsetSums_Kept == UNCHANGED cb
MemsetSums == cb' = [cb EXCEPT !.sums = {}]

Part(t, from, to) == pc[t] = from /\ Goto(t, to)

ReEncodeBlock(t) ==
    /\ \/ Part(t, "memset coeffs", "memset sums") /\ cb' = [cb EXCEPT !.coeffs = {}]
       \/ Part(t, "memset sums", "add coeffs") /\ MemsetSums
       \/ Part(t, "add coeffs", "add sums") /\ cb' = [cb EXCEPT !.coeffs = @ \cup {t}]
       \/ Part(t, "add sums", "copy coeffs") /\ cb' = [cb EXCEPT !.sums = @ \cup {t}]
    /\ Uses(t, "cb")
    /\ UNCHANGED <<server_mode, store, blocks, locals, busy, fault>>

\* CopyCodedBlock(cb).
CopyCoeffs(t) ==
    /\ pc[t] = "copy coeffs"
    /\ coeffs' = [coeffs EXCEPT ![t] = cb.coeffs]
    /\ Uses(t, "cb")
    /\ Goto(t, "copy sums")
    /\ UNCHANGED <<server_mode, store, cb, blocks, tempBuf, blocks_in_file, block, busy, fault>>

CopySums(t) ==
    /\ pc[t] = "copy sums"
    /\ Hold(t, Unused)
    /\ torn' = IF coeffs[t] = cb.sums THEN torn \ {Unused} ELSE torn \cup {Unused}
    /\ coeffs' = [coeffs EXCEPT ![t] = {}]
    /\ Uses(t, "cb")
    /\ Made(t)
    /\ UNCHANGED <<server_mode, store, cb, ct_coded_blocks, tempBuf, blocks_in_file, busy, fault>>

\* Which blocks are helpful is left to the run.
StoreBlock(t) ==
    /\ pc[t] = "store"
    /\ ~work_mutex
    /\ \/ Goto(t, "exited") /\ UNCHANGED <<work_mutex, buf>>
       \/ /\ rank_vec < num_blocks_gen
          /\ work_mutex' = TRUE
          /\ buf' = buf + 1
          /\ Goto(t, "rank_vec")
    /\ UNCHANGED <<server_mode, rank_vec, rank_vec_in_buf, cb, blocks, locals, busy,
                   overlapped, fault>>

IncrementRank(t) ==
    /\ pc[t] = "rank_vec"
    /\ rank_vec' = rank_vec + 1
    /\ Uses(t, "counters")
    /\ Goto(t, "rank_vec_in_buf")
    /\ UNCHANGED <<server_mode, work_mutex, buf, rank_vec_in_buf, cb, blocks, locals, busy, fault>>

IncrementRankInBuf(t) ==
    /\ pc[t] = "rank_vec_in_buf"
    /\ rank_vec_in_buf' = rank_vec_in_buf + 1
    /\ work_mutex' = FALSE
    /\ Uses(t, "counters")
    /\ Goto(t, "clear")
    /\ UNCHANGED <<server_mode, buf, rank_vec, cb, blocks, locals, busy, fault>>

-----------------------------------------------------------------------------
(* ct_coded_blocks                                                         *)

\* size(), and a pop when there are too many.  (Mutant: it keeps one more.)
Full_Late(n) == n > Limit
Full(n) == n >= Limit

GenerateOnSeed(t) ==
    /\ t = generator /\ pc[t] = "generate" /\ server_mode
    /\ IF Full(Len(ct_coded_blocks)) THEN Goto(t, "front") ELSE Goto(t, "encode")
    /\ UNCHANGED <<server_mode, store, cb, blocks, locals, busy, overlapped, fault>>

\* Once not busy; otherwise it looks again.
GenerateOnClient(t) ==
    /\ t = generator /\ pc[t] = "generate" /\ ~server_mode /\ ~busy
    /\ \/ Len(ct_coded_blocks) < rank_vec /\ Goto(t, "reencode")
       \/ /\ Len(ct_coded_blocks) >= rank_vec
          /\ Len(ct_coded_blocks) > Keep
          /\ Goto(t, "front")
    /\ UNCHANGED <<server_mode, store, cb, blocks, locals, busy, overlapped, fault>>

\* REQ_TIME_OUT, here or in listen_data.
RequestTimeOut ==
    /\ busy /\ busy' = FALSE
    /\ UNCHANGED <<server_mode, pc, store, cb, blocks, locals, overlapped, fault>>

PushBack(t) ==
    /\ pc[t] = "push_back"
    /\ ct_coded_blocks' = Append(ct_coded_blocks, block[t])
    /\ Hold(t, NoBlock)
    /\ Uses(t, "ct_coded_blocks")
    /\ Goto(t, "generate")
    /\ UNCHANGED <<server_mode, store, cb, torn, tempBuf, blocks_in_file, coeffs, busy, fault>>

\* popCodedBlock: front() and erase(begin()) of an empty vector end the process.
Front(t) ==
    /\ pc[t] = "front"
    /\ \/ ct_coded_blocks = <<>> /\ Fault("empty vector")
       \/ /\ ct_coded_blocks # <<>>
          /\ Hold(t, Head(ct_coded_blocks))
          /\ Uses(t, "ct_coded_blocks")
          /\ Goto(t, "erase")
          /\ UNCHANGED <<server_mode, store, cb, blocks, tempBuf, blocks_in_file, coeffs,
                         busy, fault>>

\* (Mutant: the block that was read stays.)
Erased_Kept(q) == q
Erased(q) == Tail(q)

Erase(t) ==
    /\ pc[t] = "erase"
    /\ \/ ct_coded_blocks = <<>> /\ Fault("empty vector")
       \/ /\ ct_coded_blocks # <<>>
          /\ ct_coded_blocks' = Erased(ct_coded_blocks)
          /\ Uses(t, "ct_coded_blocks")
          /\ IF t = generator
             THEN Hold(t, NoBlock) /\ Goto(t, "generate")
             ELSE Goto(t, "send") /\ UNCHANGED block
          /\ UNCHANGED <<server_mode, store, cb, torn, tempBuf, blocks_in_file, coeffs,
                         busy, fault>>

\* store_block, after a helpful block; then send_request.
Clear(t) ==
    /\ pc[t] = "clear"
    /\ ct_coded_blocks' = <<>>
    /\ Uses(t, "ct_coded_blocks")
    /\ busy' \in {TRUE, busy}
    /\ Goto(t, "exited")
    /\ UNCHANGED <<server_mode, store, cb, torn, locals, fault>>

-----------------------------------------------------------------------------
(* incoming_packet                                                         *)

AcceptData(t) ==
    /\ t \in DataThreads /\ pc[t] = "exited" /\ ~server_mode
    /\ Goto(t, "store")
    /\ UNCHANGED <<server_mode, store, cb, blocks, locals, busy, overlapped, fault>>

\* GetRankVec()[0] # 0.  (Mutant: not tested.)
HasRank_Untested == TRUE
HasRank == server_mode \/ rank_vec > 0

AcceptRequest(t) ==
    /\ t \in (IF server_mode THEN SeedThreads ELSE ClientThreads) /\ pc[t] = "exited"
    /\ HasRank
    /\ busy' = FALSE
    /\ Goto(t, IF ~server_mode THEN "reencode"
               ELSE IF ct_coded_blocks # <<>> THEN "front" ELSE "encode")
    /\ UNCHANGED <<server_mode, store, cb, blocks, locals, overlapped, fault>>

\* send_codedBlock: sent or not, the block is freed.
Send(t) ==
    /\ pc[t] = "send"
    /\ Hold(t, NoBlock)
    /\ Goto(t, "exited")
    /\ UNCHANGED <<server_mode, store, cb, blocks, tempBuf, blocks_in_file, coeffs, busy,
                   overlapped, fault>>

-----------------------------------------------------------------------------
Init ==
    /\ server_mode \in BOOLEAN
    /\ pc = [t \in Threads |-> IF t = generator THEN "generate" ELSE "exited"]
    /\ work_mutex = FALSE
    /\ buf = 0 /\ rank_vec = 0 /\ rank_vec_in_buf = 0
    /\ cb = [coeffs |-> {}, sums |-> {}]
    /\ ct_coded_blocks = <<>> /\ torn = {}
    /\ tempBuf = [t \in Encoders |-> 0] /\ blocks_in_file = [t \in Encoders |-> 0]
    /\ coeffs = [t \in Encoders |-> {}] /\ block = [t \in Encoders |-> NoBlock]
    /\ busy = FALSE
    /\ overlapped = {}
    /\ fault = "none"

Step(t) ==
    \/ t \in Encoders /\
        \/ Encode(t)
        \/ CopyBuf(t) \/ FirstCount(t) \/ SecondCount(t)
        \/ ReEncodeBlock(t) \/ CopyCoeffs(t) \/ CopySums(t)
        \/ GenerateOnSeed(t) \/ GenerateOnClient(t)
        \/ PushBack(t) \/ Front(t) \/ Erase(t) \/ Send(t)
    \/ t \in DataThreads /\
        (StoreBlock(t) \/ IncrementRank(t) \/ IncrementRankInBuf(t) \/ Clear(t))

Next ==
    /\ fault = "none"
    /\ \/ \E t \in Threads : Step(t) \/ AcceptData(t) \/ AcceptRequest(t)
       \/ RequestTimeOut

Spec == Init /\ [][Next]_vars

-----------------------------------------------------------------------------
Labels ==
    Inside["cb"] \cup Inside["ct_coded_blocks"] \cup Inside["counters"]
    \cup {"generate", "exited", "encode", "reencode", "count", "memset coeffs", "push_back",
          "send", "store", "rank_vec", "clear"}

\* The variables range over what the comments say; no more than Limit blocks are
\* ready on a seed, nor than a generation has on a client.
TypeOK ==
    /\ server_mode \in BOOLEAN /\ work_mutex \in BOOLEAN /\ busy \in BOOLEAN
    /\ pc \in [Threads -> Labels]
    /\ buf \in 0..num_blocks_gen /\ rank_vec \in 0..num_blocks_gen
    /\ rank_vec_in_buf \in 0..num_blocks_gen
    /\ cb \in [coeffs : SUBSET Encoders, sums : SUBSET Encoders]
    /\ ct_coded_blocks \in Seq(Addresses)
    /\ Len(ct_coded_blocks) <= IF server_mode THEN Limit ELSE num_blocks_gen
    /\ torn \subseteq Addresses
    /\ tempBuf \in [Encoders -> 0..num_blocks_gen]
    /\ blocks_in_file \in [Encoders -> -num_blocks_gen..num_blocks_gen]
    /\ coeffs \in [Encoders -> SUBSET Encoders] /\ block \in [Encoders -> Addresses \cup {NoBlock}]
    /\ overlapped \subseteq DOMAIN Inside
    /\ fault \in {"none", "no temp file", "no coded block", "empty vector"}

\* A re-encoded block whose payload is not that of its coefficients is made only
\* after two threads have met inside ReEncodeBlock or CopyCodedBlock; blocks
\* stored meanwhile do no harm (codetorrent.cpp:680-692, nc.cpp:112-147).
TornOnlyByOverlap == torn # {} => "cb" \in overlapped

\* A block is given to one thread, and is not ready for another one while it has
\* it, unless threads have met between size() and erase() (main.cpp:605-606,
\* 1868-1875, 1938-1939).
HandedOutOnce ==
    \A t \in Encoders :
        block[t] # NoBlock /\ pc[t] # "erase" =>
            \/ "ct_coded_blocks" \in overlapped
            \/ /\ block[t] \notin Ready
               /\ \A u \in Encoders \ {t} : block[u] # block[t]

\* The process dies of an empty vector or of a temp file that was never written
\* only after such a meeting, and never because there is no block to re-encode:
\* the rank is tested without the lock, but buf never lags behind it
\* (main.cpp:585, 1901; codetorrent.cpp:669, 704-706).
FaultsOnlyByOverlap ==
    /\ fault # "no coded block"
    /\ fault = "no temp file" => "counters" \in overlapped
    /\ fault = "empty vector" => "ct_coded_blocks" \in overlapped
=============================================================================

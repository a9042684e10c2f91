------------------------- MODULE TestbedCacheProofs -------------------------
(***************************************************************************)
(* The block cache of the testbed's nodes, for every size of the           *)
(* generation and of the cache and any number of threads: its types, and   *)
(* that what goes wrong goes wrong only where two threads have met.        *)
(*                                                                         *)
(* As long as overlapped does not hold a shared thing, the invariant knows *)
(* what the one thread that may be inside it will find there; entering or  *)
(* changing it while another thread is inside makes overlapped hold it.    *)
(***************************************************************************)
EXTENDS TestbedCache, FiniteSetTheorems, SequenceTheorems, TLAPS

-----------------------------------------------------------------------------
DataLabels == {"exited", "store", "rank_vec", "rank_vec_in_buf", "clear"}

\* Where threads can be.
Places ==
    /\ \A t \in DataThreads : pc[t] \in DataLabels
    /\ \A t \in Encoders : pc[t] \in Labels \ {"store", "rank_vec", "rank_vec_in_buf", "clear"}
    /\ \A t \in Encoders : pc[t] \in {"generate", "push_back"} => t = generator
    /\ pc[generator] \notin {"exited", "send"}

\* What generateCodedBlock has found room for.
Room(label) ==
    LET most == IF server_mode THEN Limit ELSE num_blocks_gen
    IN  IF label \in {"generate", "front", "erase"}
        THEN Len(ct_coded_blocks) <= most ELSE Len(ct_coded_blocks) < most

\* StoreBlock changes buf, rank_vec and rank_vec_in_buf in this order.
Storing ==
    /\ rank_vec_in_buf <= rank_vec /\ rank_vec <= buf /\ buf <= num_blocks_gen
    /\ ~work_mutex => buf = rank_vec
    /\ rank_vec_in_buf # rank_vec => \E t \in DataThreads : pc[t] = "rank_vec_in_buf"
    /\ \A t \in DataThreads :
          /\ pc[t] = "rank_vec" => work_mutex /\ buf = rank_vec + 1 /\ rank_vec_in_buf = rank_vec
          /\ pc[t] = "rank_vec_in_buf" =>
                work_mutex /\ buf = rank_vec /\ rank_vec = rank_vec_in_buf + 1
    /\ \A t, u \in DataThreads :
          pc[t] \in {"rank_vec", "rank_vec_in_buf"} /\ pc[u] \in {"rank_vec", "rank_vec_in_buf"} =>
              t = u

\* There is something to re-encode.
Encoding ==
    \A t \in Encoders :
        /\ pc[t] = "reencode" => rank_vec > 0
        /\ pc[t] \in {"count", "plus rank_vec", "minus rank_vec_in_buf"} => tempBuf[t] > 0

\* A thread alone between the two reads of the counters finds no block in the file.
Counting ==
    "counters" \notin overlapped =>
        \A t \in Encoders :
            /\ pc[t] = "minus rank_vec_in_buf" =>
                  blocks_in_file[t] = rank_vec /\ rank_vec_in_buf = rank_vec
            /\ pc[t] = "plus rank_vec" =>
                  blocks_in_file[t] = -rank_vec /\ rank_vec_in_buf = rank_vec

\* A thread alone in cb finds its own terms there.
Combining ==
    "cb" \notin overlapped =>
        /\ torn = {}
        /\ \A t \in Encoders :
              /\ pc[t] = "memset sums" => cb.coeffs = {}
              /\ pc[t] = "add coeffs" => cb.coeffs = {} /\ cb.sums = {}
              /\ pc[t] = "add sums" => cb.coeffs = {t} /\ cb.sums = {}
              /\ pc[t] \in {"copy coeffs", "copy sums"} => cb.coeffs = {t} /\ cb.sums = {t}
              /\ pc[t] = "copy sums" => coeffs[t] = {t}

\* A thread alone in ct_coded_blocks finds a block, and the same one twice; no other
\* thread has it.
Owned(t) == block[t] # NoBlock <=> pc[t] \in {"push_back", "erase", "send"}

Finds(t) ==
    /\ pc[t] \in {"front", "erase"} => ct_coded_blocks # <<>>
    /\ pc[t] = "erase" => block[t] = ct_coded_blocks[1]
    /\ block[t] # NoBlock /\ pc[t] # "erase" =>
          /\ \A i \in DOMAIN ct_coded_blocks : ct_coded_blocks[i] # block[t]
          /\ \A u \in Encoders \ {t} : block[u] # block[t]

Distinct ==
    \A i, j \in DOMAIN ct_coded_blocks : ct_coded_blocks[i] = ct_coded_blocks[j] => i = j

Handing ==
    /\ \A t \in Encoders : Owned(t)
    /\ "ct_coded_blocks" \notin overlapped => Distinct /\ \A t \in Encoders : Finds(t)

IInv ==
    /\ TypeOK /\ Places /\ Room(pc[generator])
    /\ Storing /\ Encoding /\ Counting /\ Combining /\ Handing
    /\ FaultsOnlyByOverlap

-----------------------------------------------------------------------------
(* Constants, and the addresses                                            *)

LEMMA CacheFacts ==
    /\ num_blocks_gen \in Nat \ {0} /\ Limit \in Nat \ {0} /\ Keep \in Nat
    /\ generator \in Encoders /\ generator \notin RequestThreads
    /\ Encoders \cap DataThreads = {} /\ Threads = Encoders \cup DataThreads
    /\ IsFiniteSet(Encoders) /\ Cardinality(Encoders) \in Nat
    /\ NoBlock \notin Addresses
<1>1. IsFiniteSet(SeedThreads \cup ClientThreads)
  BY ThreadsAssumption, FS_Union
<1>2. IsFiniteSet(Encoders) /\ Cardinality(Encoders) \in Nat
  BY <1>1, FS_AddElement, FS_CardinalityType DEF Encoders, RequestThreads
<1>3. NoBlock \notin Addresses
  BY <1>2, SizesAssumption DEF NoBlock, Addresses
<1> QED BY <1>2, <1>3, SizesAssumption, GeneratorAssumption, ThreadsAssumption
        DEF Encoders, RequestThreads, Threads

\* Not every address is taken.
LEMMA FreeAddress ==
    ASSUME NEW q \in Seq(Addresses), Len(q) <= Limit + num_blocks_gen,
           NEW held \in [Encoders -> Addresses \cup {NoBlock}]
    PROVE  \E b \in Addresses : b \notin {q[i] : i \in DOMAIN q} \cup {held[t] : t \in Encoders}
<1> DEFINE ready == {q[i] : i \in DOMAIN q}
           inHand == {held[t] : t \in Encoders}
<1>1. Len(q) \in Nat /\ DOMAIN q = 1..Len(q) /\ q \in [1..Len(q) -> ready]
  BY LenProperties
<1>2. IsFiniteSet(1..Len(q)) /\ Cardinality(1..Len(q)) = Len(q)
  <2> DEFINE n == Len(q)
  <2>1. n \in Nat
    BY <1>1
  <2> HIDE DEF n
  <2>2. IsFiniteSet(1..n) /\ Cardinality(1..n) = n
    BY <2>1, FS_Interval
  <2> QED BY <2>2 DEF n
<1>3. q \in Surjection(1..Len(q), ready)
  BY <1>1 DEF Surjection
<1>4. IsFiniteSet(ready) /\ Cardinality(ready) <= Len(q)
  BY <1>2, <1>3, FS_Surjection
<1>5. held \in Surjection(Encoders, inHand)
  BY DEF Surjection
<1>6. IsFiniteSet(inHand) /\ Cardinality(inHand) <= Cardinality(Encoders)
  BY <1>5, CacheFacts, FS_Surjection
<1> DEFINE taken == ready \cup inHand
           size == Limit + num_blocks_gen + Cardinality(Encoders)
<1>7. size \in Nat
  BY CacheFacts
<1>8. IsFiniteSet(taken) /\ Cardinality(taken) <= size
  <2>1. /\ Cardinality(ready) \in Nat /\ Cardinality(inHand) \in Nat
        /\ Cardinality(ready \cap inHand) \in Nat
    BY <1>4, <1>6, FS_CardinalityType, FS_Intersection
  <2>2. IsFiniteSet(taken)
        /\ Cardinality(taken) = Cardinality(ready) + Cardinality(inHand)
                                - Cardinality(ready \cap inHand)
    BY <1>4, <1>6, FS_Union
  <2> DEFINE a == Cardinality(ready)
             b == Cardinality(inHand)
             c == Cardinality(ready \cap inHand)
             e == Cardinality(Encoders)
  <2>3. /\ a \in Nat /\ b \in Nat /\ c \in Nat /\ e \in Nat
        /\ a <= Limit + num_blocks_gen /\ b <= e /\ Cardinality(taken) = a + b - c
        /\ size = Limit + num_blocks_gen + e /\ Limit \in Nat /\ num_blocks_gen \in Nat
    BY <1>1, <1>4, <1>6, <2>1, <2>2, CacheFacts
  <2> HIDE DEF a, b, c, e, taken, size
  <2> QED BY <2>2, <2>3 DEF taken
<1>9. Cardinality(Addresses) = size + 1
  BY <1>7, FS_Interval DEF Addresses
<1>10. ~(Addresses \subseteq taken)
  <2> SUFFICES ASSUME Addresses \subseteq taken PROVE FALSE
    OBVIOUS
  <2>1. Cardinality(Addresses) <= Cardinality(taken)
    BY <1>8, FS_Subset
  <2>2. Cardinality(taken) \in Nat
    BY <1>8, FS_CardinalityType
  <2> HIDE DEF taken, size
  <2> QED BY <1>7, <1>8, <1>9, <2>1, <2>2
<1> QED BY <1>10

\* new CodedBlock returns an address nobody uses.
LEMMA UnusedIsUnused ==
    ASSUME TypeOK
    PROVE  /\ Unused \in Addresses /\ Unused \notin Ready
           /\ \A t \in Encoders : block[t] # Unused
<1>1. Len(ct_coded_blocks) <= Limit + num_blocks_gen
  <2>1. Len(ct_coded_blocks) \in Nat
    BY LenProperties DEF TypeOK
  <2>2. Len(ct_coded_blocks) <= Limit \/ Len(ct_coded_blocks) <= num_blocks_gen
    BY DEF TypeOK
  <2> QED BY <2>1, <2>2, CacheFacts
<1>2. \E b \in Addresses : b \notin Ready \cup {block[t] : t \in Encoders}
  BY <1>1, FreeAddress DEF TypeOK, Ready
<1>3. Unused \in Addresses \ (Ready \cup {block[t] : t \in Encoders})
  BY <1>2 DEF Unused
<1> QED BY <1>3

-----------------------------------------------------------------------------
(* What a step leaves alone                                                *)

EncoderActs(t) ==
    \/ Encode(t) \/ CopyBuf(t) \/ FirstCount(t) \/ SecondCount(t)
    \/ ReEncodeBlock(t) \/ CopyCoeffs(t) \/ CopySums(t)
    \/ GenerateOnSeed(t) \/ GenerateOnClient(t)
    \/ PushBack(t) \/ Front(t) \/ Erase(t) \/ Send(t) \/ AcceptRequest(t)

DataActs(t) ==
    StoreBlock(t) \/ IncrementRank(t) \/ IncrementRankInBuf(t) \/ Clear(t) \/ AcceptData(t)

Acts(t) ==
    \/ t \in Encoders /\ EncoderActs(t)
    \/ t \in DataThreads /\ DataActs(t)

LEMMA WhoActs ==
    ASSUME NEW t \in Threads, Step(t) \/ AcceptData(t) \/ AcceptRequest(t)
    PROVE  Acts(t)
  BY DEF Acts, Step, EncoderActs, DataActs, AcceptData, AcceptRequest, Encoders, RequestThreads

LEMMA InsideFacts ==
    /\ DOMAIN Inside = {"cb", "ct_coded_blocks", "counters"}
    /\ Inside["cb"] = {"memset sums", "add coeffs", "add sums", "copy coeffs", "copy sums"}
    /\ Inside["ct_coded_blocks"] = {"front", "erase"}
    /\ Inside["counters"] = {"minus rank_vec_in_buf", "plus rank_vec", "rank_vec_in_buf"}
    /\ Labels = Inside["cb"] \cup Inside["ct_coded_blocks"] \cup Inside["counters"]
                 \cup {"generate", "exited", "encode", "reencode", "count", "memset coeffs",
                       "push_back", "send", "store", "rank_vec", "clear"}
  BY DEF Inside, Labels

\* Using a thing while another thread is inside it shows.
LEMMA UsesShows ==
    ASSUME NEW t, NEW thing, Uses(t, thing), thing \notin overlapped'
    PROVE  /\ overlapped' = overlapped
           /\ \A u \in Threads \ {t} : pc[u] \notin Inside[thing]
  BY DEF Uses

\* Labels a step of an encoder leads to; Made and Goto hide them.
LEMMA EncoderStep ==
    ASSUME TypeOK, NEW t \in Encoders, EncoderActs(t)
    PROVE  /\ UNCHANGED <<server_mode, work_mutex, buf, rank_vec, rank_vec_in_buf>>
           /\ pc' = [pc EXCEPT ![t] = pc'[t]]
           /\ pc'[t] \in Labels \ {"store", "rank_vec", "rank_vec_in_buf", "clear"} \/ pc'[t] = pc[t]
           /\ overlapped \subseteq overlapped'
           /\ \A u \in Encoders \ {t} : /\ tempBuf'[u] = tempBuf[u]
                                        /\ blocks_in_file'[u] = blocks_in_file[u]
                                        /\ coeffs'[u] = coeffs[u] /\ block'[u] = block[u]
<1> USE DEF TypeOK, store, locals, blocks, Goto, Made, Hold, Uses, Fault
<1>1. CASE Encode(t)
  BY <1>1, InsideFacts, CacheFacts DEF Encode
<1>2. CASE CopyBuf(t)
  BY <1>2, InsideFacts, CacheFacts DEF CopyBuf
<1>3. CASE FirstCount(t)
  BY <1>3, InsideFacts, CacheFacts DEF FirstCount
<1>4. CASE SecondCount(t)
  <2>1. CASE UNCHANGED <<pc, tempBuf, blocks_in_file>>
    BY <1>4, <2>1, InsideFacts, CacheFacts DEF SecondCount
  <2>2. CASE /\ Goto(t, "memset coeffs")
             /\ tempBuf' = [tempBuf EXCEPT ![t] = 0]
             /\ blocks_in_file' = [blocks_in_file EXCEPT ![t] = 0]
    BY <1>4, <2>2, InsideFacts, CacheFacts DEF SecondCount
  <2> QED BY <1>4, <2>1, <2>2 DEF SecondCount
<1>5. CASE ReEncodeBlock(t)
  BY <1>5, InsideFacts, CacheFacts DEF ReEncodeBlock, Part
<1>6. CASE CopyCoeffs(t)
  BY <1>6, InsideFacts, CacheFacts DEF CopyCoeffs
<1>7. CASE CopySums(t)
  BY <1>7, InsideFacts, CacheFacts DEF CopySums
<1>8. CASE GenerateOnSeed(t) \/ GenerateOnClient(t)
  BY <1>8, InsideFacts, CacheFacts DEF GenerateOnSeed, GenerateOnClient
<1>9. CASE PushBack(t)
  BY <1>9, InsideFacts, CacheFacts DEF PushBack
<1>10. CASE Front(t)
  BY <1>10, InsideFacts, CacheFacts DEF Front
<1>11. CASE Erase(t)
  <2>1. CASE Fault("empty vector")
    BY <2>1
  <2>2. CASE Hold(t, NoBlock) /\ Goto(t, "generate")
    BY <1>11, <2>2, InsideFacts, CacheFacts DEF Erase
  <2>3. CASE Goto(t, "send") /\ UNCHANGED block
    BY <1>11, <2>3, InsideFacts, CacheFacts DEF Erase
  <2> QED BY <1>11, <2>1, <2>2, <2>3 DEF Erase
<1>12. CASE Send(t)
  BY <1>12, InsideFacts, CacheFacts DEF Send
<1>13. CASE AcceptRequest(t)
  BY <1>13, InsideFacts, CacheFacts DEF AcceptRequest
<1> QED BY <1>1, <1>2, <1>3, <1>4, <1>5, <1>6, <1>7, <1>8, <1>9, <1>10, <1>11, <1>12, <1>13
        DEF EncoderActs

LEMMA DataStep ==
    ASSUME TypeOK, NEW t \in DataThreads, DataActs(t)
    PROVE  /\ UNCHANGED <<server_mode, cb, torn, locals, fault>>
           /\ pc' = [pc EXCEPT ![t] = pc'[t]] /\ pc'[t] \in DataLabels
           /\ overlapped \subseteq overlapped'
<1> USE DEF TypeOK, store, locals, blocks, Goto, Uses, DataLabels
<1>1. CASE StoreBlock(t)
  BY <1>1, CacheFacts DEF StoreBlock
<1>2. CASE IncrementRank(t)
  BY <1>2, CacheFacts DEF IncrementRank
<1>3. CASE IncrementRankInBuf(t)
  BY <1>3, CacheFacts DEF IncrementRankInBuf
<1>4. CASE Clear(t)
  BY <1>4, CacheFacts DEF Clear
<1>5. CASE AcceptData(t)
  BY <1>5, CacheFacts DEF AcceptData
<1> QED BY <1>1, <1>2, <1>3, <1>4, <1>5 DEF DataActs

-----------------------------------------------------------------------------
(* Each part of the invariant is preserved                                 *)

LEMMA PlacesStep ==
    ASSUME IInv, NEW t \in Threads, Acts(t)
    PROVE  Places'
<1>1. TypeOK /\ Places
  BY DEF IInv
<1>2. CASE t \in DataThreads /\ DataActs(t)
  <2>1. pc' = [pc EXCEPT ![t] = pc'[t]] /\ pc'[t] \in DataLabels
    BY <1>1, <1>2, DataStep
  <2> QED BY <1>1, <1>2, <2>1, CacheFacts DEF TypeOK, Places
<1>3. CASE t \in Encoders /\ EncoderActs(t)
  <2>1. /\ pc' = [pc EXCEPT ![t] = pc'[t]]
        /\ pc'[t] \in Labels \ {"store", "rank_vec", "rank_vec_in_buf", "clear"} \/ pc'[t] = pc[t]
    BY <1>1, <1>3, EncoderStep
  <2>2. t = generator => pc'[t] \notin {"exited", "send"}
    <3> SUFFICES ASSUME t = generator, pc[t] \notin {"exited", "send"}
                 PROVE  pc'[t] \notin {"exited", "send"}
      BY <1>1 DEF Places
    <3> QED BY <1>1, <1>3, CacheFacts
            DEF EncoderActs, Encode, CopyBuf, FirstCount, SecondCount, ReEncodeBlock, Part, CopyCoeffs,
                CopySums, GenerateOnSeed, GenerateOnClient, PushBack, Front, Erase, Send, AcceptRequest,
                Made, Goto, Fault, TypeOK
  <2>3. pc'[t] \in {"generate", "push_back"} => t = generator
    <3> SUFFICES ASSUME t # generator, pc[t] \notin {"generate", "push_back"}
                 PROVE  pc'[t] \notin {"generate", "push_back"}
      BY <1>1, <1>3 DEF Places
    <3> QED BY <1>1, <1>3, CacheFacts
            DEF EncoderActs, Encode, CopyBuf, FirstCount, SecondCount, ReEncodeBlock, Part, CopyCoeffs,
                CopySums, GenerateOnSeed, GenerateOnClient, PushBack, Front, Erase, Send, AcceptRequest,
                Made, Goto, Fault, TypeOK
  <2> QED BY <1>1, <1>3, <2>1, <2>2, <2>3, CacheFacts DEF TypeOK, Places
<1> QED BY <1>2, <1>3 DEF Acts

LEMMA StoringStep ==
    ASSUME IInv, NEW t \in Threads, Acts(t)
    PROVE  Storing'
<1>1. TypeOK /\ Storing /\ num_blocks_gen \in Nat
  BY CacheFacts DEF IInv
<1>2. CASE t \in Encoders /\ EncoderActs(t)
  <2>1. /\ UNCHANGED <<work_mutex, buf, rank_vec, rank_vec_in_buf>>
        /\ \A u \in DataThreads : pc'[u] = pc[u]
    <3>1. pc' = [pc EXCEPT ![t] = pc'[t]] /\ t \notin DataThreads
      BY <1>1, <1>2, EncoderStep, CacheFacts
    <3>2. \A u \in DataThreads : pc'[u] = pc[u]
      BY <1>1, <3>1, CacheFacts DEF TypeOK
    <3> QED BY <1>1, <1>2, <3>2, EncoderStep
  <2> QED BY <1>1, <2>1 DEF Storing
<1>3. ASSUME t \in DataThreads, DataActs(t)
      PROVE  \A u \in DataThreads \ {t} : pc'[u] = pc[u]
  <2>1. pc' = [pc EXCEPT ![t] = pc'[t]]
    BY <1>1, <1>3, DataStep
  <2> QED BY <1>1, <2>1, CacheFacts DEF TypeOK
<1>4. buf \in Nat /\ rank_vec \in Nat /\ rank_vec_in_buf \in Nat
  <2>1. {buf, rank_vec, rank_vec_in_buf} \subseteq 0..num_blocks_gen
    BY <1>1, Zenon DEF TypeOK
  <2> QED BY <1>1, <2>1
<1>5. ASSUME t \in DataThreads, StoreBlock(t) PROVE Storing'
  <2>1. CASE pc'[t] = "exited" /\ pc[t] = "store"
             /\ UNCHANGED <<work_mutex, buf, rank_vec, rank_vec_in_buf>>
    BY <1>1, <1>3, <1>5, <2>1 DEF Storing, DataActs
  <2>2. CASE /\ rank_vec < num_blocks_gen /\ ~work_mutex /\ work_mutex' /\ buf' = buf + 1
             /\ pc'[t] = "rank_vec" /\ pc[t] = "store" /\ UNCHANGED <<rank_vec, rank_vec_in_buf>>
    <3>1. buf = rank_vec /\ \A u \in DataThreads : pc[u] \notin {"rank_vec", "rank_vec_in_buf"}
      BY <1>1, <2>2 DEF Storing
    <3>2. rank_vec_in_buf = rank_vec
      BY <1>1, <3>1 DEF Storing
    <3>3. \A u \in DataThreads \ {t} : pc'[u] \notin {"rank_vec", "rank_vec_in_buf"}
      BY <1>3, <1>5, <3>1 DEF DataActs
    <3> QED BY <1>1, <1>4, <2>2, <3>1, <3>2, <3>3 DEF Storing
  <2> QED BY <1>1, <1>5, <2>1, <2>2, CacheFacts DEF StoreBlock, Goto, TypeOK
<1>6. ASSUME t \in DataThreads, IncrementRank(t) PROVE Storing'
  <2>1. /\ pc[t] = "rank_vec" /\ pc'[t] = "rank_vec_in_buf" /\ rank_vec' = rank_vec + 1
        /\ UNCHANGED <<work_mutex, buf, rank_vec_in_buf>>
    BY <1>1, <1>6, CacheFacts DEF IncrementRank, Goto, TypeOK
  <2>2. work_mutex /\ buf = rank_vec + 1 /\ rank_vec_in_buf = rank_vec
    BY <1>1, <1>6, <2>1 DEF Storing
  <2>3. \A u \in DataThreads \ {t} : pc'[u] \notin {"rank_vec", "rank_vec_in_buf"}
    BY <1>1, <1>3, <1>6, <2>1 DEF Storing, DataActs
  <2> QED BY <1>1, <1>4, <1>6, <2>1, <2>2, <2>3 DEF Storing
<1>7. ASSUME t \in DataThreads, IncrementRankInBuf(t) PROVE Storing'
  <2>1. /\ pc[t] = "rank_vec_in_buf" /\ pc'[t] = "clear" /\ ~work_mutex'
        /\ rank_vec_in_buf' = rank_vec_in_buf + 1 /\ UNCHANGED <<buf, rank_vec>>
    BY <1>1, <1>7, CacheFacts DEF IncrementRankInBuf, Goto, TypeOK
  <2>2. buf = rank_vec /\ rank_vec = rank_vec_in_buf + 1
    BY <1>1, <1>7, <2>1 DEF Storing
  <2>3. \A u \in DataThreads : pc'[u] \notin {"rank_vec", "rank_vec_in_buf"}
    BY <1>1, <1>3, <1>7, <2>1 DEF Storing, DataActs
  <2> QED BY <1>1, <1>4, <1>7, <2>1, <2>2, <2>3 DEF Storing
<1>8. ASSUME t \in DataThreads, Clear(t) \/ AcceptData(t) PROVE Storing'
  <2>1. /\ pc[t] \in {"clear", "exited"} /\ pc'[t] \in {"exited", "store"}
        /\ UNCHANGED <<work_mutex, buf, rank_vec, rank_vec_in_buf>>
    BY <1>1, <1>8, CacheFacts DEF Clear, AcceptData, Goto, TypeOK, store
  <2> QED BY <1>1, <1>3, <1>8, <2>1 DEF Storing, DataActs
<1> QED BY <1>2, <1>5, <1>6, <1>7, <1>8 DEF Acts, DataActs

\* pc of the threads that do not act.
LEMMA Others ==
    ASSUME TypeOK, NEW t \in Threads, Acts(t)
    PROVE  \A u \in Threads \ {t} : pc'[u] = pc[u]
<1>1. pc' = [pc EXCEPT ![t] = pc'[t]]
  BY EncoderStep, DataStep DEF Acts
<1> QED BY <1>1 DEF TypeOK

\* The lengths of ct_coded_blocks.
LEMMA QueueStep ==
    ASSUME TypeOK, Places, Handing, NEW t \in Threads, Acts(t)
    PROVE  LET n == Len(ct_coded_blocks)
           IN  /\ n \in Nat /\ n' \in Nat
               /\ \/ n' <= n
                  \/ n' = n + 1 /\ t = generator /\ pc[t] = "push_back" /\ pc'[t] = "generate"
<1> DEFINE n == Len(ct_coded_blocks)
<1>1. ct_coded_blocks \in Seq(Addresses)
  BY DEF TypeOK
<1>2. n \in Nat
  BY <1>1, LenProperties
<1>3. CASE t \in Encoders /\ PushBack(t)
  <2>1. pc[t] = "push_back" /\ pc'[t] = "generate" /\ ct_coded_blocks' = Append(ct_coded_blocks, block[t])
    BY <1>3, CacheFacts DEF PushBack, Goto, TypeOK
  <2>2. block[t] \in Addresses /\ t = generator
    BY <1>3, <2>1 DEF Handing, Owned, TypeOK, Places
  <2>3. Len(Append(ct_coded_blocks, block[t])) = Len(ct_coded_blocks) + 1
    BY <1>1, <2>2, AppendProperties
  <2> QED BY <1>2, <2>1, <2>2, <2>3
<1>4. CASE t \in Encoders /\ Erase(t)
  <2>1. CASE Fault("empty vector")
    <3>1. UNCHANGED ct_coded_blocks
      BY <2>1 DEF Fault, blocks
    <3> QED BY <1>2, <3>1
  <2>2. CASE ct_coded_blocks # <<>> /\ ct_coded_blocks' = Tail(ct_coded_blocks)
    <3>1. n # 0 /\ n' = n - 1
      BY <1>1, <2>2, HeadTailProperties, EmptySeq
    <3> QED BY <1>2, <3>1
  <2> QED BY <1>4, <2>1, <2>2 DEF Erase, Erased
<1>5. CASE t \in Encoders /\ EncoderActs(t) /\ ~PushBack(t) /\ ~Erase(t)
  <2>1. UNCHANGED ct_coded_blocks
    BY <1>5
       DEF EncoderActs, Encode, CopyBuf, FirstCount, SecondCount, ReEncodeBlock, CopyCoeffs, CopySums,
           GenerateOnSeed, GenerateOnClient, Front, Send, AcceptRequest, Fault, blocks
  <2> QED BY <1>2, <2>1
<1>6. CASE t \in DataThreads /\ DataActs(t)
  <2>1. UNCHANGED ct_coded_blocks \/ ct_coded_blocks' = <<>>
    BY <1>6 DEF DataActs, StoreBlock, IncrementRank, IncrementRankInBuf, Clear, AcceptData, blocks
  <2>2. CASE ct_coded_blocks' = <<>>
    <3>1. n' = 0
      BY <2>2, EmptySeq
    <3> QED BY <1>2, <3>1
  <2> QED BY <1>2, <2>1, <2>2
<1> QED BY <1>3, <1>4, <1>5, <1>6 DEF Acts

LEMMA RoomStep ==
    ASSUME IInv, NEW t \in Threads, Acts(t)
    PROVE  Room(pc[generator])'
<1> DEFINE most == IF server_mode THEN Limit ELSE num_blocks_gen
           n == Len(ct_coded_blocks)
           Fits(label, k) == IF label \in {"generate", "front", "erase"} THEN k <= most ELSE k < most
<1>1. TypeOK /\ Places /\ Handing /\ Fits(pc[generator], n)
  BY DEF IInv, Room
<1>2. most \in Nat \ {0} /\ Limit \in Nat /\ num_blocks_gen \in Nat /\ Keep \in Nat
  BY CacheFacts
<1>3. UNCHANGED server_mode
  BY <1>1, EncoderStep, DataStep DEF Acts
<1>4. /\ n \in Nat /\ n' \in Nat
      /\ \/ n' <= n
         \/ n' = n + 1 /\ t = generator /\ pc[t] = "push_back" /\ pc'[t] = "generate"
  BY <1>1, QueueStep
<1>5. SUFFICES Fits(pc'[generator], n')
  BY <1>3 DEF Room
<1>6. CASE t # generator \/ pc'[generator] = pc[generator]
  <2>1. pc'[generator] = pc[generator]
    BY <1>1, <1>6, Others, CacheFacts
  <2>2. n' <= n
    BY <1>4, <2>1
  <2> HIDE DEF most, n
  <2> QED BY <1>1, <1>2, <1>4, <2>1, <2>2
<1>7. CASE t = generator /\ pc'[t] \in {"generate", "front", "erase"}
  <2>1. n' <= most
    <3>1. n <= most /\ (pc[t] = "push_back" => n < most)
      <4> HIDE DEF most, n
      <4> QED BY <1>1, <1>2, <1>4, <1>7
    <3> HIDE DEF most, n
    <3> QED BY <1>2, <1>4, <3>1
  <2> HIDE DEF most, n
  <2> QED BY <1>7, <2>1
<1>8. CASE t = generator /\ pc[t] \notin {"generate", "front", "erase"}
                /\ pc'[t] \notin {"generate", "front", "erase"}
  <2>1. n < most /\ n' <= n
    <3> HIDE DEF most, n
    <3> QED BY <1>1, <1>4, <1>8
  <2> HIDE DEF most, n
  <2> QED BY <1>2, <1>4, <1>8, <2>1
<1>9. CASE t = generator /\ pc[t] \in {"generate", "front", "erase"}
                /\ pc'[t] \notin {"generate", "front", "erase"}
  <2>1. EncoderActs(t) /\ Places /\ t \in Encoders
    BY <1>1, <1>9, CacheFacts DEF Acts
  <2>2. CASE GenerateOnSeed(t)
    <3>1. server_mode /\ ~(n >= Limit)
      BY <1>1, <1>9, <2>2, CacheFacts DEF GenerateOnSeed, Goto, TypeOK, Full
    <3>2. n < most
      BY <1>2, <1>4, <3>1
    <3>3. n' <= n
      BY <1>4, <1>9
    <3> HIDE DEF most, n
    <3> QED BY <1>2, <1>4, <1>9, <3>2, <3>3
  <2>3. CASE GenerateOnClient(t)
    <3>1. ~server_mode /\ n < rank_vec /\ rank_vec \in 0..num_blocks_gen
      BY <1>1, <1>9, <2>3, CacheFacts DEF GenerateOnClient, Goto, TypeOK
    <3>2. n < most
      BY <1>2, <1>4, <3>1
    <3>3. n' <= n
      BY <1>4, <1>9
    <3> HIDE DEF most, n
    <3> QED BY <1>2, <1>4, <1>9, <3>2, <3>3
  <2>4. ~(Front(t) \/ Erase(t)) \/ pc'[t] = pc[t]
    BY <1>1, <1>9, CacheFacts DEF Front, Erase, Goto, Fault, TypeOK
  <2>5. GenerateOnSeed(t) \/ GenerateOnClient(t) \/ pc'[t] = pc[t]
    BY <1>9, <2>1, <2>4, CacheFacts
       DEF EncoderActs, Encode, CopyBuf, FirstCount, SecondCount, ReEncodeBlock, Part, CopyCoeffs, CopySums,
           PushBack, Send, AcceptRequest
  <2> QED BY <1>6, <1>9, <2>2, <2>3, <2>5
<1> QED BY <1>6, <1>7, <1>8, <1>9

\* The numbers, without the rest of TypeOK.
LEMMA CounterTypes ==
    ASSUME TypeOK
    PROVE  buf \in Nat /\ rank_vec \in Nat /\ rank_vec_in_buf \in Nat
<1>1. {buf, rank_vec, rank_vec_in_buf} \subseteq 0..num_blocks_gen
  BY Zenon DEF TypeOK
<1> QED BY <1>1

LEMMA EncodingStep ==
    ASSUME IInv, NEW t \in Threads, Acts(t)
    PROVE  Encoding'
<1>1. TypeOK /\ Encoding /\ buf \in Nat /\ rank_vec \in Nat /\ rank_vec_in_buf \in Nat
  BY CounterTypes DEF IInv
<1>2. CASE t \in DataThreads /\ DataActs(t)
  <2>1. \A u \in Encoders : pc'[u] = pc[u] /\ tempBuf'[u] = tempBuf[u]
    BY <1>1, <1>2, Others, DataStep, CacheFacts DEF Acts, locals
  <2>2. rank_vec' = rank_vec \/ rank_vec' = rank_vec + 1
    BY <1>2 DEF DataActs, StoreBlock, IncrementRank, IncrementRankInBuf, Clear, AcceptData, store
  <2>3. rank_vec > 0 => rank_vec' > 0
    BY <1>1, <2>2
  <2> QED BY <1>1, <2>1, <2>3 DEF Encoding
<1>3. CASE t \in Encoders /\ EncoderActs(t)
  <2>1. /\ \A u \in Encoders \ {t} : pc'[u] = pc[u] /\ tempBuf'[u] = tempBuf[u]
        /\ rank_vec' = rank_vec
    BY <1>1, <1>3, Others, EncoderStep, CacheFacts DEF Acts
  <2> DEFINE Ready1 == /\ pc'[t] = "reencode" => rank_vec > 0
                       /\ pc'[t] \in {"count", "plus rank_vec", "minus rank_vec_in_buf"} =>
                             tempBuf'[t] > 0
  <2>2. Ready1
    <3>1. CASE CopyBuf(t)
      <4>1. pc[t] = "reencode" /\ pc'[t] = "count" /\ tempBuf'[t] = buf
        BY <1>1, <1>3, <3>1, CacheFacts DEF CopyBuf, Goto, TypeOK
      <4>2. rank_vec > 0 /\ rank_vec <= buf
        BY <1>1, <1>3, <4>1 DEF Encoding, IInv, Storing
      <4>3. buf > 0
        BY <1>1, <4>2
      <4> QED BY <4>1, <4>3
    <3>2. CASE FirstCount(t)
      <4>1. pc[t] = "count" /\ pc'[t] # "reencode" /\ tempBuf' = tempBuf
        BY <1>1, <1>3, <3>2, CacheFacts DEF FirstCount, Goto, TypeOK
      <4> QED BY <1>1, <1>3, <4>1 DEF Encoding
    <3>3. CASE GenerateOnClient(t)
      <4>1. Len(ct_coded_blocks) \in Nat
        BY <1>1, LenProperties DEF TypeOK
      <4>2. \/ pc'[t] = "reencode" /\ Len(ct_coded_blocks) < rank_vec
            \/ pc'[t] = "front"
        BY <1>1, <1>3, <3>3, CacheFacts DEF GenerateOnClient, Goto, TypeOK
      <4>3. Len(ct_coded_blocks) < rank_vec => rank_vec > 0
        BY <1>1, <4>1
      <4> QED BY <4>2, <4>3
    <3>4. CASE AcceptRequest(t)
      <4>1. pc'[t] \in {"reencode", "front", "encode"} /\ (pc'[t] = "reencode" => rank_vec > 0)
        BY <1>1, <1>3, <3>4, CacheFacts DEF AcceptRequest, HasRank, Goto, TypeOK
      <4> QED BY <4>1
    <3>5. CASE UNCHANGED <<pc, tempBuf>>
      BY <1>1, <1>3, <3>5 DEF Encoding
    <3>6. CASE ~(CopyBuf(t) \/ FirstCount(t) \/ GenerateOnClient(t) \/ AcceptRequest(t))
               /\ ~UNCHANGED <<pc, tempBuf>>
      <4>1. pc'[t] \notin {"reencode", "count", "plus rank_vec", "minus rank_vec_in_buf"}
        BY <1>1, <1>3, <3>6, CacheFacts
           DEF EncoderActs, Encode, SecondCount, ReEncodeBlock, Part, CopyCoeffs, CopySums, GenerateOnSeed,
               PushBack, Front, Erase, Send, Made, Goto, Fault, locals, TypeOK
      <4> QED BY <4>1
    <3> QED BY <3>1, <3>2, <3>3, <3>4, <3>5, <3>6
  <2> QED BY <1>1, <2>1, <2>2 DEF Encoding
<1> QED BY <1>2, <1>3 DEF Acts

LEMMA CountingStep ==
    ASSUME IInv, NEW t \in Threads, Acts(t)
    PROVE  Counting'
<1>1. TypeOK /\ Counting /\ rank_vec \in Nat /\ rank_vec_in_buf \in Nat
  BY CounterTypes DEF IInv
<1>2. SUFFICES ASSUME "counters" \notin overlapped'
               PROVE  \A u \in Encoders :
                         /\ pc'[u] = "minus rank_vec_in_buf" =>
                               blocks_in_file'[u] = rank_vec' /\ rank_vec_in_buf' = rank_vec'
                         /\ pc'[u] = "plus rank_vec" =>
                               blocks_in_file'[u] = -rank_vec' /\ rank_vec_in_buf' = rank_vec'
  BY DEF Counting
<1>3. "counters" \notin overlapped
  BY <1>1, <1>2, EncoderStep, DataStep DEF Acts
<1>4. \A u \in Threads \ {t} : pc'[u] = pc[u]
  BY <1>1, Others
<1>5. CASE t \in DataThreads /\ (IncrementRank(t) \/ IncrementRankInBuf(t))
  <2>1. \A u \in Encoders : pc[u] \notin {"minus rank_vec_in_buf", "plus rank_vec"}
    BY <1>2, <1>5, UsesShows, InsideFacts, CacheFacts DEF IncrementRank, IncrementRankInBuf
  <2> QED BY <1>4, <1>5, <2>1, CacheFacts
<1>6. CASE t \in DataThreads /\ DataActs(t) /\ ~(IncrementRank(t) \/ IncrementRankInBuf(t))
  <2>1. UNCHANGED <<rank_vec, rank_vec_in_buf, blocks_in_file>>
    BY <1>6 DEF DataActs, StoreBlock, Clear, AcceptData, store, locals
  <2> QED BY <1>1, <1>3, <1>4, <1>6, <2>1, CacheFacts DEF Counting
<1>7. ASSUME t \in Encoders, EncoderActs(t),
             pc'[t] \in {"minus rank_vec_in_buf", "plus rank_vec"} =>
                 pc'[t] = pc[t] /\ blocks_in_file'[t] = blocks_in_file[t]
      PROVE  \A u \in Encoders :
                         /\ pc'[u] = "minus rank_vec_in_buf" =>
                               blocks_in_file'[u] = rank_vec' /\ rank_vec_in_buf' = rank_vec'
                         /\ pc'[u] = "plus rank_vec" =>
                               blocks_in_file'[u] = -rank_vec' /\ rank_vec_in_buf' = rank_vec'
  <2>1. /\ rank_vec' = rank_vec /\ rank_vec_in_buf' = rank_vec_in_buf
        /\ \A u \in Encoders \ {t} : blocks_in_file'[u] = blocks_in_file[u]
    BY <1>1, <1>7, EncoderStep
  <2> QED BY <1>1, <1>3, <1>4, <1>7, <2>1, CacheFacts DEF Counting
<1>8. CASE t \in Encoders /\ FirstCount(t)
  <2>1. \A u \in Threads \ {t} : pc[u] \notin Inside["counters"]
    BY <1>2, <1>8, UsesShows DEF FirstCount
  <2>2. rank_vec_in_buf = rank_vec
    BY <1>8, <2>1, InsideFacts, CacheFacts DEF IInv, Storing
  <2>3. /\ rank_vec' = rank_vec /\ rank_vec_in_buf' = rank_vec_in_buf
        /\ \/ pc'[t] = "minus rank_vec_in_buf" /\ blocks_in_file'[t] = rank_vec
           \/ pc'[t] = "plus rank_vec" /\ blocks_in_file'[t] = -rank_vec_in_buf
    BY <1>1, <1>8, CacheFacts DEF FirstCount, Goto, TypeOK, store
  <2> QED BY <1>4, <2>1, <2>2, <2>3, InsideFacts, CacheFacts
<1>9. CASE t \in Encoders /\ EncoderActs(t) /\ ~FirstCount(t)
  <2>1. pc'[t] \in {"minus rank_vec_in_buf", "plus rank_vec"} =>
            pc'[t] = pc[t] /\ blocks_in_file'[t] = blocks_in_file[t]
    BY <1>1, <1>9, CacheFacts
       DEF EncoderActs, Encode, CopyBuf, SecondCount, ReEncodeBlock, Part, CopyCoeffs, CopySums,
           GenerateOnSeed, GenerateOnClient, PushBack, Front, Erase, Send, AcceptRequest,
           Made, Goto, Fault, locals, TypeOK
  <2> QED BY <1>7, <1>9, <2>1
<1> QED BY <1>5, <1>6, <1>8, <1>9 DEF Acts

LEMMA CombiningStep ==
    ASSUME IInv, NEW t \in Threads, Acts(t)
    PROVE  Combining'
<1> DEFINE Mine(u) == /\ pc[u] = "memset sums" => cb.coeffs = {}
                      /\ pc[u] = "add coeffs" => cb.coeffs = {} /\ cb.sums = {}
                      /\ pc[u] = "add sums" => cb.coeffs = {u} /\ cb.sums = {}
                      /\ pc[u] \in {"copy coeffs", "copy sums"} => cb.coeffs = {u} /\ cb.sums = {u}
                      /\ pc[u] = "copy sums" => coeffs[u] = {u}
<1>1. TypeOK /\ Combining
  BY DEF IInv
<1>2. SUFFICES ASSUME "cb" \notin overlapped'
               PROVE  torn' = {} /\ \A u \in Encoders : Mine(u)'
  BY DEF Combining
<1>3. "cb" \notin overlapped /\ torn = {} /\ \A u \in Encoders : Mine(u)
  <2>1. "cb" \notin overlapped
    BY <1>1, <1>2, EncoderStep, DataStep DEF Acts
  <2> QED BY <1>1, <2>1 DEF Combining
<1>4. \A u \in Threads \ {t} : pc'[u] = pc[u]
  BY <1>1, Others
<1>5. CASE t \in DataThreads /\ DataActs(t)
  <2>1. UNCHANGED <<cb, torn, coeffs>>
    BY <1>1, <1>5, DataStep DEF locals
  <2> QED BY <1>3, <1>4, <1>5, <2>1, CacheFacts
<1>6. CASE t \in Encoders /\ ReEncodeBlock(t)
  <2>1. \A u \in Threads \ {t} : pc[u] \notin Inside["cb"]
    BY <1>2, <1>6, UsesShows DEF ReEncodeBlock
  <2>2. UNCHANGED <<torn, coeffs>>
    BY <1>6 DEF ReEncodeBlock, blocks, locals
  <2>3. /\ pc[t] = "memset coeffs" => pc'[t] = "memset sums" /\ cb'.coeffs = {}
        /\ pc[t] = "memset sums" => /\ pc'[t] = "add coeffs" /\ cb'.sums = {}
                                    /\ cb'.coeffs = cb.coeffs
        /\ pc[t] = "add coeffs" => /\ pc'[t] = "add sums" /\ cb'.sums = cb.sums
                                   /\ cb'.coeffs = cb.coeffs \cup {t}
        /\ pc[t] = "add sums" => /\ pc'[t] = "copy coeffs" /\ cb'.sums = cb.sums \cup {t}
                                 /\ cb'.coeffs = cb.coeffs
        /\ pc[t] \in {"memset coeffs", "memset sums", "add coeffs", "add sums"}
    BY <1>1, <1>6, CacheFacts DEF ReEncodeBlock, Part, MemsetSums, Goto, TypeOK
  <2>4. Mine(t)'
    BY <1>3, <1>6, <2>3
  <2>5. \A u \in Encoders \ {t} : Mine(u)'
    BY <1>4, <2>1, InsideFacts, CacheFacts
  <2> QED BY <1>3, <2>2, <2>4, <2>5
<1>7. CASE t \in Encoders /\ CopyCoeffs(t)
  <2>1. /\ pc[t] = "copy coeffs" /\ pc'[t] = "copy sums" /\ coeffs'[t] = cb.coeffs
        /\ UNCHANGED <<cb, torn>> /\ \A u \in Encoders \ {t} : coeffs'[u] = coeffs[u]
    BY <1>1, <1>7, CacheFacts DEF CopyCoeffs, Goto, TypeOK, blocks
  <2> QED BY <1>3, <1>4, <1>7, <2>1, CacheFacts
<1>8. CASE t \in Encoders /\ CopySums(t)
  <2>1. /\ pc[t] = "copy sums" /\ UNCHANGED cb /\ pc'[t] \in {"push_back", "send"}
        /\ \A u \in Encoders \ {t} : coeffs'[u] = coeffs[u]
        /\ torn' = IF coeffs[t] = cb.sums THEN torn \ {Unused} ELSE torn \cup {Unused}
    BY <1>1, <1>8, CacheFacts DEF CopySums, Made, Goto, TypeOK
  <2>2. coeffs[t] = cb.sums
    BY <1>3, <1>8, <2>1
  <2> QED BY <1>3, <1>4, <1>8, <2>1, <2>2, CacheFacts
<1>9. CASE t \in Encoders /\ EncoderActs(t) /\ ~(ReEncodeBlock(t) \/ CopyCoeffs(t) \/ CopySums(t))
  <2>1. UNCHANGED <<cb, torn, coeffs>>
    BY <1>9
       DEF EncoderActs, Encode, CopyBuf, FirstCount, SecondCount, GenerateOnSeed, GenerateOnClient,
           PushBack, Front, Erase, Send, AcceptRequest, Fault, blocks, locals
  <2>2. pc'[t] = pc[t] \/ pc'[t] \notin Inside["cb"]
    <3>1. \/ pc'[t] = pc[t]
          \/ pc'[t] \notin {"memset sums", "add coeffs", "add sums", "copy coeffs", "copy sums"}
      BY <1>1, <1>9, CacheFacts
         DEF EncoderActs, Encode, CopyBuf, FirstCount, SecondCount, GenerateOnSeed, GenerateOnClient,
             PushBack, Front, Erase, Send, AcceptRequest, Made, Goto, Fault, TypeOK
    <3> QED BY <3>1, InsideFacts
  <2> QED BY <1>3, <1>4, <1>9, <2>1, <2>2, CacheFacts, InsideFacts
<1> QED BY <1>5, <1>6, <1>7, <1>8, <1>9 DEF Acts, EncoderActs

\* ct_coded_blocks as a sequence of addresses: its ends.
LEMMA QueueFacts ==
    ASSUME NEW q \in Seq(Addresses)
    PROVE  /\ Len(q) \in Nat /\ DOMAIN q = 1..Len(q)
           /\ \A i \in DOMAIN q : q[i] \in Addresses
           /\ q # <<>> => /\ Len(q) > 0 /\ Head(q) = q[1] /\ 1 \in DOMAIN q
                          /\ Tail(q) \in Seq(Addresses)
                          /\ \A i \in DOMAIN Tail(q) : i + 1 \in DOMAIN q /\ Tail(q)[i] = q[i + 1]
           /\ \A b \in Addresses :
                 /\ Append(q, b) \in Seq(Addresses)
                 /\ DOMAIN Append(q, b) = DOMAIN q \cup {Len(q) + 1} /\ Len(q) + 1 \notin DOMAIN q
                 /\ \A i \in DOMAIN q : Append(q, b)[i] = q[i]
                 /\ Append(q, b)[Len(q) + 1] = b
<1>1. Len(q) \in Nat /\ DOMAIN q = 1..Len(q)
  BY LenProperties
<1>2. \A i \in DOMAIN q : q[i] \in Addresses
  BY <1>1, ElementOfSeq
<1>3. ASSUME q # <<>>
      PROVE  /\ Len(q) > 0 /\ Head(q) = q[1] /\ 1 \in DOMAIN q
             /\ Tail(q) \in Seq(Addresses)
             /\ \A i \in DOMAIN Tail(q) : i + 1 \in DOMAIN q /\ Tail(q)[i] = q[i + 1]
  <2>1. /\ Tail(q) \in Seq(Addresses) /\ Len(Tail(q)) = Len(q) - 1
        /\ \A i \in 1..Len(Tail(q)) : Tail(q)[i] = q[i + 1]
    BY <1>3, HeadTailProperties
  <2>2. Len(q) # 0
    BY <1>3, EmptySeq
  <2>3. DOMAIN Tail(q) = 1..Len(q) - 1
    BY <2>1, LenProperties
  <2>4. \A i \in 1..Len(q) - 1 : i + 1 \in 1..Len(q)
    BY <1>1
  <2>5. Len(q) > 0 /\ 1 \in 1..Len(q)
    BY <1>1, <2>2
  <2> QED BY <1>1, <2>1, <2>3, <2>4, <2>5
<1>4. ASSUME NEW b \in Addresses
      PROVE  /\ Append(q, b) \in Seq(Addresses)
             /\ DOMAIN Append(q, b) = DOMAIN q \cup {Len(q) + 1} /\ Len(q) + 1 \notin DOMAIN q
             /\ \A i \in DOMAIN q : Append(q, b)[i] = q[i]
             /\ Append(q, b)[Len(q) + 1] = b
  <2>1. /\ Append(q, b) \in Seq(Addresses) /\ Len(Append(q, b)) = Len(q) + 1
        /\ \A i \in 1..Len(q) : Append(q, b)[i] = q[i]
        /\ Append(q, b)[Len(q) + 1] = b
    BY AppendProperties
  <2>2. DOMAIN Append(q, b) = 1..Len(q) + 1
    BY <2>1, LenProperties
  <2>3. 1..Len(q) + 1 = 1..Len(q) \cup {Len(q) + 1} /\ Len(q) + 1 \notin 1..Len(q)
    BY <1>1
  <2> QED BY <1>1, <2>1, <2>2, <2>3
<1> QED BY <1>1, <1>2, <1>3, <1>4

LEMMA OwnedStep ==
    ASSUME IInv, NEW t \in Threads, Acts(t)
    PROVE  \A u \in Encoders : Owned(u)'
<1>1. TypeOK /\ Places /\ \A u \in Encoders : Owned(u)
  BY DEF IInv, Handing, Owned
<1>2. \A u \in Threads \ {t} : pc'[u] = pc[u]
  BY <1>1, Others
<1>3. CASE t \in DataThreads /\ DataActs(t)
  BY <1>1, <1>2, <1>3, DataStep, CacheFacts DEF locals, Owned
<1>4. CASE t \in Encoders /\ EncoderActs(t)
  <2>1. \A u \in Encoders \ {t} : block'[u] = block[u]
    BY <1>1, <1>4, EncoderStep
  <2>2. Owned(t)'
    <3>1. CASE Encode(t) \/ CopySums(t)
      <4>1. block'[t] = Unused /\ pc'[t] \in {"push_back", "send"}
        BY <1>1, <1>4, <3>1, CacheFacts DEF Encode, CopySums, Hold, Made, Goto, TypeOK
      <4> QED BY <1>1, <4>1, UnusedIsUnused, CacheFacts DEF Owned
    <3>2. CASE PushBack(t) \/ Send(t)
      <4>1. block'[t] = NoBlock /\ pc'[t] \in {"generate", "exited"}
        BY <1>1, <1>4, <3>2, CacheFacts DEF PushBack, Send, Hold, Goto, TypeOK
      <4> QED BY <4>1 DEF Owned
    <3>3. CASE Front(t)
      <4>1. CASE UNCHANGED <<pc, block>>
        BY <1>1, <1>4, <4>1 DEF Owned
      <4>2. CASE ct_coded_blocks # <<>> /\ Hold(t, Head(ct_coded_blocks)) /\ Goto(t, "erase")
        <5>1. block'[t] = Head(ct_coded_blocks) /\ pc'[t] = "erase"
          BY <1>1, <1>4, <4>2, CacheFacts DEF Hold, Goto, TypeOK
        <5>2. Head(ct_coded_blocks) \in Addresses
          <6>1. ct_coded_blocks \in Seq(Addresses)
            BY <1>1 DEF TypeOK
          <6>2. Head(ct_coded_blocks) = ct_coded_blocks[1] /\ 1 \in DOMAIN ct_coded_blocks
            BY <4>2, <6>1, QueueFacts
          <6> QED BY <6>1, <6>2, QueueFacts
        <5> QED BY <5>1, <5>2, CacheFacts DEF Owned
      <4> QED BY <3>3, <4>1, <4>2 DEF Front, Fault, locals
    <3>4. CASE Erase(t)
      <4>1. CASE UNCHANGED <<pc, block>>
        BY <1>1, <1>4, <4>1 DEF Owned
      <4>2. CASE Hold(t, NoBlock) /\ Goto(t, "generate")
        BY <1>1, <1>4, <4>2, CacheFacts DEF Hold, Goto, TypeOK, Owned
      <4>3. CASE pc[t] = "erase" /\ Goto(t, "send") /\ UNCHANGED block
        BY <1>1, <1>4, <4>3, CacheFacts DEF Goto, TypeOK, Owned
      <4> QED BY <3>4, <4>1, <4>2, <4>3 DEF Erase, Fault, locals
    <3>5. CASE ~(Encode(t) \/ CopySums(t) \/ PushBack(t) \/ Send(t) \/ Front(t) \/ Erase(t))
      <4>1. /\ block' = block
            /\ \/ pc'[t] = pc[t]
               \/ /\ pc[t] \notin {"push_back", "erase", "send"}
                  /\ pc'[t] \notin {"push_back", "erase", "send"}
        BY <1>1, <1>4, <3>5, CacheFacts
           DEF EncoderActs, CopyBuf, FirstCount, SecondCount, ReEncodeBlock, Part, CopyCoeffs,
               GenerateOnSeed, GenerateOnClient, AcceptRequest, Goto, locals, TypeOK
      <4> QED BY <1>1, <1>4, <4>1 DEF Owned
    <3> QED BY <3>1, <3>2, <3>3, <3>4, <3>5
  <2> QED BY <1>1, <1>2, <1>4, <2>1, <2>2, CacheFacts DEF Owned
<1> QED BY <1>3, <1>4 DEF Acts

\* A thread whose step leaves the queue and the blocks in hand alone.
LEMMA FindsKept ==
    ASSUME TypeOK, NEW t \in Encoders, UNCHANGED <<ct_coded_blocks, block>>,
           \A u \in Encoders \ {t} : pc'[u] = pc[u],
           Distinct, \A u \in Encoders : Finds(u),
           \/ pc'[t] = pc[t]
           \/ block[t] = NoBlock /\ pc'[t] # "erase"
              /\ (pc'[t] = "front" => ct_coded_blocks # <<>>)
    PROVE  Distinct' /\ \A u \in Encoders : Finds(u)'
<1>1. Distinct'
  BY DEF Distinct
<1>2. Finds(t)'
  BY DEF Finds
<1>3. \A u \in Encoders \ {t} : Finds(u)'
  BY DEF Finds
<1> QED BY <1>1, <1>2, <1>3

LEMMA HandedStep ==
    ASSUME IInv, NEW t \in Threads, Acts(t)
    PROVE  Handing'
<1>1. TypeOK /\ Places /\ \A u \in Encoders : Owned(u)
  BY DEF IInv, Handing
<1>2. SUFFICES ASSUME "ct_coded_blocks" \notin overlapped'
               PROVE  Distinct' /\ \A u \in Encoders : Finds(u)'
  BY OwnedStep DEF Handing
<1>3. "ct_coded_blocks" \notin overlapped /\ Distinct /\ \A u \in Encoders : Finds(u)
  <2>1. "ct_coded_blocks" \notin overlapped
    BY <1>1, <1>2, EncoderStep, DataStep DEF Acts
  <2> QED BY <2>1 DEF IInv, Handing
<1>4. /\ \A u \in Threads \ {t} : pc'[u] = pc[u]
      /\ t \in Encoders => \A u \in Encoders \ {t} : block'[u] = block[u]
  <2>1. \A u \in Threads \ {t} : pc'[u] = pc[u]
    BY <1>1, Others
  <2>2. ASSUME t \in Encoders PROVE \A u \in Encoders \ {t} : block'[u] = block[u]
    <3>1. EncoderActs(t)
      BY <2>2, CacheFacts DEF Acts
    <3> QED BY <1>1, <2>2, <3>1, EncoderStep
  <2> QED BY <2>1, <2>2
<1>5. ct_coded_blocks \in Seq(Addresses)
  BY <1>1 DEF TypeOK
<1>6. ASSUME Uses(t, "ct_coded_blocks")
      PROVE  \A u \in Encoders \ {t} : pc[u] \notin {"front", "erase"} /\ pc'[u] \notin {"front", "erase"}
  BY <1>2, <1>4, <1>6, UsesShows, InsideFacts, CacheFacts
<1>7. CASE t \in DataThreads /\ Clear(t)
  <2>1. ct_coded_blocks' = <<>> /\ block' = block
    BY <1>7 DEF Clear, locals
  <2>2. \A u \in Encoders : pc'[u] \notin {"front", "erase"}
    BY <1>6, <1>7, CacheFacts DEF Clear
  <2>3. \A u \in Encoders : pc'[u] = pc[u]
    BY <1>4, <1>7, CacheFacts
  <2>4. Distinct'
    BY <2>1 DEF Distinct
  <2> QED BY <1>3, <2>1, <2>2, <2>3, <2>4 DEF Finds
<1>8. CASE t \in DataThreads /\ DataActs(t) /\ ~Clear(t)
  <2>1. UNCHANGED <<ct_coded_blocks, block>>
    BY <1>8 DEF DataActs, StoreBlock, IncrementRank, IncrementRankInBuf, AcceptData, blocks, locals
  <2>2. \A u \in Encoders : pc'[u] = pc[u]
    BY <1>4, <1>8, CacheFacts
  <2>3. Distinct'
    BY <1>3, <2>1 DEF Distinct
  <2> QED BY <1>3, <2>1, <2>2, <2>3 DEF Finds
<1>9. CASE t \in Encoders /\ (Encode(t) \/ CopySums(t))
  <2>1. /\ UNCHANGED ct_coded_blocks /\ block'[t] = Unused
        /\ pc[t] \notin {"front", "erase"} /\ pc'[t] \in {"push_back", "send"}
    BY <1>1, <1>9, CacheFacts DEF Encode, CopySums, Hold, Made, Goto, TypeOK, blocks
  <2>2. /\ \A i \in DOMAIN ct_coded_blocks : ct_coded_blocks[i] # Unused
        /\ \A u \in Encoders : block[u] # Unused
    BY <1>1, UnusedIsUnused DEF Ready
  <2>3. Distinct'
    BY <1>3, <2>1 DEF Distinct
  <2>4. Finds(t)'
    BY <1>4, <1>9, <2>1, <2>2 DEF Finds
  <2>5. \A u \in Encoders \ {t} : Finds(u)'
    BY <1>3, <1>4, <1>9, <2>1, <2>2, CacheFacts DEF Finds
  <2> QED BY <2>3, <2>4, <2>5
<1>10. CASE t \in Encoders /\ PushBack(t)
  <2>1. /\ pc[t] = "push_back" /\ pc'[t] = "generate" /\ block'[t] = NoBlock
        /\ ct_coded_blocks' = Append(ct_coded_blocks, block[t])
    BY <1>1, <1>10, CacheFacts DEF PushBack, Hold, Goto, TypeOK
  <2>2. /\ block[t] # NoBlock /\ block[t] \in Addresses
        /\ \A i \in DOMAIN ct_coded_blocks : ct_coded_blocks[i] # block[t]
        /\ \A u \in Encoders \ {t} : block[u] # block[t]
    <3>1. block[t] # NoBlock
      BY <1>1, <1>10, <2>1 DEF Owned
    <3>2. block[t] \in Addresses
      BY <1>1, <1>10, <3>1 DEF TypeOK
    <3> QED BY <1>3, <1>10, <2>1, <3>1, <3>2 DEF Finds
  <2>3. /\ DOMAIN ct_coded_blocks' = DOMAIN ct_coded_blocks \cup {Len(ct_coded_blocks) + 1}
        /\ \A i \in DOMAIN ct_coded_blocks : ct_coded_blocks'[i] = ct_coded_blocks[i]
        /\ ct_coded_blocks'[Len(ct_coded_blocks) + 1] = block[t]
    BY <1>5, <2>1, <2>2, QueueFacts
  <2>4. Distinct'
    BY <1>3, <2>2, <2>3 DEF Distinct
  <2>5. Finds(t)'
    BY <2>1 DEF Finds
  <2>6. ASSUME NEW u \in Encoders \ {t} PROVE Finds(u)'
    <3>1. /\ pc'[u] \notin {"front", "erase"} /\ pc'[u] = pc[u] /\ block'[u] = block[u]
          /\ block[u] # block[t]
      BY <1>4, <1>6, <1>10, <2>2, CacheFacts DEF PushBack
    <3>2. block[u] # NoBlock => \A i \in DOMAIN ct_coded_blocks' : ct_coded_blocks'[i] # block[u]
      BY <1>3, <2>3, <3>1 DEF Finds
    <3>3. block[u] # NoBlock => \A v \in Encoders \ {u} : block'[v] # block[u]
      BY <1>3, <1>4, <1>10, <2>1, <3>1 DEF Finds
    <3> QED BY <3>1, <3>2, <3>3 DEF Finds
  <2> QED BY <2>4, <2>5, <2>6
<1>11. CASE t \in Encoders /\ Front(t)
  <2>1. CASE Fault("empty vector")
    <3>1. UNCHANGED <<pc, ct_coded_blocks, block>>
      BY <2>1 DEF Fault, blocks, locals
    <3> QED BY <1>1, <1>3, <1>11, <3>1, FindsKept
  <2>2. CASE /\ ct_coded_blocks # <<>> /\ Hold(t, Head(ct_coded_blocks))
             /\ Uses(t, "ct_coded_blocks") /\ Goto(t, "erase") /\ UNCHANGED blocks
    <3>1. pc'[t] = "erase" /\ block'[t] = ct_coded_blocks[1] /\ UNCHANGED ct_coded_blocks
          /\ 1 \in DOMAIN ct_coded_blocks
      <4>1. Head(ct_coded_blocks) = ct_coded_blocks[1] /\ 1 \in DOMAIN ct_coded_blocks
        BY <1>5, <2>2, QueueFacts
      <4>2. pc'[t] = "erase" /\ block'[t] = Head(ct_coded_blocks) /\ UNCHANGED ct_coded_blocks
        BY <1>1, <1>11, <2>2, CacheFacts DEF Hold, Goto, TypeOK, blocks
      <4> QED BY <4>1, <4>2
    <3>2. Distinct'
      BY <1>3, <3>1 DEF Distinct
    <3>3. Finds(t)'
      BY <2>2, <3>1 DEF Finds
    <3>4. ASSUME NEW u \in Encoders \ {t} PROVE Finds(u)'
      BY <1>3, <1>4, <1>6, <1>11, <2>2, <3>1, CacheFacts DEF Finds
    <3> QED BY <3>2, <3>3, <3>4
  <2> QED BY <1>11, <2>1, <2>2 DEF Front
<1>12. CASE t \in Encoders /\ Erase(t)
  <2>1. CASE Fault("empty vector")
    <3>1. UNCHANGED <<pc, ct_coded_blocks, block>>
      BY <2>1 DEF Fault, blocks, locals
    <3> QED BY <1>1, <1>3, <1>12, <3>1, FindsKept
  <2>2. CASE /\ ct_coded_blocks # <<>> /\ ct_coded_blocks' = Tail(ct_coded_blocks)
             /\ Uses(t, "ct_coded_blocks")
             /\ \/ Hold(t, NoBlock) /\ Goto(t, "generate")
                \/ Goto(t, "send") /\ UNCHANGED block
    <3>1. /\ pc[t] = "erase" /\ pc'[t] \in {"generate", "send"}
          /\ block'[t] = NoBlock \/ block'[t] = block[t]
      BY <1>1, <1>12, <2>2, CacheFacts DEF Erase, Hold, Goto, TypeOK
    <3>2. block[t] = ct_coded_blocks[1] /\ 1 \in DOMAIN ct_coded_blocks
      BY <1>3, <1>5, <1>12, <2>2, <3>1, QueueFacts DEF Finds
    <3>3. /\ DOMAIN ct_coded_blocks \subseteq Nat
          /\ \A i \in DOMAIN ct_coded_blocks' :
                /\ i \in Nat \ {0} /\ i + 1 \in DOMAIN ct_coded_blocks
                /\ ct_coded_blocks'[i] = ct_coded_blocks[i + 1]
      <4>1. Tail(ct_coded_blocks) \in Seq(Addresses)
        BY <1>5, <2>2, QueueFacts
      <4>2. DOMAIN Tail(ct_coded_blocks) = 1..Len(Tail(ct_coded_blocks))
            /\ Len(Tail(ct_coded_blocks)) \in Nat /\ Len(ct_coded_blocks) \in Nat
            /\ DOMAIN ct_coded_blocks = 1..Len(ct_coded_blocks)
        BY <1>5, <4>1, LenProperties
      <4>3. \A i \in DOMAIN Tail(ct_coded_blocks) :
               i + 1 \in DOMAIN ct_coded_blocks /\ Tail(ct_coded_blocks)[i] = ct_coded_blocks[i + 1]
        BY <1>5, <2>2, QueueFacts
      <4> QED BY <2>2, <4>2, <4>3
    <3>4. Distinct'
      <4> SUFFICES ASSUME NEW i \in DOMAIN ct_coded_blocks', NEW j \in DOMAIN ct_coded_blocks',
                          ct_coded_blocks'[i] = ct_coded_blocks'[j]
                   PROVE  i = j
        BY DEF Distinct
      <4>1. i + 1 = j + 1
        BY <1>3, <3>3 DEF Distinct
      <4> QED BY <3>3, <4>1
    <3>5. \A i \in DOMAIN ct_coded_blocks' : ct_coded_blocks'[i] # block[t]
      <4> SUFFICES ASSUME NEW i \in DOMAIN ct_coded_blocks' PROVE ct_coded_blocks'[i] # block[t]
        OBVIOUS
      <4>1. i + 1 # 1
        BY <3>3
      <4> QED BY <1>3, <3>2, <3>3, <4>1 DEF Distinct
    <3>6. ASSUME NEW u \in Encoders \ {t}, block[u] # NoBlock
          PROVE  /\ block[u] # block[t]
                 /\ \A i \in DOMAIN ct_coded_blocks' : ct_coded_blocks'[i] # block[u]
                 /\ \A v \in Encoders \ {u} : block[v] # block[u]
      <4>1. pc[u] # "erase"
        BY <1>6, <2>2
      <4> QED BY <1>3, <1>12, <3>3, <3>6, <4>1 DEF Finds
    <3>7. Finds(t)'
      <4>1. block'[t] # NoBlock => block'[t] = block[t]
        BY <3>1
      <4>2. \A u \in Encoders \ {t} : block'[u] = block[u]
        BY <1>4, <1>12
      <4>3. block'[t] # NoBlock => \A u \in Encoders \ {t} : block'[u] # block'[t]
        BY <3>6, <4>1, <4>2
      <4> QED BY <3>1, <3>5, <4>1, <4>3 DEF Finds
    <3>8. ASSUME NEW u \in Encoders \ {t} PROVE Finds(u)'
      <4>1. block'[u] = block[u] /\ pc'[u] \notin {"front", "erase"}
        BY <1>4, <1>6, <1>12, <2>2
      <4>2. block[u] # NoBlock => \A v \in Encoders \ {u} : block'[v] # block[u]
        BY <1>4, <1>12, <3>1, <3>6
      <4> QED BY <3>6, <4>1, <4>2 DEF Finds
    <3> QED BY <3>4, <3>7, <3>8
  <2> QED BY <1>12, <2>1, <2>2 DEF Erase, Erased
<1>13. CASE t \in Encoders /\ Send(t)
  <2>1. /\ UNCHANGED ct_coded_blocks /\ block'[t] = NoBlock /\ pc'[t] = "exited"
    BY <1>1, <1>13, CacheFacts DEF Send, Hold, Goto, TypeOK, blocks
  <2>2. Distinct'
    BY <1>3, <2>1 DEF Distinct
  <2>3. Finds(t)'
    BY <2>1 DEF Finds
  <2>4. \A u \in Encoders \ {t} : Finds(u)'
    BY <1>3, <1>4, <1>13, <2>1, CacheFacts DEF Finds
  <2> QED BY <2>2, <2>3, <2>4
<1>14. CASE t \in Encoders /\ (GenerateOnSeed(t) \/ GenerateOnClient(t) \/ AcceptRequest(t))
  <2>1. UNCHANGED <<ct_coded_blocks, block>>
    BY <1>14 DEF GenerateOnSeed, GenerateOnClient, AcceptRequest, blocks, locals
  <2>2. pc[t] \in {"generate", "exited"} /\ pc'[t] \in {"front", "encode", "reencode"}
    BY <1>1, <1>14, CacheFacts DEF GenerateOnSeed, GenerateOnClient, AcceptRequest, Goto, TypeOK
  <2>3. block[t] = NoBlock
    BY <1>1, <1>14, <2>2 DEF Owned
  <2>4. pc'[t] = "front" => ct_coded_blocks # <<>>
    <3>1. Len(ct_coded_blocks) \in Nat /\ (ct_coded_blocks = <<>> => Len(ct_coded_blocks) = 0)
      BY <1>5, LenProperties, EmptySeq
    <3>2. pc'[t] = "front" => \/ ct_coded_blocks # <<>> \/ Len(ct_coded_blocks) >= Limit
                              \/ Len(ct_coded_blocks) > Keep
      BY <1>1, <1>14, CacheFacts DEF GenerateOnSeed, GenerateOnClient, AcceptRequest, Full, Goto, TypeOK
    <3>3. ct_coded_blocks = <<>> => ~(Len(ct_coded_blocks) >= Limit \/ Len(ct_coded_blocks) > Keep)
      BY <3>1, CacheFacts
    <3> QED BY <3>2, <3>3
  <2> QED BY <1>1, <1>3, <1>4, <1>14, <2>1, <2>2, <2>3, <2>4, FindsKept, CacheFacts
<1>15. CASE t \in Encoders
            /\ (CopyBuf(t) \/ FirstCount(t) \/ SecondCount(t) \/ ReEncodeBlock(t) \/ CopyCoeffs(t))
  <2>1. UNCHANGED <<ct_coded_blocks, block>>
    BY <1>15 DEF CopyBuf, FirstCount, SecondCount, ReEncodeBlock, CopyCoeffs, blocks, locals
  <2>2. \/ pc'[t] = pc[t]
        \/ pc[t] \notin {"push_back", "erase", "send"} /\ pc'[t] \notin {"front", "erase"}
    BY <1>1, <1>15, CacheFacts
       DEF CopyBuf, FirstCount, SecondCount, ReEncodeBlock, Part, CopyCoeffs, Goto, TypeOK
  <2>3. pc'[t] = pc[t] \/ block[t] = NoBlock
    BY <1>1, <1>15, <2>2 DEF Owned
  <2> QED BY <1>1, <1>3, <1>4, <1>15, <2>1, <2>2, <2>3, FindsKept, CacheFacts
<1> QED BY <1>7, <1>8, <1>9, <1>10, <1>11, <1>12, <1>13, <1>14, <1>15 DEF Acts, EncoderActs

LEMMA FaultStep ==
    ASSUME IInv, NEW t \in Threads, Acts(t), fault = "none"
    PROVE  FaultsOnlyByOverlap'
<1>1. TypeOK /\ Encoding /\ Counting /\ Handing
  BY DEF IInv
<1>2. overlapped \subseteq overlapped'
  BY <1>1, EncoderStep, DataStep DEF Acts
<1>3. CASE UNCHANGED fault
  BY <1>3 DEF FaultsOnlyByOverlap
<1>4. CASE t \in Encoders /\ SecondCount(t) /\ ~UNCHANGED fault
  <2>1. pc[t] \in {"plus rank_vec", "minus rank_vec_in_buf"}
    BY <1>4 DEF SecondCount
  <2>2. tempBuf[t] # 0
    <3>1. tempBuf[t] > 0 /\ tempBuf[t] \in 0..num_blocks_gen
      BY <1>1, <1>4, <2>1 DEF Encoding, TypeOK
    <3> QED BY <3>1
  <2>3. Difference(t) > 0 /\ fault' = "no temp file"
    BY <1>4, <2>2 DEF SecondCount
  <2>4. "counters" \in overlapped
    <3> SUFFICES ASSUME "counters" \notin overlapped PROVE FALSE
      OBVIOUS
    <3>1. /\ pc[t] = "minus rank_vec_in_buf" =>
                blocks_in_file[t] = rank_vec /\ rank_vec_in_buf = rank_vec
          /\ pc[t] = "plus rank_vec" =>
                blocks_in_file[t] = -rank_vec /\ rank_vec_in_buf = rank_vec
      BY <1>1, <1>4 DEF Counting
    <3>2. rank_vec \in Nat
      BY <1>1, CounterTypes
    <3>3. CASE pc[t] = "plus rank_vec"
      <4>1. Difference(t) = -rank_vec + rank_vec
        BY <3>1, <3>3 DEF Difference
      <4>2. Difference(t) = 0
        BY <3>2, <4>1
      <4>3. ~(Difference(t) > 0)
        BY <4>2
      <4> QED BY <2>3, <4>3
    <3>4. CASE pc[t] = "minus rank_vec_in_buf"
      <4>1. Difference(t) = rank_vec - rank_vec
        BY <3>1, <3>4 DEF Difference
      <4>2. Difference(t) = 0
        BY <3>2, <4>1
      <4>3. ~(Difference(t) > 0)
        BY <4>2
      <4> QED BY <2>3, <4>3
    <3> QED BY <2>1, <3>3, <3>4
  <2> QED BY <1>2, <2>3, <2>4 DEF FaultsOnlyByOverlap
<1>5. CASE t \in Encoders /\ (Front(t) \/ Erase(t)) /\ ~UNCHANGED fault
  <2>1. /\ pc[t] \in {"front", "erase"} /\ ct_coded_blocks = <<>> /\ fault' = "empty vector"
        /\ overlapped' = overlapped
    BY <1>5 DEF Front, Erase, Fault
  <2>2. "ct_coded_blocks" \in overlapped
    BY <1>1, <1>5, <2>1 DEF Handing, Finds
  <2> QED BY <2>1, <2>2 DEF FaultsOnlyByOverlap
<1>6. CASE t \in Encoders /\ EncoderActs(t) /\ ~(SecondCount(t) \/ Front(t) \/ Erase(t))
  <2>1. UNCHANGED fault
    BY <1>6 DEF EncoderActs, Encode, CopyBuf, FirstCount, ReEncodeBlock, CopyCoeffs, CopySums,
                GenerateOnSeed, GenerateOnClient, PushBack, Send, AcceptRequest
  <2> QED BY <1>3, <2>1
<1>7. CASE t \in DataThreads /\ DataActs(t)
  BY <1>1, <1>3, <1>7, DataStep
<1> QED BY <1>3, <1>4, <1>5, <1>6, <1>7 DEF Acts

-----------------------------------------------------------------------------
(* The types                                                               *)

\* buf, rank_vec and rank_vec_in_buf: their order, which Storing keeps, bounds them.
LEMMA CountersStep ==
    ASSUME IInv, NEW t \in Threads, Acts(t)
    PROVE  /\ work_mutex' \in BOOLEAN
           /\ buf' \in 0..num_blocks_gen /\ rank_vec' \in 0..num_blocks_gen
           /\ rank_vec_in_buf' \in 0..num_blocks_gen
<1>1. TypeOK /\ num_blocks_gen \in Nat
  BY CacheFacts DEF IInv
<1>2. /\ buf \in Nat /\ rank_vec \in Nat /\ rank_vec_in_buf \in Nat
  BY <1>1, CounterTypes
<1>3. /\ buf' = buf \/ buf' = buf + 1
      /\ rank_vec' = rank_vec \/ rank_vec' = rank_vec + 1
      /\ rank_vec_in_buf' = rank_vec_in_buf \/ rank_vec_in_buf' = rank_vec_in_buf + 1
      /\ work_mutex' \in {work_mutex, TRUE, FALSE}
  <2>1. CASE t \in Encoders /\ EncoderActs(t)
    BY <1>1, <2>1, EncoderStep
  <2>2. CASE t \in DataThreads /\ DataActs(t)
    BY <2>2 DEF DataActs, StoreBlock, IncrementRank, IncrementRankInBuf, Clear, AcceptData, store
  <2> QED BY <2>1, <2>2 DEF Acts
<1>4. rank_vec_in_buf' <= rank_vec' /\ rank_vec' <= buf' /\ buf' <= num_blocks_gen
  BY StoringStep DEF Storing
<1>5. work_mutex' \in BOOLEAN
  <2>1. work_mutex \in BOOLEAN
    BY <1>1, Zenon DEF TypeOK
  <2> QED BY <1>3, <2>1, Zenon
<1>6. buf' \in Nat /\ rank_vec' \in Nat /\ rank_vec_in_buf' \in Nat
  BY <1>2, <1>3
<1> QED BY <1>1, <1>4, <1>5, <1>6

\* The queue: at its end goes the block the generator holds, and Room bounds it.
LEMMA QueueTypeStep ==
    ASSUME IInv, NEW t \in Threads, Acts(t)
    PROVE  /\ ct_coded_blocks' \in Seq(Addresses)
           /\ Len(ct_coded_blocks') <= IF server_mode' THEN Limit ELSE num_blocks_gen
<1>1. TypeOK /\ Places /\ Handing /\ ct_coded_blocks \in Seq(Addresses)
  BY DEF IInv, TypeOK
<1>2. ct_coded_blocks' \in Seq(Addresses)
  <2>1. CASE t \in Encoders /\ PushBack(t)
    <3>1. pc[t] = "push_back" /\ ct_coded_blocks' = Append(ct_coded_blocks, block[t])
      BY <2>1 DEF PushBack
    <3>2. block[t] \in Addresses
      BY <1>1, <2>1, <3>1 DEF Handing, Owned, TypeOK
    <3> QED BY <1>1, <3>1, <3>2, QueueFacts
  <2>2. CASE ct_coded_blocks' \in {ct_coded_blocks, <<>>}
    BY <1>1, <2>2, EmptySeq
  <2>3. CASE ct_coded_blocks # <<>> /\ ct_coded_blocks' = Tail(ct_coded_blocks)
    BY <1>1, <2>3, QueueFacts
  <2>4. CASE t \in Encoders /\ EncoderActs(t)
    BY <2>1, <2>2, <2>3, <2>4
       DEF EncoderActs, Encode, CopyBuf, FirstCount, SecondCount, ReEncodeBlock, CopyCoeffs, CopySums,
           GenerateOnSeed, GenerateOnClient, Front, Erase, Erased, Send, AcceptRequest, Fault, blocks
  <2>5. CASE t \in DataThreads /\ DataActs(t)
    BY <2>2, <2>5
       DEF DataActs, StoreBlock, IncrementRank, IncrementRankInBuf, Clear, AcceptData, blocks
  <2> QED BY <2>4, <2>5 DEF Acts
<1> DEFINE most == IF server_mode' THEN Limit ELSE num_blocks_gen
           n == Len(ct_coded_blocks')
<1>3. n \in Nat /\ most \in Nat
  BY <1>2, CacheFacts, LenProperties
<1>4. n <= most \/ n < most
  BY RoomStep DEF Room
<1>5. n <= most
  <2> HIDE DEF n, most
  <2> QED BY <1>3, <1>4
<1> QED BY <1>2, <1>5

\* What threads hold, in their locals and in cb.
LEMMA LocalsStep ==
    ASSUME TypeOK, NEW t \in Encoders, EncoderActs(t)
    PROVE  /\ cb' \in [coeffs : SUBSET Encoders, sums : SUBSET Encoders]
           /\ torn' \subseteq Addresses
           /\ tempBuf' \in [Encoders -> 0..num_blocks_gen]
           /\ blocks_in_file' \in [Encoders -> -num_blocks_gen..num_blocks_gen]
           /\ coeffs' \in [Encoders -> SUBSET Encoders]
           /\ block' \in [Encoders -> Addresses \cup {NoBlock}]
<1>1. /\ cb \in [coeffs : SUBSET Encoders, sums : SUBSET Encoders]
      /\ torn \subseteq Addresses
      /\ tempBuf \in [Encoders -> 0..num_blocks_gen]
      /\ blocks_in_file \in [Encoders -> -num_blocks_gen..num_blocks_gen]
      /\ coeffs \in [Encoders -> SUBSET Encoders]
      /\ block \in [Encoders -> Addresses \cup {NoBlock}]
      /\ buf \in 0..num_blocks_gen
  BY DEF TypeOK
<1>2. /\ rank_vec \in -num_blocks_gen..num_blocks_gen /\ -rank_vec_in_buf \in -num_blocks_gen..num_blocks_gen
      /\ 0 \in 0..num_blocks_gen /\ 0 \in -num_blocks_gen..num_blocks_gen
  <2>1. rank_vec \in 0..num_blocks_gen /\ rank_vec_in_buf \in 0..num_blocks_gen
    BY DEF TypeOK
  <2> QED BY <2>1, CacheFacts
<1>3. Unused \in Addresses
  BY UnusedIsUnused
<1> USE DEF store, locals, blocks
<1>4. CASE Encode(t)
  BY <1>1, <1>3, <1>4 DEF Encode, Hold
<1>5. CASE CopyBuf(t)
  BY <1>1, <1>5 DEF CopyBuf
<1>6. CASE FirstCount(t)
  BY <1>1, <1>2, <1>6 DEF FirstCount
<1>7. CASE SecondCount(t)
  <2>1. /\ tempBuf' = tempBuf \/ tempBuf' = [tempBuf EXCEPT ![t] = 0]
        /\ blocks_in_file' = blocks_in_file \/ blocks_in_file' = [blocks_in_file EXCEPT ![t] = 0]
        /\ UNCHANGED <<cb, torn, coeffs, block>>
    BY <1>7 DEF SecondCount
  <2> QED BY <1>1, <1>2, <2>1
<1>8. CASE ReEncodeBlock(t)
  <2>1. UNCHANGED <<torn, tempBuf, blocks_in_file, coeffs, block>>
    BY <1>8 DEF ReEncodeBlock
  <2>2. \/ cb' = [cb EXCEPT !.coeffs = {}] \/ cb' = [cb EXCEPT !.sums = {}]
        \/ cb' = [cb EXCEPT !.coeffs = @ \cup {t}] \/ cb' = [cb EXCEPT !.sums = @ \cup {t}]
    BY <1>8 DEF ReEncodeBlock, MemsetSums
  <2>3. cb' \in [coeffs : SUBSET Encoders, sums : SUBSET Encoders]
    BY <1>1, <2>2
  <2> QED BY <1>1, <2>1, <2>3
<1>9. CASE CopyCoeffs(t)
  BY <1>1, <1>9 DEF CopyCoeffs
<1>10. CASE CopySums(t)
  <2>1. torn' \subseteq Addresses
    BY <1>1, <1>3, <1>10 DEF CopySums
  <2> QED BY <1>1, <1>3, <1>10, <2>1 DEF CopySums, Hold
<1>11. CASE GenerateOnSeed(t) \/ GenerateOnClient(t) \/ AcceptRequest(t)
  BY <1>1, <1>11 DEF GenerateOnSeed, GenerateOnClient, AcceptRequest
<1>12. CASE PushBack(t) \/ Send(t)
  BY <1>1, <1>12 DEF PushBack, Send, Hold
<1>13. CASE Front(t)
  <2>1. CASE ct_coded_blocks # <<>> /\ Hold(t, Head(ct_coded_blocks))
             /\ UNCHANGED <<cb, torn, tempBuf, blocks_in_file, coeffs>>
    <3>1. ct_coded_blocks \in Seq(Addresses)
      BY DEF TypeOK
    <3>2. Head(ct_coded_blocks) = ct_coded_blocks[1] /\ 1 \in DOMAIN ct_coded_blocks
      BY <2>1, <3>1, QueueFacts
    <3>3. Head(ct_coded_blocks) \in Addresses
      BY <3>1, <3>2, QueueFacts
    <3> QED BY <1>1, <2>1, <3>3 DEF Hold
  <2>2. CASE Fault("empty vector")
    BY <1>1, <2>2 DEF Fault
  <2> QED BY <1>13, <2>1, <2>2 DEF Front
<1>14. CASE Erase(t)
  <2>1. /\ UNCHANGED <<cb, torn, tempBuf, blocks_in_file, coeffs>>
        /\ block' = block \/ block' = [block EXCEPT ![t] = NoBlock]
    BY <1>14 DEF Erase, Hold, Fault
  <2> QED BY <1>1, <2>1
<1> QED BY <1>4, <1>5, <1>6, <1>7, <1>8, <1>9, <1>10, <1>11, <1>12, <1>13, <1>14 DEF EncoderActs

LEMMA TypeStep ==
    ASSUME IInv, NEW t \in Threads, Acts(t)
    PROVE  TypeOK'
<1>1. TypeOK
  BY DEF IInv
<1>2. server_mode' \in BOOLEAN /\ busy' \in BOOLEAN
  <2>1. UNCHANGED server_mode
    BY <1>1, EncoderStep, DataStep DEF Acts
  <2>2. busy' = busy \/ busy' = FALSE \/ busy' = TRUE
    BY DEF Acts, EncoderActs, DataActs, Encode, CopyBuf, FirstCount, SecondCount, ReEncodeBlock, CopyCoeffs,
           CopySums, GenerateOnSeed, GenerateOnClient, PushBack, Front, Erase, Send, AcceptRequest, Fault,
           StoreBlock, IncrementRank, IncrementRankInBuf, Clear, AcceptData
  <2>3. server_mode \in BOOLEAN /\ busy \in BOOLEAN
    BY <1>1, Zenon DEF TypeOK
  <2> QED BY <2>1, <2>2, <2>3, Zenon
<1>3. pc' \in [Threads -> Labels]
  <2>1. pc' = [pc EXCEPT ![t] = pc'[t]] /\ pc'[t] \in Labels
    <3>1. CASE t \in Encoders /\ EncoderActs(t)
      BY <1>1, <3>1, EncoderStep DEF TypeOK
    <3>2. CASE t \in DataThreads /\ DataActs(t)
      BY <1>1, <3>2, DataStep, InsideFacts DEF DataLabels
    <3> QED BY <3>1, <3>2 DEF Acts
  <2> QED BY <1>1, <2>1 DEF TypeOK
<1>4. overlapped' \subseteq DOMAIN Inside
  <2>1. \/ overlapped' = overlapped
        \/ \E thing \in {"cb", "ct_coded_blocks", "counters"} : Uses(t, thing)
    BY DEF Acts, EncoderActs, DataActs, Encode, CopyBuf, FirstCount, SecondCount, ReEncodeBlock, CopyCoeffs,
           CopySums, GenerateOnSeed, GenerateOnClient, PushBack, Front, Erase, Send, AcceptRequest, Fault,
           StoreBlock, IncrementRank, IncrementRankInBuf, Clear, AcceptData
  <2>2. overlapped \subseteq DOMAIN Inside
    BY <1>1 DEF TypeOK
  <2> QED BY <2>1, <2>2, InsideFacts DEF Uses
<1>5. fault' \in {"none", "no temp file", "no coded block", "empty vector"}
  <2>1. fault' \in {fault, "no temp file", "no coded block", "empty vector"}
    BY DEF Acts, EncoderActs, DataActs, Encode, CopyBuf, FirstCount, SecondCount, ReEncodeBlock, CopyCoeffs,
           CopySums, GenerateOnSeed, GenerateOnClient, PushBack, Front, Erase, Send, AcceptRequest, Fault,
           StoreBlock, IncrementRank, IncrementRankInBuf, Clear, AcceptData
  <2> QED BY <1>1, <2>1 DEF TypeOK
<1>6. /\ cb' \in [coeffs : SUBSET Encoders, sums : SUBSET Encoders]
      /\ torn' \subseteq Addresses
      /\ tempBuf' \in [Encoders -> 0..num_blocks_gen]
      /\ blocks_in_file' \in [Encoders -> -num_blocks_gen..num_blocks_gen]
      /\ coeffs' \in [Encoders -> SUBSET Encoders]
      /\ block' \in [Encoders -> Addresses \cup {NoBlock}]
  <2>1. CASE t \in Encoders /\ EncoderActs(t)
    BY <1>1, <2>1, LocalsStep
  <2>2. CASE t \in DataThreads /\ DataActs(t)
    <3>1. UNCHANGED <<cb, torn, tempBuf, blocks_in_file, coeffs, block>>
      BY <1>1, <2>2, DataStep DEF locals
    <3> QED BY <1>1, <3>1 DEF TypeOK
  <2> QED BY <2>1, <2>2 DEF Acts
<1> QED BY <1>2, <1>3, <1>4, <1>5, <1>6, CountersStep, QueueTypeStep DEF TypeOK

-----------------------------------------------------------------------------
(* The theorems                                                            *)

LEMMA InvInit == Init => IInv
<1> SUFFICES ASSUME Init PROVE IInv
  OBVIOUS
<1>1. /\ num_blocks_gen \in Nat \ {0} /\ Limit \in Nat \ {0}
      /\ generator \in Encoders /\ generator \notin DataThreads
  BY CacheFacts
<1>2. ct_coded_blocks = <<>> /\ <<>> \in Seq(Addresses) /\ Len(ct_coded_blocks) = 0
      /\ DOMAIN ct_coded_blocks = {}
  BY EmptySeq DEF Init
<1>3. /\ \A t \in Threads : pc[t] \in {"generate", "exited"}
      /\ \A t \in Threads : pc[t] = "generate" <=> t = generator
      /\ pc \in [Threads -> {"generate", "exited"}]
  BY DEF Init
<1>4. TypeOK
  <2>1. Len(ct_coded_blocks) <= IF server_mode THEN Limit ELSE num_blocks_gen
    BY <1>1, <1>2
  <2>2. pc \in [Threads -> Labels]
    BY <1>3, InsideFacts
  <2>3. /\ buf \in 0..num_blocks_gen /\ rank_vec \in 0..num_blocks_gen
        /\ rank_vec_in_buf \in 0..num_blocks_gen
        /\ tempBuf \in [Encoders -> 0..num_blocks_gen]
        /\ blocks_in_file \in [Encoders -> -num_blocks_gen..num_blocks_gen]
    BY <1>1 DEF Init
  <2>4. /\ cb \in [coeffs : SUBSET Encoders, sums : SUBSET Encoders]
        /\ ct_coded_blocks \in Seq(Addresses) /\ torn \subseteq Addresses
        /\ coeffs \in [Encoders -> SUBSET Encoders]
        /\ block \in [Encoders -> Addresses \cup {NoBlock}]
        /\ overlapped \subseteq DOMAIN Inside
    BY <1>2 DEF Init
  <2>5. /\ server_mode \in BOOLEAN /\ work_mutex \in BOOLEAN /\ busy \in BOOLEAN
        /\ fault \in {"none", "no temp file", "no coded block", "empty vector"}
    BY DEF Init
  <2> QED BY <2>1, <2>2, <2>3, <2>4, <2>5 DEF TypeOK
<1>5. Places
  <2>1. Encoders \subseteq Threads /\ DataThreads \subseteq Threads
    BY CacheFacts
  <2>2. \A t \in DataThreads : pc[t] = "exited"
    BY <1>1, <1>3, <2>1
  <2>3. \A t \in Encoders : /\ pc[t] \in {"generate", "exited"}
                            /\ pc[t] = "generate" <=> t = generator
    BY <1>3, <2>1
  <2>4. "generate" \in Labels /\ "exited" \in Labels
    BY InsideFacts
  <2> QED BY <1>1, <2>2, <2>3, <2>4 DEF Places, DataLabels
<1>6. Room(pc[generator])
  <2>1. pc[generator] = "generate"
    BY <1>1, <1>3, CacheFacts
  <2> QED BY <1>1, <1>2, <2>1 DEF Room
<1>7. Storing /\ Encoding /\ Counting
  <2>1. \A t \in Threads : pc[t] \notin {"rank_vec", "rank_vec_in_buf", "reencode", "count",
                                          "plus rank_vec", "minus rank_vec_in_buf"}
    BY <1>3
  <2>2. buf = 0 /\ rank_vec = 0 /\ rank_vec_in_buf = 0
    BY DEF Init
  <2>3. \A t \in DataThreads : pc[t] \notin {"rank_vec", "rank_vec_in_buf"}
    BY <2>1, CacheFacts
  <2>4. buf <= num_blocks_gen /\ rank_vec <= buf /\ rank_vec_in_buf <= rank_vec
    BY <1>1, <2>2
  <2>5. Storing
    BY <2>2, <2>3, <2>4 DEF Storing
  <2> QED BY <2>1, <2>5, CacheFacts DEF Encoding, Counting
<1>8. Combining /\ Handing
  <2>1. \A t \in Encoders : pc[t] \in {"generate", "exited"} /\ block[t] = NoBlock
    BY <1>3, CacheFacts DEF Init
  <2>2. Distinct /\ \A t \in Encoders : Owned(t) /\ Finds(t)
    BY <1>2, <2>1 DEF Distinct, Owned, Finds
  <2>3. torn = {}
    BY DEF Init
  <2> QED BY <2>1, <2>2, <2>3 DEF Combining, Handing
<1>9. FaultsOnlyByOverlap
  BY DEF Init, FaultsOnlyByOverlap
<1> QED BY <1>4, <1>5, <1>6, <1>7, <1>8, <1>9 DEF IInv

LEMMA InvNext == IInv /\ [Next]_vars => IInv'
<1> SUFFICES ASSUME IInv, [Next]_vars PROVE IInv'
  OBVIOUS
<1>1. ASSUME NEW t \in Threads, fault = "none", Step(t) \/ AcceptData(t) \/ AcceptRequest(t)
      PROVE  IInv'
  <2>1. Acts(t)
    BY <1>1, WhoActs
  <2> QED BY <1>1, <2>1, TypeStep, PlacesStep, RoomStep, StoringStep, EncodingStep, CountingStep,
             CombiningStep, HandedStep, FaultStep DEF IInv
<1>2. ASSUME UNCHANGED <<server_mode, pc, store, cb, blocks, locals, overlapped, fault>>,
             busy' \in {busy, FALSE}
      PROVE  IInv'
  <2>1. UNCHANGED <<server_mode, pc, work_mutex, buf, rank_vec, rank_vec_in_buf, cb, ct_coded_blocks,
                    torn, tempBuf, blocks_in_file, coeffs, block, overlapped, fault>>
    BY <1>2 DEF store, blocks, locals
  <2>2. busy' \in BOOLEAN
    <3>1. busy \in BOOLEAN
      BY Zenon DEF IInv, TypeOK
    <3> QED BY <1>2, <3>1, Zenon
  <2>3. TypeOK'
    BY <2>1, <2>2, Zenon DEF IInv, TypeOK
  <2>4. Places' /\ Room(pc[generator])'
    BY <2>1 DEF IInv, Places, Room
  <2>5. Storing' /\ Encoding' /\ Counting' /\ Combining'
    BY <2>1 DEF IInv, Storing, Encoding, Counting, Combining
  <2>6. Handing' /\ FaultsOnlyByOverlap'
    BY <2>1 DEF IInv, Handing, Owned, Finds, Distinct, FaultsOnlyByOverlap
  <2> QED BY <2>3, <2>4, <2>5, <2>6 DEF IInv
<1>3. CASE UNCHANGED vars
  BY <1>2, <1>3 DEF vars
<1>4. CASE RequestTimeOut
  BY <1>2, <1>4 DEF RequestTimeOut
<1>5. CASE Next /\ ~RequestTimeOut
  BY <1>1, <1>5 DEF Next
<1> QED BY <1>3, <1>4, <1>5

LEMMA Invariant == Spec => []IInv
BY InvInit, InvNext, PTL DEF Spec

\* Whatever the sizes and the number of threads: every variable ranges over what its
\* comment says, a seed keeps at most Limit blocks ready and a client at most as many
\* as its generation has (main.cpp:1811-1939).
THEOREM TypeCorrect == Spec => []TypeOK
<1>1. IInv => TypeOK
  BY DEF IInv
<1> QED BY <1>1, Invariant, PTL

\* A re-encoded block whose payload is not that of its coefficients is made only
\* after two threads have met inside ReEncodeBlock or CopyCodedBlock
\* (codetorrent.cpp:680-692, nc.cpp:112-147).
THEOREM TornByOverlapOnly == Spec => []TornOnlyByOverlap
<1>1. IInv => TornOnlyByOverlap
  BY DEF IInv, Combining, TornOnlyByOverlap
<1> QED BY <1>1, Invariant, PTL

\* A block is given to one thread, and is not ready for another one while it has it,
\* unless threads have met between size() and erase() (main.cpp:605-606, 1868-1875,
\* 1938-1939).
THEOREM BlocksHandedOutOnce == Spec => []HandedOutOnce
<1>1. IInv => HandedOutOnce
  BY DEF IInv, Handing, Finds, HandedOutOnce, Ready
<1> QED BY <1>1, Invariant, PTL

\* The process never ends for want of a block to re-encode, and of an empty vector or
\* a missing temp file only after such a meeting (main.cpp:585, 1901;
\* codetorrent.cpp:669, 704-706).
THEOREM FaultsByOverlapOnly == Spec => []FaultsOnlyByOverlap
<1>1. IInv => FaultsOnlyByOverlap
  BY DEF IInv
<1> QED BY <1>1, Invariant, PTL
=============================================================================

----------------------------- MODULE NodeProofs -----------------------------
(***************************************************************************)
(* The safety of a downloading node, for every file layout and any number  *)
(* of threads that handle blocks and requests, as long as one thread o     *)
(* handles file infos (with two, ct may be replaced: run node_init).       *)
(*                                                                         *)
(* The inductive invariant says where the threads can be.  A thread past   *)
(* the test of DownloadCompleted has seen every generation full, and full  *)
(* they stay; identity turns to CT_SERVER in the step that takes           *)
(* work_mutex to write the file, and whoever finds it so, with the mutex   *)
(* free, comes after the file is written.                                  *)
(***************************************************************************)
EXTENDS NodeRefinement, LayoutProofs, FiniteSetTheorems

-----------------------------------------------------------------------------
FullGens(o) == {g \in Gens : rank_vec[o][g] = num_blocks_gen[g]}

\* gen_completed, and the number of blocks in a temp file that Decode has not removed.
Counting(o) ==
    /\ gen_completed[o] = Cardinality(FullGens(o))
    /\ \A g \in Gens :
          /\ rank_vec_in_buf[o][g] <= rank_vec[o][g]
          /\ rank_vec[o][g] <= num_blocks_gen[g]
          /\ out_file = 0 => file[g] = rank_vec[o][g] - rank_vec_in_buf[o][g]

\* What thread t works on when it is at label, with packet p and calling object s.
Fits(o, t, label, p, s) ==
    /\ label = "start" =>
          /\ p \in Packets
          /\ p.type = "CT_FILEINFO" => t = o
          /\ p.type = "CT_DATA" => ct = o
    /\ label \in {"CT_FILEINFO", "new"} => t = o
    /\ label = "new" => ct = NULL
    /\ label \in {"CT_DATA", "store"} => p \in Packets /\ p.type = "CT_DATA"
    /\ label \in {"CT_REQUEST", "reencode"} => p \in Packets /\ p.type = "CT_REQUEST"
    /\ label \in {"CT_DATA", "store", "stored", "completed", "decode", "write", "decoded",
                  "serving"} => ct = o
    /\ label \in {"store", "decode", "write"} => s = o

Working(o) == \A t \in Threads : Fits(o, t, pc[t], packet[t], self[t])

Completing == {"completed", "decode", "write", "decoded", "serving"}

\* Nothing is missing any more.
Completed(o) ==
    /\ decoding => ct = o
    /\ \/ decoding \/ identity[o] = CT_SERVER
       \/ \E t \in Threads : pc[t] \in Completing
       => gen_completed[o] = num_gens

\* The decoder, while it is at work and after.
Decoder(o) ==
    /\ out_file \in {0, 1}
    /\ out_file = 1 => ct = o /\ identity[o] = CT_SERVER
    /\ server_mode => out_file = 1
    /\ identity[o] = CT_SERVER /\ out_file = 0 =>
          work_mutex[o] # NULL /\ pc[work_mutex[o]] = "write"
    /\ \A t \in Threads :
          /\ pc[t] = "write" => out_file = 0 /\ identity[o] = CT_SERVER /\ work_mutex[o] = t
          /\ pc[t] \in {"decoded", "serving"} => out_file = 1

IInv(o) ==
    /\ TypeOK
    /\ Counting(o) /\ Working(o) /\ Completed(o) /\ Decoder(o)
    /\ MutexKeptOnlyAfterDecode /\ TempFilesUntilDecoded

-----------------------------------------------------------------------------
(* The constants                                                           *)

LEMMA NodeFacts ==
    /\ num_gens \in Nat \ {0}
    /\ IsFiniteSet(Gens) /\ Cardinality(Gens) = num_gens
    /\ DOMAIN num_blocks_gen = Gens
    /\ \A g \in Gens : num_blocks_gen[g] \in 1..per_gen
    /\ per_gen \in Nat \ {0}
    /\ NULL \notin Threads
<1>1. num_blocks \in Nat \ {0} /\ per_gen \in Nat \ {0}
  BY LayoutAssumption
<1>2. num_gens \in Nat \ {0}
  BY <1>1, GenerationCount DEF num_gens
<1>3. /\ DOMAIN num_blocks_gen = 0..NumGens(num_blocks, per_gen) - 1
      /\ \A g \in DOMAIN num_blocks_gen : num_blocks_gen[g] \in 1..per_gen
  BY <1>1, GenerationSizes DEF num_blocks_gen
<1>4. IsFiniteSet(Gens) /\ Cardinality(Gens) = num_gens
  BY <1>2, FS_Interval DEF Gens
<1> QED BY <1>1, <1>2, <1>3, <1>4, NullAssumption DEF Gens, num_gens, Threads

\* A data or request packet names a generation.
LEMMA PacketGen ==
    ASSUME NEW p \in Packets
    PROVE  /\ p.type \in {"CT_FILEINFO", "CT_DATA", "CT_REQUEST"}
           /\ p.type # "CT_FILEINFO" => p.gen \in Gens
  BY DEF Packets

LEMMA FullGensFinite ==
    ASSUME NEW o
    PROVE  /\ IsFiniteSet(FullGens(o)) /\ Cardinality(FullGens(o)) \in 0..num_gens
           /\ Cardinality(FullGens(o)) = num_gens => FullGens(o) = Gens
<1>1. FullGens(o) \subseteq Gens
  BY DEF FullGens
<1>2. IsFiniteSet(FullGens(o)) /\ Cardinality(FullGens(o)) <= num_gens
  BY <1>1, NodeFacts, FS_Subset
<1>3. Cardinality(FullGens(o)) \in Nat
  BY <1>2, FS_CardinalityType
<1>4. Cardinality(FullGens(o)) = num_gens => FullGens(o) = Gens
  BY <1>1, NodeFacts, FS_Subset
<1> QED BY <1>2, <1>3, <1>4, NodeFacts

-----------------------------------------------------------------------------
(* The initial states                                                      *)

LEMMA InvInit == ASSUME NEW o, FileInfoThreads = {o}, Init PROVE IInv(o)
<1>1. TypeOK
  <2>1. 0 \in 0..per_gen /\ 0 \in 0..num_gens
    BY NodeFacts
  <2>2. /\ rank_vec \in [FileInfoThreads -> [Gens -> 0..per_gen]]
        /\ rank_vec_in_buf \in [FileInfoThreads -> [Gens -> 0..per_gen]]
        /\ gen_completed \in [FileInfoThreads -> 0..num_gens]
        /\ file \in [Gens -> Nat] /\ out_file \in Nat
    BY <2>1 DEF Init
  <2> QED BY <2>2 DEF Init, TypeOK, Labels
<1>2. FullGens(o) = {}
  BY NodeFacts DEF Init, FullGens
<1>3. Counting(o)
  BY <1>2, NodeFacts, FS_EmptySet DEF Init, Counting
<1>4. Working(o)
  BY DEF Init, Working, Fits
<1>5. Completed(o) /\ Decoder(o)
  BY DEF Init, Completed, Completing, Decoder, CT_CLIENT, CT_SERVER
<1>6. MutexKeptOnlyAfterDecode /\ TempFilesUntilDecoded
  BY DEF Init, MutexKeptOnlyAfterDecode, TempFilesUntilDecoded
<1> QED BY <1>1, <1>3, <1>4, <1>5, <1>6 DEF IInv

-----------------------------------------------------------------------------
(* Steps that change no counter                                            *)

\* Thread t goes to label; its packet and object may change, no other thread's do.
Moves(o, t, label) ==
    /\ pc' = [pc EXCEPT ![t] = label]
    /\ packet' \in [Threads -> Packets \cup {NoPacket}]
    /\ self' \in [Threads -> {o, NULL}]
    /\ \A u \in Threads \ {t} : packet'[u] = packet[u] /\ self'[u] = self[u]

LEMMA WaysToMove ==
    ASSUME NEW o, FileInfoThreads = {o}, TypeOK, NEW t \in Threads, NEW label
    PROVE  /\ Goto(t, label) => Moves(o, t, label) /\ packet'[t] = packet[t] /\ self'[t] = self[t]
           /\ Call(t, label) => Moves(o, t, label) /\ packet'[t] = packet[t] /\ self'[t] = ct
           /\ Exit(t) => Moves(o, t, "exited")
  BY DEF TypeOK, Goto, Call, Exit, At, Moves

\* What any step of a thread keeps that neither takes nor frees work_mutex.
LEMMA PlaceStep ==
    ASSUME NEW o, FileInfoThreads = {o}, IInv(o), NEW t \in Threads,
           NEW label \in Labels, Moves(o, t, label), Fits(o, t, label, packet'[t], self'[t]),
           pc[t] \notin {"write", "send NULL"}, label # "write",
           label \in Completing \/ decoding' => ct = o /\ gen_completed[o] = num_gens,
           label \in {"decoded", "serving"} \/ server_mode' => out_file = 1,
           gen_completed[o] = num_gens => gen_completed'[o] = num_gens,
           UNCHANGED <<ct, identity, work_mutex, out_file>>
    PROVE  (Working(o) /\ Completed(o) /\ Decoder(o) /\ MutexKeptOnlyAfterDecode)'
<1>1. /\ pc'[t] = label /\ \A u \in Threads \ {t} : pc'[u] = pc[u]
      /\ \A u \in Threads \ {t} : packet'[u] = packet[u] /\ self'[u] = self[u]
  BY DEF IInv, TypeOK, Moves
<1>2. Working(o)'
  <2>1. ASSUME NEW u \in Threads PROVE Fits(o, u, pc[u], packet[u], self[u])'
    <3>1. CASE u = t
      BY <1>1, <3>1 DEF Fits
    <3>2. CASE u # t
      <4>1. Fits(o, u, pc[u], packet[u], self[u])
        BY DEF IInv, Working
      <4> QED BY <1>1, <3>2, <4>1 DEF Fits
    <3> QED BY <3>1, <3>2
  <2> QED BY <2>1 DEF Working
<1>3. Completed(o)'
  BY <1>1 DEF IInv, Completed, Completing
<1>4. Decoder(o)'
  <2>1. work_mutex[o] = t => pc[work_mutex[o]] # "write"
    OBVIOUS
  <2>2. work_mutex[o] \in Threads \cup {NULL}
    BY DEF IInv, TypeOK
  <2> QED BY <1>1, <2>1, <2>2 DEF IInv, Decoder
<1>5. MutexKeptOnlyAfterDecode'
  <2>1. work_mutex[o] # NULL => pc[work_mutex[o]] \in {"write", "send NULL"} \/ out_file > 0
    BY DEF IInv, MutexKeptOnlyAfterDecode
  <2>2. work_mutex[o] \in Threads \cup {NULL}
    BY DEF IInv, TypeOK
  <2>3. work_mutex'[o] # NULL => pc'[work_mutex'[o]] \in {"write", "send NULL"} \/ out_file' > 0
    BY <1>1, <2>1, <2>2
  <2> QED BY <2>3 DEF MutexKeptOnlyAfterDecode
<1> QED BY <1>2, <1>3, <1>4, <1>5

\* A step that changes neither counters nor temp files.
LEMMA LocalStep ==
    ASSUME NEW o, FileInfoThreads = {o}, IInv(o), NEW t \in Threads,
           NEW label \in Labels, Moves(o, t, label), Fits(o, t, label, packet'[t], self'[t]),
           pc[t] \notin {"write", "send NULL"}, label # "write",
           server_mode' \in BOOLEAN, decoding' \in BOOLEAN,
           label \in Completing \/ decoding' => ct = o /\ gen_completed[o] = num_gens,
           label \in {"decoded", "serving"} \/ server_mode' => out_file = 1,
           UNCHANGED <<main_thread, ct, store, fault>>
    PROVE  IInv(o)'
<1>1. UNCHANGED <<main_thread, ct, identity, work_mutex, rank_vec, rank_vec_in_buf, gen_completed,
                  file, out_file, fault>>
  BY DEF store, counters
<1>2. (Working(o) /\ Completed(o) /\ Decoder(o) /\ MutexKeptOnlyAfterDecode)'
  BY <1>1, PlaceStep
<1>3. TypeOK'
  BY <1>1 DEF IInv, TypeOK, Moves
<1>4. Counting(o)'
  BY <1>1 DEF IInv, Counting, FullGens
<1>5. TempFilesUntilDecoded'
  BY <1>1 DEF IInv, TempFilesUntilDecoded
<1> QED BY <1>2, <1>3, <1>4, <1>5 DEF IInv

\* Nothing of the invariant speaks of the main thread, and of fault only what a
\* missing temp file means.
LEMMA FaultStep ==
    ASSUME NEW o, IInv(o), main_thread' \in {"accept", "recv"},
           UNCHANGED <<pc, packet, self, flags, store>>,
           fault' \in {"no temp file in Decode", "no temp file in ReEncode"} => out_file = 1
    PROVE  IInv(o)'
<1>1. UNCHANGED <<pc, packet, self, ct, server_mode, decoding, identity, work_mutex, rank_vec,
                  rank_vec_in_buf, gen_completed, file, out_file>>
  BY DEF flags, store, counters
<1>2. (Working(o) /\ Completed(o) /\ Decoder(o) /\ Counting(o))'
  BY <1>1 DEF IInv, Working, Fits, Completed, Decoder, Counting, FullGens
<1>3. (TypeOK /\ MutexKeptOnlyAfterDecode /\ TempFilesUntilDecoded)'
  BY <1>1 DEF IInv, TypeOK, MutexKeptOnlyAfterDecode, TempFilesUntilDecoded
<1> QED BY <1>2, <1>3 DEF IInv

-----------------------------------------------------------------------------
(* The actions                                                             *)

\* Steps that only look, or write a flag.
LEMMA InvLocal ==
    ASSUME NEW o, FileInfoThreads = {o}, IInv(o), NEW t \in Threads,
           \/ Start(t) \/ CheckNoFile(t) \/ CheckClient(t) \/ CheckCompleted(t)
           \/ SetDecoding(t) \/ SetServerMode(t) \/ ClearDecoding(t) \/ CheckMode(t)
    PROVE  IInv(o)'
<1> USE DEF flags
<1>1. TypeOK /\ packet[t] \in Packets \cup {NoPacket} /\ ct \in {o, NULL}
  BY DEF IInv, TypeOK
<1>2. Fits(o, t, pc[t], packet[t], self[t])
  BY DEF IInv, Working
<1>3. \A p, s : Fits(o, t, "exited", p, s)
  BY DEF Fits
<1>4. "exited" \in Labels /\ "exited" \notin Completing
  BY DEF Labels, Completing
<1>5. /\ decoding => ct = o /\ gen_completed[o] = num_gens
      /\ server_mode => out_file = 1
      /\ server_mode \in BOOLEAN /\ decoding \in BOOLEAN
  BY DEF IInv, Completed, Decoder, TypeOK
<1>6. ASSUME Exit(t), UNCHANGED <<main_thread, ct, server_mode, store, fault>>,
             decoding' = FALSE \/ decoding' = decoding, pc[t] \notin {"write", "send NULL"}
      PROVE  IInv(o)'
  <2>1. Moves(o, t, "exited") /\ Fits(o, t, "exited", packet'[t], self'[t])
    BY <1>1, <1>3, <1>6, WaysToMove
  <2>2. /\ server_mode' \in BOOLEAN
        /\ server_mode' => out_file = 1
    BY <1>5, <1>6, Zenon
  <2>3. decoding' \in BOOLEAN
    BY <1>5, <1>6, Zenon
  <2>4. decoding' => ct = o /\ gen_completed[o] = num_gens
    BY <1>5, <1>6, Zenon
  <2>5. UNCHANGED <<main_thread, ct, store, fault>> /\ pc[t] \notin {"write", "send NULL"}
    BY <1>6
  <2>6. "exited" \notin {"write"} \cup Completing \cup {"decoded", "serving"}
    BY <1>4
  <2> QED BY <1>4, <2>1, <2>2, <2>3, <2>4, <2>5, <2>6, LocalStep
<1>7. CASE Start(t)
  <2>1. CASE decoding
    BY <1>6, <1>7, <2>1 DEF Start
  <2>2. CASE ~decoding
    <3>1. packet[t] \in Packets /\ packet[t].type \in {"CT_FILEINFO", "CT_DATA", "CT_REQUEST"}
      BY <1>2, <1>7, PacketGen DEF Fits, Start
    <3>2. Fits(o, t, packet[t].type, packet[t], self[t])
      BY <1>2, <1>7, <3>1 DEF Fits, Start
    <3>3. /\ packet[t].type \in Labels /\ packet[t].type \notin Completing
          /\ packet[t].type # "write"
      BY <3>1 DEF Labels, Completing
    <3>4. Goto(t, packet[t].type) /\ pc[t] = "start" /\ UNCHANGED <<main_thread, flags, store, fault>>
      BY <1>7, <2>2 DEF Start
    <3> QED BY <1>1, <1>5, <3>1, <3>2, <3>3, <3>4, LocalStep, WaysToMove
  <2> QED BY <2>1, <2>2
<1>8. CASE CheckNoFile(t)
  <2>1. CASE ~server_mode /\ ct = NULL
    <3>1. Fits(o, t, "new", packet[t], self[t]) /\ "new" \in Labels /\ "new" \notin Completing
      BY <1>2, <1>8, <2>1 DEF Fits, CheckNoFile, Labels, Completing
    <3>2. Goto(t, "new") /\ pc[t] = "CT_FILEINFO" /\ UNCHANGED <<main_thread, flags, store, fault>>
      BY <1>8, <2>1 DEF CheckNoFile
    <3> QED BY <1>1, <1>5, <3>1, <3>2, LocalStep, WaysToMove
  <2>2. CASE ~(~server_mode /\ ct = NULL)
    BY <1>6, <1>8, <2>2 DEF CheckNoFile
  <2> QED BY <2>1, <2>2
<1>9. CASE CheckClient(t)
  <2>1. CASE server_mode
    BY <1>6, <1>9, <2>1 DEF CheckClient
  <2>2. CASE ~server_mode
    <3>1. Fits(o, t, "store", packet[t], ct) /\ "store" \in Labels /\ "store" \notin Completing
      BY <1>2, <1>9 DEF Fits, CheckClient, Labels, Completing
    <3>2. Call(t, "store") /\ pc[t] = "CT_DATA" /\ UNCHANGED <<main_thread, flags, store, fault>>
      BY <1>9, <2>2 DEF CheckClient
    <3> QED BY <1>1, <1>5, <3>1, <3>2, LocalStep, WaysToMove
  <2> QED BY <2>1, <2>2
<1>10. CASE CheckCompleted(t)
  <2>1. ct = o
    BY <1>2, <1>10 DEF Fits, CheckCompleted
  <2>2. CASE DownloadCompleted(ct)
    <3>1. gen_completed[o] = num_gens
      BY <2>1, <2>2 DEF DownloadCompleted, IInv, Completed
    <3>2. Fits(o, t, "completed", packet[t], self[t]) /\ "completed" \in Labels
      BY <2>1 DEF Fits, Labels
    <3>3. Goto(t, "completed") /\ pc[t] = "stored" /\ UNCHANGED <<main_thread, flags, store, fault>>
      BY <1>10, <2>2 DEF CheckCompleted
    <3> QED BY <1>1, <1>5, <2>1, <3>1, <3>2, <3>3, LocalStep, WaysToMove
  <2>3. CASE ~DownloadCompleted(ct)
    BY <1>6, <1>10, <2>3 DEF CheckCompleted
  <2> QED BY <2>2, <2>3
<1>11. pc[t] \in {"completed", "decoded", "serving"} => ct = o /\ gen_completed[o] = num_gens
  BY <1>2 DEF Fits, IInv, Completed, Completing
<1>12. pc[t] \in {"decoded", "serving"} => out_file = 1
  BY DEF IInv, Decoder
<1>13. CASE SetDecoding(t)
  <2>1. Fits(o, t, "decode", packet[t], ct) /\ "decode" \in Labels
    BY <1>11, <1>13 DEF Fits, Labels, SetDecoding
  <2>2. /\ Call(t, "decode") /\ pc[t] = "completed" /\ decoding' = TRUE
        /\ UNCHANGED <<main_thread, ct, server_mode, store, fault>>
    BY <1>13 DEF SetDecoding
  <2> QED BY <1>1, <1>5, <1>11, <2>1, <2>2, LocalStep, WaysToMove
<1>14. CASE SetServerMode(t)
  <2>1. Fits(o, t, "serving", packet[t], self[t]) /\ "serving" \in Labels
    BY <1>11, <1>14 DEF Fits, Labels, SetServerMode
  <2>2. /\ Goto(t, "serving") /\ pc[t] = "decoded" /\ server_mode' = TRUE
        /\ UNCHANGED <<main_thread, ct, decoding, store, fault>>
    BY <1>14 DEF SetServerMode
  <2> QED BY <1>1, <1>5, <1>11, <1>12, <2>1, <2>2, LocalStep, WaysToMove
<1>15. CASE ClearDecoding(t)
  BY <1>6, <1>15 DEF ClearDecoding
<1>16. CASE CheckMode(t)
  <2>1. /\ Fits(o, t, "encode", packet[t], ct) /\ Fits(o, t, "reencode", packet[t], ct)
        /\ {"encode", "reencode"} \subseteq Labels \ Completing
    BY <1>2, <1>16 DEF Fits, Labels, Completing, CheckMode
  <2>2. /\ Call(t, "encode") \/ Call(t, "reencode")
        /\ pc[t] = "CT_REQUEST" /\ UNCHANGED <<main_thread, flags, store, fault>>
    BY <1>16 DEF CheckMode
  <2> QED BY <1>1, <1>5, <2>1, <2>2, LocalStep, WaysToMove
<1> QED BY <1>7, <1>8, <1>9, <1>10, <1>13, <1>14, <1>15, <1>16

\* A packet arrives.  Nothing but a file info can come for another thread than o
\* or while there is no ct.
LEMMA InvAccept ==
    ASSUME NEW o, FileInfoThreads = {o}, IInv(o),
           NEW t \in Threads, NEW p \in Packets, Accept(t, p)
    PROVE  IInv(o)'
<1>1. TypeOK /\ ct \in {o, NULL}
  BY DEF IInv, TypeOK
<1>2. packet'[t] = p /\ Moves(o, t, "start")
  BY <1>1 DEF Accept, At, Moves, TypeOK
<1>3. p.type = "CT_FILEINFO" => t = o
  BY DEF Accept, MayHandle
<1>4. p.type = "CT_DATA" => ct = o
  BY <1>1 DEF Accept
<1>5. Fits(o, t, "start", packet'[t], self'[t])
  BY <1>2, <1>3, <1>4 DEF Fits
<1>6. "start" \in Labels /\ "start" \notin Completing
  BY DEF Labels, Completing
<1>7. /\ decoding => ct = o /\ gen_completed[o] = num_gens
      /\ server_mode => out_file = 1
      /\ server_mode \in BOOLEAN /\ decoding \in BOOLEAN
  BY DEF IInv, Completed, Decoder, TypeOK
<1>8. pc[t] = "exited" /\ UNCHANGED <<main_thread, flags, store, fault>>
  BY DEF Accept
<1> QED BY <1>2, <1>5, <1>6, <1>7, <1>8, LocalStep DEF flags

\* The file info: ct is NULL, so nothing is written yet that Init could remove.
LEMMA InvNewCodeTorrent ==
    ASSUME NEW o, FileInfoThreads = {o}, IInv(o), NEW t \in Threads, NewCodeTorrent(t)
    PROVE  IInv(o)'
<1>1. TypeOK /\ pc[t] = "new" /\ o \in Threads
  BY DEF IInv, NewCodeTorrent, Threads
<1>2. t = o /\ ct = NULL
  BY <1>1 DEF IInv, Working, Fits
<1>3. ct' = o /\ o # NULL
  BY <1>1, <1>2, NodeFacts DEF NewCodeTorrent
<1>4. out_file = 0 /\ ~server_mode /\ ~decoding
  BY <1>2, <1>3 DEF IInv, Decoder, Completed
<1>5. /\ Moves(o, t, "exited")
      /\ UNCHANGED <<main_thread, server_mode, decoding, identity, work_mutex, rank_vec,
                     rank_vec_in_buf, gen_completed, file, out_file, fault>>
  BY <1>1, <1>4, WaysToMove DEF NewCodeTorrent, counters
<1>6. /\ pc'[t] = "exited"
      /\ \A u \in Threads \ {t} : pc'[u] = pc[u] /\ packet'[u] = packet[u] /\ self'[u] = self[u]
  BY <1>1, <1>5 DEF TypeOK, Moves
<1>7. TypeOK'
  BY <1>1, <1>3, <1>5 DEF TypeOK, Moves, Labels
<1>8. Working(o)'
  <2>1. ASSUME NEW u \in Threads PROVE Fits(o, u, pc[u], packet[u], self[u])'
    <3>1. CASE u = t
      BY <1>6, <3>1 DEF Fits
    <3>2. CASE u # t
      <4>1. Fits(o, u, pc[u], packet[u], self[u])
        BY DEF IInv, Working
      <4> QED BY <1>2, <1>3, <1>6, <3>2, <4>1 DEF Fits
    <3> QED BY <3>1, <3>2
  <2> QED BY <2>1 DEF Working
<1>9. Completed(o)'
  BY <1>3, <1>5, <1>6 DEF IInv, Completed, Completing
<1>10. Decoder(o)'
  <2>1. work_mutex[o] = t => pc[work_mutex[o]] # "write"
    BY <1>1
  <2>2. work_mutex[o] \in Threads \cup {NULL}
    BY <1>1 DEF TypeOK
  <2> QED BY <1>3, <1>4, <1>5, <1>6, <2>1, <2>2 DEF IInv, Decoder
<1>11. Counting(o)'
  BY <1>5 DEF IInv, Counting, FullGens
<1>12. MutexKeptOnlyAfterDecode'
  <2>1. work_mutex[o] # NULL => pc[work_mutex[o]] \in {"write", "send NULL"}
    <3>1. work_mutex[o] # NULL => pc[work_mutex[o]] \in {"write", "send NULL"} \/ out_file > 0
      BY DEF IInv, MutexKeptOnlyAfterDecode
    <3>2. ~(out_file > 0)
      BY <1>4
    <3> QED BY <3>1, <3>2, Zenon
  <2>2. work_mutex[o] \in Threads \cup {NULL}
    BY <1>1 DEF TypeOK
  <2>3. work_mutex'[o] # NULL => pc'[work_mutex'[o]] \in {"write", "send NULL"} \/ out_file' > 0
    BY <1>1, <1>5, <1>6, <2>1, <2>2
  <2> QED BY <2>3 DEF MutexKeptOnlyAfterDecode
<1>13. TempFilesUntilDecoded'
  BY <1>5 DEF IInv, TempFilesUntilDecoded
<1> QED BY <1>7, <1>8, <1>9, <1>10, <1>11, <1>12, <1>13 DEF IInv

\* FlushBuf moves blocks and keeps their number.
LEMMA Flushing ==
    ASSUME NEW o, FileInfoThreads = {o}, TypeOK, NEW in_buf \in [Gens -> 0..per_gen],
           FlushBuf(o, in_buf)
    PROVE  /\ rank_vec_in_buf' \in [FileInfoThreads -> [Gens -> 0..per_gen]]
           /\ file' \in [Gens -> Nat]
           /\ \A h \in Gens : /\ rank_vec_in_buf'[o][h] <= in_buf[h]
                              /\ file'[h] = file[h] + in_buf[h] - rank_vec_in_buf'[o][h]
<1>1. ASSUME NEW b \in [Gens -> 0..per_gen], rank_vec_in_buf' = [rank_vec_in_buf EXCEPT ![o] = b]
      PROVE  /\ rank_vec_in_buf' \in [FileInfoThreads -> [Gens -> 0..per_gen]]
             /\ rank_vec_in_buf'[o] = b
  BY <1>1 DEF TypeOK
<1>2. per_gen \in Nat
  BY NodeFacts
<1>3. CASE Flushed(o, in_buf, file)
  BY <1>1, <1>2, <1>3 DEF Flushed, TypeOK
<1>4. ASSUME NEW e \in Gens,
             Flushed(o, [in_buf EXCEPT ![e] = 0], [file EXCEPT ![e] = @ + in_buf[e]])
      PROVE  /\ rank_vec_in_buf' \in [FileInfoThreads -> [Gens -> 0..per_gen]]
             /\ file' \in [Gens -> Nat]
             /\ \A h \in Gens : /\ rank_vec_in_buf'[o][h] <= in_buf[h]
                                /\ file'[h] = file[h] + in_buf[h] - rank_vec_in_buf'[o][h]
  <2> DEFINE b == [in_buf EXCEPT ![e] = 0]
  <2>1. b \in [Gens -> 0..per_gen] /\ \A h \in Gens : b[h] = IF h = e THEN 0 ELSE in_buf[h]
    BY <1>2
  <2>2. file \in [Gens -> Nat] /\ \A h \in Gens : in_buf[h] \in Nat
    BY <1>2 DEF TypeOK
  <2>3. /\ file' \in [Gens -> Nat]
        /\ \A h \in Gens : file'[h] = IF h = e THEN file[h] + in_buf[h] ELSE file[h]
    BY <1>4, <2>2 DEF Flushed
  <2> HIDE DEF b
  <2>4. rank_vec_in_buf' = [rank_vec_in_buf EXCEPT ![o] = b]
    BY <1>4 DEF Flushed, b
  <2>5. /\ rank_vec_in_buf' \in [FileInfoThreads -> [Gens -> 0..per_gen]]
        /\ rank_vec_in_buf'[o] = b
    BY <1>1, <2>1, <2>4
  <2> QED BY <2>1, <2>2, <2>3, <2>5
<1> QED BY <1>3, <1>4 DEF FlushBuf

\* One generation's rank rises by one.
LEMMA CompletionStep ==
    ASSUME NEW o, FileInfoThreads = {o}, IInv(o), NEW g \in Gens,
           rank_vec[o][g] # num_blocks_gen[g],
           rank_vec' = [rank_vec EXCEPT ![o][g] = @ + 1],
           gen_completed' = IF rank_vec'[o][g] = num_blocks_gen[g]
                            THEN [gen_completed EXCEPT ![o] = @ + 1] ELSE gen_completed
    PROVE  /\ rank_vec' \in [FileInfoThreads -> [Gens -> 0..per_gen]]
           /\ \A h \in Gens : /\ rank_vec'[o][h] = IF h = g THEN rank_vec[o][h] + 1 ELSE rank_vec[o][h]
                              /\ rank_vec'[o][h] <= num_blocks_gen[h]
           /\ gen_completed' \in [FileInfoThreads -> 0..num_gens]
           /\ gen_completed'[o] = Cardinality(FullGens(o)')
           /\ gen_completed[o] # num_gens
<1>1. /\ \A h \in Gens : rank_vec[o][h] \in 0..per_gen /\ num_blocks_gen[h] \in 1..per_gen
      /\ \A h \in Gens : rank_vec[o][h] <= num_blocks_gen[h]
      /\ per_gen \in Nat /\ num_gens \in Nat
  BY NodeFacts DEF IInv, TypeOK, Counting
<1>2. \A h \in Gens : rank_vec'[o][h] = IF h = g THEN rank_vec[o][h] + 1 ELSE rank_vec[o][h]
  BY DEF IInv, TypeOK
<1>3. \A h \in Gens : rank_vec'[o][h] <= num_blocks_gen[h]
  BY <1>1, <1>2
<1>4. rank_vec' \in [FileInfoThreads -> [Gens -> 0..per_gen]]
  <2>1. rank_vec[o][g] + 1 \in 0..per_gen
    BY <1>1
  <2>2. [rank_vec[o] EXCEPT ![g] = @ + 1] \in [Gens -> 0..per_gen]
    BY <2>1 DEF IInv, TypeOK
  <2> QED BY <2>2 DEF IInv, TypeOK
<1>5. /\ IsFiniteSet(FullGens(o)) /\ gen_completed[o] = Cardinality(FullGens(o))
      /\ gen_completed[o] \in 0..num_gens
      /\ g \notin FullGens(o)
  BY FullGensFinite DEF IInv, Counting, FullGens
<1>6. gen_completed[o] # num_gens
  BY <1>5, FullGensFinite
<1>7. gen_completed'[o] = Cardinality(FullGens(o)')
  <2>1. CASE rank_vec'[o][g] = num_blocks_gen[g]
    <3>1. FullGens(o)' = FullGens(o) \cup {g}
      BY <1>2, <2>1 DEF FullGens
    <3>2. Cardinality(FullGens(o)') = Cardinality(FullGens(o)) + 1
      BY <1>5, <3>1, FS_AddElement
    <3>3. gen_completed'[o] = gen_completed[o] + 1
      BY <2>1 DEF IInv, TypeOK
    <3> QED BY <1>5, <3>2, <3>3
  <2>2. CASE rank_vec'[o][g] # num_blocks_gen[g]
    <3>1. FullGens(o)' = FullGens(o)
      BY <1>2, <1>5, <2>2 DEF FullGens
    <3> QED BY <1>5, <2>2, <3>1
  <2> QED BY <2>1, <2>2
<1>8. gen_completed' \in [FileInfoThreads -> 0..num_gens]
  <2>1. gen_completed[o] + 1 \in 0..num_gens
    BY <1>1, <1>5, <1>6
  <2> QED BY <2>1 DEF IInv, TypeOK
<1> QED BY <1>2, <1>3, <1>4, <1>6, <1>7, <1>8

LEMMA InvStoreBlock ==
    ASSUME NEW o, FileInfoThreads = {o}, IInv(o), NEW t \in Threads, StoreBlock(t)
    PROVE  IInv(o)'
<1>1. TypeOK /\ pc[t] = "store" /\ Goto(t, "stored")
  BY DEF IInv, StoreBlock
<1>2. self[t] = o /\ ct = o /\ packet[t] \in Packets /\ packet[t].gen \in Gens
  <2>1. Fits(o, t, pc[t], packet[t], self[t])
    BY DEF IInv, Working
  <2> QED BY <1>1, <2>1, PacketGen DEF Fits
<1>3. Moves(o, t, "stored") /\ Fits(o, t, "stored", packet'[t], self'[t])
  BY <1>1, <1>2, WaysToMove DEF Fits
<1>4. "stored" \in Labels /\ "stored" \notin Completing /\ "stored" \notin {"decoded", "serving", "write"}
  BY DEF Labels, Completing
<1>5. UNCHANGED <<main_thread, ct, server_mode, decoding, identity, out_file, fault>>
  BY DEF StoreBlock, flags
<1>6. /\ decoding' => ct = o /\ gen_completed[o] = num_gens
      /\ server_mode' => out_file = 1
  BY <1>5 DEF IInv, Completed, Decoder
<1>7. CASE ~Helpful(o, packet[t])
  <2>1. UNCHANGED <<counters, file, work_mutex>>
    BY <1>2, <1>7 DEF StoreBlock, NotStored
  <2>2. /\ server_mode' \in BOOLEAN /\ decoding' \in BOOLEAN
        /\ UNCHANGED <<main_thread, ct, store, fault>>
    BY <1>1, <1>5, <2>1 DEF TypeOK, store
  <2>3. pc[t] \notin {"write", "send NULL"}
    BY <1>1
  <2> QED BY <1>3, <1>4, <1>6, <2>2, <2>3, LocalStep
<1>8. CASE Helpful(o, packet[t])
  <2> PICK g \in Gens : g = packet[t].gen
    BY <1>2
  <2> DEFINE in_buf == [rank_vec_in_buf[o] EXCEPT ![g] = @ + 1]
  <2>1. /\ rank_vec[o][g] # num_blocks_gen[g]
        /\ rank_vec' = [rank_vec EXCEPT ![o][g] = @ + 1]
        /\ gen_completed' = IF rank_vec'[o][g] = num_blocks_gen[g]
                            THEN [gen_completed EXCEPT ![o] = @ + 1] ELSE gen_completed
        /\ FlushBuf(o, in_buf)
        /\ UNCHANGED work_mutex
    BY <1>2, <1>8 DEF StoreBlock, Helpful
  <2>2. /\ rank_vec' \in [FileInfoThreads -> [Gens -> 0..per_gen]]
        /\ \A h \in Gens : /\ rank_vec'[o][h] = IF h = g THEN rank_vec[o][h] + 1 ELSE rank_vec[o][h]
                           /\ rank_vec'[o][h] <= num_blocks_gen[h]
        /\ gen_completed' \in [FileInfoThreads -> 0..num_gens]
        /\ gen_completed'[o] = Cardinality(FullGens(o)')
        /\ gen_completed[o] # num_gens
    BY <2>1, CompletionStep
  <2>3. \A h \in Gens : /\ rank_vec[o][h] \in Nat /\ rank_vec_in_buf[o][h] \in Nat
                        /\ file[h] \in Nat /\ num_blocks_gen[h] \in 1..per_gen
                        /\ rank_vec_in_buf[o][h] <= rank_vec[o][h]
                        /\ rank_vec[o][h] <= num_blocks_gen[h]
                        /\ out_file = 0 => file[h] = rank_vec[o][h] - rank_vec_in_buf[o][h]
    BY NodeFacts DEF IInv, TypeOK, Counting
  <2>4. in_buf \in [Gens -> 0..per_gen]
    <3>1. rank_vec_in_buf[o][g] + 1 \in 0..per_gen
      BY <1>2, <2>1, <2>3, NodeFacts
    <3> QED BY <1>1, <3>1 DEF TypeOK
  <2>5. \A h \in Gens : in_buf[h] = IF h = g THEN rank_vec_in_buf[o][h] + 1 ELSE rank_vec_in_buf[o][h]
    BY <1>1 DEF TypeOK
  <2> HIDE DEF in_buf
  <2>6. /\ rank_vec_in_buf' \in [FileInfoThreads -> [Gens -> 0..per_gen]]
        /\ file' \in [Gens -> Nat]
        /\ \A h \in Gens : /\ rank_vec_in_buf'[o][h] <= in_buf[h]
                           /\ file'[h] = file[h] + in_buf[h] - rank_vec_in_buf'[o][h]
    BY <1>1, <2>1, <2>4, Flushing
  <2>7. \A h \in Gens : /\ rank_vec_in_buf'[o][h] <= rank_vec'[o][h]
                        /\ rank_vec'[o][h] <= num_blocks_gen[h]
                        /\ out_file' = 0 => file'[h] = rank_vec'[o][h] - rank_vec_in_buf'[o][h]
    <3> TAKE h \in Gens
    <3>1. rank_vec_in_buf'[o][h] \in Nat
      BY <2>6, NodeFacts
    <3>2. /\ rank_vec'[o][h] - rank_vec[o][h] = in_buf[h] - rank_vec_in_buf[o][h]
          /\ in_buf[h] \in Nat /\ rank_vec'[o][h] \in Nat
          /\ rank_vec'[o][h] >= in_buf[h]
      BY <2>2, <2>3, <2>5
    <3>3. /\ rank_vec_in_buf'[o][h] <= in_buf[h]
          /\ file'[h] = file[h] + in_buf[h] - rank_vec_in_buf'[o][h]
      BY <2>6
    <3>4. /\ rank_vec[o][h] \in Nat /\ rank_vec_in_buf[o][h] \in Nat /\ file[h] \in Nat
          /\ out_file' = 0 => file[h] = rank_vec[o][h] - rank_vec_in_buf[o][h]
      BY <1>5, <2>3
    <3>5. rank_vec'[o][h] <= num_blocks_gen[h]
      BY <2>2
    <3>6. rank_vec_in_buf'[o][h] <= rank_vec'[o][h]
      BY <3>1, <3>2, <3>3
    <3>7. out_file' = 0 => file'[h] = rank_vec'[o][h] - rank_vec_in_buf'[o][h]
      <4> SUFFICES ASSUME out_file' = 0
                   PROVE  file'[h] = rank_vec'[o][h] - rank_vec_in_buf'[o][h]
        OBVIOUS
      <4> DEFINE r == rank_vec[o][h]
                 r1 == rank_vec'[o][h]
                 b == rank_vec_in_buf[o][h]
                 b1 == rank_vec_in_buf'[o][h]
                 i == in_buf[h]
                 f == file[h]
                 f1 == file'[h]
      <4>1. /\ r1 - r = i - b /\ f1 = f + i - b1 /\ f = r - b
            /\ r \in Nat /\ r1 \in Nat /\ b \in Nat /\ b1 \in Nat /\ i \in Nat /\ f \in Nat
        BY <3>1, <3>2, <3>3, <3>4
      <4> HIDE DEF r, r1, b, b1, i, f, f1
      <4>2. f1 = r1 - b1
        BY <4>1
      <4> QED BY <4>2 DEF r1, b1, f1
    <3> QED BY <3>5, <3>6, <3>7
  <2>8. Counting(o)'
    BY <2>2, <2>7 DEF Counting
  <2>9. (Working(o) /\ Completed(o) /\ Decoder(o) /\ MutexKeptOnlyAfterDecode)'
    <3>1. pc[t] \notin {"write", "send NULL"}
      BY <1>1
    <3>2. UNCHANGED <<ct, identity, work_mutex, out_file>>
      BY <1>5, <2>1
    <3> QED BY <1>3, <1>4, <1>6, <2>2, <3>1, <3>2, PlaceStep
  <2>10. TypeOK'
    BY <1>1, <1>3, <1>4, <1>5, <2>1, <2>2, <2>6 DEF TypeOK, Moves
  <2>11. TempFilesUntilDecoded'
    BY <1>5 DEF IInv, TempFilesUntilDecoded
  <2> QED BY <2>8, <2>9, <2>10, <2>11 DEF IInv
<1> QED BY <1>7, <1>8

\* A step that takes the free work_mutex and keeps it.
LEMMA LockStep ==
    ASSUME NEW o, FileInfoThreads = {o}, IInv(o), NEW t \in Threads, NEW label,
           Moves(o, t, label), Fits(o, t, label, packet'[t], self'[t]),
           MutexFree(o), Locked(o, t),
           \/ label = "write" /\ out_file = 0 /\ identity' = [identity EXCEPT ![o] = CT_SERVER]
           \/ label = "decoded" /\ out_file = 1 /\ UNCHANGED identity
           \/ label = "send NULL" /\ UNCHANGED identity,
           label \in Completing => ct = o /\ gen_completed[o] = num_gens,
           UNCHANGED <<main_thread, flags, counters, file, out_file, fault>>
    PROVE  IInv(o)'
<1>1. /\ pc'[t] = label /\ \A u \in Threads \ {t} : pc'[u] = pc[u]
      /\ \A u \in Threads \ {t} : packet'[u] = packet[u] /\ self'[u] = self[u]
  BY DEF IInv, TypeOK, Moves
<1>2. work_mutex[o] = NULL /\ work_mutex'[o] = t /\ t # NULL
  BY NodeFacts DEF IInv, TypeOK, MutexFree, Locked
<1>3. /\ identity[o] \in {CT_SERVER, CT_CLIENT} /\ out_file \in {0, 1}
      /\ \A u \in Threads : pc[u] # "write"
      /\ identity[o] = CT_SERVER => out_file # 0
  BY <1>2, NodeFacts DEF IInv, TypeOK, Decoder
<1>4. UNCHANGED <<main_thread, ct, server_mode, decoding, rank_vec, rank_vec_in_buf,
                  gen_completed, file, out_file, fault>>
  BY DEF flags, counters
<1>5. Working(o)'
  <2>1. ASSUME NEW u \in Threads PROVE Fits(o, u, pc[u], packet[u], self[u])'
    <3>1. CASE u = t
      BY <1>1, <1>4, <3>1 DEF Fits
    <3>2. CASE u # t
      <4>1. Fits(o, u, pc[u], packet[u], self[u])
        BY DEF IInv, Working
      <4> QED BY <1>1, <1>4, <3>2, <4>1 DEF Fits
    <3> QED BY <3>1, <3>2
  <2> QED BY <2>1 DEF Working
<1>6. \/ label = "write" /\ out_file = 0 /\ identity'[o] = CT_SERVER
      \/ label = "decoded" /\ out_file = 1 /\ identity'[o] = identity[o]
      \/ label = "send NULL" /\ identity'[o] = identity[o]
  BY DEF IInv, TypeOK
<1>7. Completed(o)'
  <2>1. label \in {"write", "decoded"} => gen_completed[o] = num_gens
    BY DEF Completing
  <2> QED BY <1>1, <1>4, <1>6, <2>1 DEF IInv, Completed, Completing
<1>8. Decoder(o)'
  <2>1. out_file' = 1 => ct' = o /\ identity'[o] = CT_SERVER
    BY <1>4, <1>6 DEF IInv, Decoder
  <2>2. server_mode' => out_file' = 1
    BY <1>4 DEF IInv, Decoder
  <2>3. identity'[o] = CT_SERVER /\ out_file' = 0 => label = "write"
    <3>1. out_file' = out_file
      BY <1>4
    <3> QED BY <1>3, <1>6, <3>1, Zenon
  <2>4. ASSUME NEW u \in Threads
        PROVE  /\ pc'[u] = "write" => out_file' = 0 /\ identity'[o] = CT_SERVER /\ work_mutex'[o] = u
               /\ pc'[u] \in {"decoded", "serving"} => out_file' = 1
    <3>1. CASE u = t
      BY <1>1, <1>2, <1>4, <1>6, <3>1
    <3>2. CASE u # t
      BY <1>1, <1>3, <1>4, <3>2 DEF IInv, Decoder
    <3> QED BY <3>1, <3>2
  <2> QED BY <1>1, <1>2, <1>3, <1>4, <2>1, <2>2, <2>3, <2>4 DEF Decoder
<1>9. MutexKeptOnlyAfterDecode'
  <2>1. pc'[work_mutex'[o]] \in {"write", "send NULL"} \/ out_file' > 0
    <3>1. label = "decoded" => out_file' > 0
      BY <1>4, <1>6
    <3>2. label \in {"write", "send NULL", "decoded"}
      OBVIOUS
    <3> QED BY <1>1, <1>2, <3>1, <3>2, Zenon
  <2> QED BY <2>1 DEF MutexKeptOnlyAfterDecode
<1>10. TypeOK'
  <2>1. label \in Labels
    BY DEF Labels
  <2> QED BY <1>4, <2>1 DEF IInv, TypeOK, Moves, Locked
<1>11. Counting(o)' /\ TempFilesUntilDecoded'
  BY <1>4 DEF IInv, Counting, FullGens, TempFilesUntilDecoded
<1> QED BY <1>5, <1>7, <1>8, <1>9, <1>10, <1>11 DEF IInv

\* Of the threads that complete the download together, the first sets identity with
\* nothing written; the others come after the file.
LEMMA InvDecode ==
    ASSUME NEW o, FileInfoThreads = {o}, IInv(o), NEW t \in Threads, Decode(t)
    PROVE  IInv(o)'
<1>1. TypeOK /\ pc[t] = "decode"
  BY DEF IInv, Decode
<1>2. self[t] = o /\ ct = o
  <2>1. Fits(o, t, pc[t], packet[t], self[t])
    BY DEF IInv, Working
  <2> QED BY <1>1, <2>1 DEF Fits
<1>3. gen_completed[o] = num_gens
  BY <1>1 DEF IInv, Completed, Completing
<1>4. /\ MutexFree(o) /\ work_mutex[o] = NULL
      /\ UNCHANGED <<main_thread, flags, counters, file, out_file, fault>>
  BY <1>2 DEF Decode, MutexFree
<1>5. out_file \in {0, 1} /\ identity[o] \in {CT_SERVER, CT_CLIENT} /\ CT_CLIENT # CT_SERVER
  BY DEF IInv, TypeOK, Decoder, CT_CLIENT, CT_SERVER
<1>6. CASE identity[o] # CT_CLIENT
  <2>1. out_file = 1
    BY <1>4, <1>5, <1>6 DEF IInv, Decoder
  <2>2. Locked(o, t) /\ Goto(t, "decoded") /\ UNCHANGED identity
    BY <1>2, <1>6 DEF Decode
  <2>3. Moves(o, t, "decoded") /\ Fits(o, t, "decoded", packet'[t], self'[t])
    BY <1>1, <1>2, <2>2, WaysToMove DEF Fits
  <2> QED BY <1>2, <1>3, <1>4, <2>1, <2>2, <2>3, LockStep
<1>7. CASE identity[o] = CT_CLIENT
  <2>1. out_file = 0
    BY <1>5, <1>7 DEF IInv, Decoder
  <2>2. /\ Locked(o, t) /\ Goto(t, "write")
        /\ identity' = [identity EXCEPT ![o] = CT_SERVER]
    BY <1>2, <1>3, <1>7 DEF Decode, BecomeServer
  <2>3. Moves(o, t, "write") /\ Fits(o, t, "write", packet'[t], self'[t])
    BY <1>1, <1>2, <2>2, WaysToMove DEF Fits
  <2> QED BY <1>2, <1>3, <1>4, <2>1, <2>2, <2>3, LockStep
<1> QED BY <1>6, <1>7

\* The decoder finds every temp file, writes out_filename and frees work_mutex.
LEMMA InvWriteFiles ==
    ASSUME NEW o, FileInfoThreads = {o}, IInv(o), NEW t \in Threads, WriteFiles(t)
    PROVE  IInv(o)'
<1>1. TypeOK /\ pc[t] = "write"
  BY DEF IInv, WriteFiles
<1>2. self[t] = o /\ ct = o
  <2>1. Fits(o, t, pc[t], packet[t], self[t])
    BY DEF IInv, Working
  <2> QED BY <1>1, <2>1 DEF Fits
<1>3. out_file = 0 /\ identity[o] = CT_SERVER /\ work_mutex[o] = t
  BY <1>1 DEF IInv, Decoder
<1>4. gen_completed[o] = num_gens
  BY <1>3 DEF IInv, Completed
<1>5. ASSUME NEW g \in Gens PROVE ~FileMissing(o, g)
  <2>1. file[g] = blocks_in_file(o, g)
    BY <1>3 DEF IInv, Counting, blocks_in_file
  <2> QED BY <2>1 DEF FileMissing
<1>6. /\ out_file' = out_file + 1 /\ file' \in {file, [g \in Gens |-> 0]}
      /\ Locked(o, NULL) /\ Goto(t, "decoded")
      /\ UNCHANGED <<main_thread, flags, identity, counters, fault>>
  BY <1>2, <1>5 DEF WriteFiles
<1>7. /\ out_file' = 1 /\ file' \in [Gens -> Nat]
      /\ work_mutex' = [work_mutex EXCEPT ![o] = NULL]
      /\ UNCHANGED <<main_thread, ct, server_mode, decoding, identity, rank_vec,
                     rank_vec_in_buf, gen_completed, fault>>
  BY <1>1, <1>3, <1>6 DEF TypeOK, Locked, flags, counters
<1>8. Moves(o, t, "decoded") /\ Fits(o, t, "decoded", packet'[t], self'[t])
  BY <1>1, <1>2, <1>6, WaysToMove DEF Fits
<1>9. /\ pc'[t] = "decoded" /\ work_mutex'[o] = NULL
      /\ \A u \in Threads \ {t} : pc'[u] = pc[u] /\ packet'[u] = packet[u] /\ self'[u] = self[u]
  BY <1>1, <1>7, <1>8 DEF TypeOK, Moves
<1>10. Working(o)'
  <2>1. ASSUME NEW u \in Threads PROVE Fits(o, u, pc[u], packet[u], self[u])'
    <3>1. CASE u = t
      BY <1>7, <1>8, <1>9, <3>1 DEF Fits
    <3>2. CASE u # t
      <4>1. Fits(o, u, pc[u], packet[u], self[u])
        BY DEF IInv, Working
      <4> QED BY <1>7, <1>9, <3>2, <4>1 DEF Fits
    <3> QED BY <3>1, <3>2
  <2> QED BY <2>1 DEF Working
<1>11. Completed(o)'
  BY <1>2, <1>4, <1>7 DEF Completed
<1>12. Decoder(o)'
  <2>1. \A u \in Threads \ {t} : pc'[u] # "write"
    BY <1>3, <1>9 DEF IInv, Decoder
  <2> QED BY <1>2, <1>3, <1>7, <1>9, <2>1 DEF Decoder
<1>13. TypeOK'
  BY <1>1, <1>7, <1>8 DEF TypeOK, Moves, Labels
<1>14. Counting(o)'
  BY <1>7 DEF IInv, Counting, FullGens
<1>15. MutexKeptOnlyAfterDecode' /\ TempFilesUntilDecoded'
  BY <1>7, <1>9 DEF MutexKeptOnlyAfterDecode, TempFilesUntilDecoded
<1> QED BY <1>10, <1>11, <1>12, <1>13, <1>14, <1>15 DEF IInv

\* A fault changes nothing else.
LEMMA InvFault ==
    ASSUME NEW o, IInv(o), NEW cause, Fault(cause),
           cause \in {"no temp file in Decode", "no temp file in ReEncode"} => out_file = 1
    PROVE  IInv(o)'
<1>1. main_thread' \in {"accept", "recv"}
  BY DEF IInv, TypeOK, Fault, threads
<1>2. UNCHANGED <<pc, packet, self, flags, store>> /\ fault' = cause
  BY DEF Fault, threads
<1> QED BY <1>1, <1>2, FaultStep

\* Requests.
LEMMA InvServe ==
    ASSUME NEW o, FileInfoThreads = {o}, IInv(o), NEW t \in Threads,
           ReEncode(t) \/ ReEncodeFaults(t) \/ SendNull(t) \/ Encode(t)
    PROVE  IInv(o)'
<1>1. TypeOK /\ self[t] \in {o, NULL}
  BY DEF IInv, TypeOK
<1>2. Fits(o, t, pc[t], packet[t], self[t])
  BY DEF IInv, Working
<1>3. ASSUME Exit(t), UNCHANGED <<main_thread, flags, store, fault>>,
             pc[t] \in {"reencode", "encode"}
      PROVE  IInv(o)'
  <2>1. Moves(o, t, "exited") /\ Fits(o, t, "exited", packet'[t], self'[t])
    BY <1>1, <1>3, WaysToMove DEF Fits
  <2>2. /\ decoding => ct = o /\ gen_completed[o] = num_gens
        /\ server_mode => out_file = 1
        /\ server_mode \in BOOLEAN /\ decoding \in BOOLEAN
    BY DEF IInv, Completed, Decoder, TypeOK
  <2>3. "exited" \in Labels /\ "exited" \notin Completing
    BY DEF Labels, Completing
  <2> QED BY <1>3, <2>1, <2>2, <2>3, LocalStep DEF flags
<1>4. ASSUME pc[t] = "reencode", self[t] = o, MutexFree(o),
             FileMissing(o, packet[t].gen)
      PROVE  out_file = 1
  <2>1. packet[t].gen \in Gens
    BY <1>2, <1>4, PacketGen DEF Fits
  <2>2. out_file # 0
    BY <1>4, <2>1 DEF IInv, Counting, FileMissing, blocks_in_file
  <2> QED BY <2>2 DEF IInv, Decoder
<1>5. CASE ReEncode(t)
  <2>1. pc[t] = "reencode" /\ self[t] = o /\ MutexFree(o)
    BY <1>1, <1>5 DEF ReEncode
  <2>2. UNCHANGED <<main_thread, flags, identity, counters, file, out_file, fault>>
    BY <1>5 DEF ReEncode
  <2>3. CASE Exit(t) /\ UNCHANGED work_mutex
    <3>1. UNCHANGED store
      BY <2>2, <2>3 DEF store
    <3> QED BY <1>3, <2>1, <2>2, <2>3, <3>1
  <2>4. CASE Goto(t, "send NULL") /\ Locked(o, t)
    <3>1. Moves(o, t, "send NULL") /\ Fits(o, t, "send NULL", packet'[t], self'[t])
      BY <1>1, <2>4, WaysToMove DEF Fits
    <3>2. "send NULL" \notin Completing
      BY DEF Completing
    <3> QED BY <2>1, <2>2, <2>4, <3>1, <3>2, LockStep
  <2> QED BY <1>5, <2>1, <2>3, <2>4 DEF ReEncode
<1>6. CASE ReEncodeFaults(t)
  <2>1. CASE Fault("no ct")
    BY <2>1, InvFault
  <2>2. CASE /\ self[t] # NULL /\ MutexFree(self[t]) /\ FileMissing(self[t], packet[t].gen)
             /\ Fault("no temp file in ReEncode")
    <3>1. out_file = 1
      BY <1>1, <1>4, <1>6, <2>2 DEF ReEncodeFaults
    <3> QED BY <2>2, <3>1, InvFault
  <2> QED BY <1>6, <2>1, <2>2 DEF ReEncodeFaults
<1>7. CASE SendNull(t)
  BY <1>7, InvFault DEF SendNull
<1>8. CASE Encode(t)
  <2>1. CASE Exit(t) /\ UNCHANGED <<main_thread, flags, store, fault>>
    BY <1>3, <1>8, <2>1 DEF Encode
  <2>2. CASE Fault("no data in Encode")
    BY <2>2, InvFault
  <2> QED BY <1>8, <2>1, <2>2 DEF Encode
<1> QED BY <1>5, <1>6, <1>7, <1>8

LEMMA InvNext ==
    ASSUME NEW o, FileInfoThreads = {o}, IInv(o), [Next]_vars
    PROVE  IInv(o)'
<1>1. ASSUME NEW t \in Threads, NEW p \in Packets, Accept(t, p) PROVE IInv(o)'
  BY <1>1, InvAccept
<1>2. CASE PeerBreaksOff
  <2>1. /\ main_thread' \in {"accept", "recv"} /\ UNCHANGED <<pc, packet, self, flags, store>>
        /\ fault' = fault
    BY <1>2 DEF PeerBreaksOff
  <2>2. fault \in {"no temp file in Decode", "no temp file in ReEncode"} => out_file = 1
    BY DEF IInv, TempFilesUntilDecoded
  <2> QED BY <2>1, <2>2, FaultStep
<1>3. ASSUME NEW t \in Threads, Step(t) PROVE IInv(o)'
  BY <1>3, InvLocal, InvNewCodeTorrent, InvStoreBlock, InvDecode, InvWriteFiles, InvServe DEF Step
<1>4. CASE UNCHANGED vars
  <2>1. /\ UNCHANGED <<pc, packet, self, flags, store>> /\ main_thread' = main_thread
        /\ fault' = fault
    BY <1>4 DEF vars, threads
  <2>2. /\ main_thread \in {"accept", "recv"}
        /\ fault \in {"no temp file in Decode", "no temp file in ReEncode"} => out_file = 1
    BY DEF IInv, TypeOK, TempFilesUntilDecoded
  <2> QED BY <2>1, <2>2, FaultStep
<1> QED BY <1>1, <1>2, <1>3, <1>4 DEF Next, Run

-----------------------------------------------------------------------------
(* The theorems                                                            *)

LEMMA Invariance ==
    ASSUME NEW o, FileInfoThreads = {o}
    PROVE  Spec => []IInv(o)
<1>1. Init => IInv(o)
  BY InvInit
<1>2. IInv(o) /\ [Next]_vars => IInv(o)'
  BY InvNext
<1> QED BY <1>1, <1>2, PTL DEF Spec

\* Types, of every variable in every state: the ranks and counters stay within the
\* generation's size, and mutex and thread variables name threads and objects.
THEOREM TypeCorrect ==
    ASSUME NEW o, FileInfoThreads = {o}
    PROVE  Spec => []TypeOK
<1>1. IInv(o) => TypeOK
  BY DEF IInv
<1> QED BY <1>1, Invariance, PTL

\* However many threads find the download completed, the file is written once.
THEOREM OneDecode ==
    ASSUME NEW o, FileInfoThreads = {o}
    PROVE  Spec => []DecodedOnce
<1>1. IInv(o) => DecodedOnce
  BY DEF IInv, Decoder, DecodedOnce
<1> QED BY <1>1, Invariance, PTL

\* A node in server mode has the file, whichever thread set the flag.
THEOREM ServersHaveFile ==
    ASSUME NEW o, FileInfoThreads = {o}
    PROVE  Spec => []ServerModeHasFile
<1>1. IInv(o) => ServerModeHasFile
  BY DEF IInv, Decoder, ServerModeHasFile
<1> QED BY <1>1, Invariance, PTL

\* No packet is dropped while a block is missing.
THEOREM NothingNeededIsDropped ==
    ASSUME NEW o, FileInfoThreads = {o}
    PROVE  Spec => []DropsOnlyWhenComplete
<1>1. IInv(o) => DropsOnlyWhenComplete
  BY DEF IInv, Completed, DropsOnlyWhenComplete
<1> QED BY <1>1, Invariance, PTL

\* work_mutex is kept for good only once nothing is left to store or write.
THEOREM MutexFreeWhileDownloading ==
    ASSUME NEW o, FileInfoThreads = {o}
    PROVE  Spec => []MutexKeptOnlyAfterDecode
<1>1. IInv(o) => MutexKeptOnlyAfterDecode
  BY DEF IInv
<1> QED BY <1>1, Invariance, PTL

\* Decode and the ReEncodes before it find every temp file they read.
THEOREM TempFilesFound ==
    ASSUME NEW o, FileInfoThreads = {o}
    PROVE  Spec => []TempFilesUntilDecoded
<1>1. IInv(o) => TempFilesUntilDecoded
  BY DEF IInv
<1> QED BY <1>1, Invariance, PTL

\* What each step of the property keeps, once an object has decoded.
Kept ==
    \A o \in FileInfoThreads :
        identity[o] = CT_SERVER =>
            /\ rank_vec'[o] = rank_vec[o] /\ rank_vec_in_buf'[o] = rank_vec_in_buf[o]
            /\ \A g \in Gens : file'[g] <= file[g]

\* A StoreBlock that waited for Decode finds every generation full and stores nothing.
THEOREM StoreEndsAtDecode ==
    ASSUME NEW o, FileInfoThreads = {o}
    PROVE  Spec => NothingStoredAfterDecode
<1> DEFINE Same == rank_vec' = rank_vec /\ rank_vec_in_buf' = rank_vec_in_buf
<1>1. IInv(o) /\ [Next]_vars => [Kept]_vars
  <2> SUFFICES ASSUME IInv(o), Next, identity[o] = CT_SERVER
               PROVE  Same /\ \A g \in Gens : file'[g] <= file[g]
    BY DEF Kept
  <2>1. /\ \A g \in Gens : file[g] \in Nat
        /\ Same /\ UNCHANGED file => Same /\ \A g \in Gens : file'[g] <= file[g]
    BY DEF IInv, TypeOK
  <2>2. ASSUME NEW t \in Threads, NEW p \in Packets, Accept(t, p) PROVE Same /\ UNCHANGED file
    BY <2>2 DEF Accept, store, counters
  <2>3. CASE PeerBreaksOff
    BY <2>1, <2>3 DEF PeerBreaksOff, store, counters
  <2>4. ASSUME NEW t \in Threads, StoreBlock(t) PROVE Same /\ UNCHANGED file
    <3>1. self[t] = o /\ packet[t].gen \in Gens
      <4>1. Fits(o, t, pc[t], packet[t], self[t]) /\ pc[t] = "store"
        BY <2>4 DEF IInv, Working, StoreBlock
      <4> QED BY <4>1, PacketGen DEF Fits
    <3>2. FullGens(o) = Gens
      <4>1. Cardinality(FullGens(o)) = num_gens
        BY DEF IInv, Completed, Counting
      <4> QED BY <4>1, FullGensFinite
    <3>3. ~Helpful(o, packet[t])
      BY <3>1, <3>2 DEF FullGens, Helpful
    <3> QED BY <2>4, <3>1, <3>3 DEF StoreBlock, NotStored, counters
  <2>5. ASSUME NEW t \in Threads, WriteFiles(t)
        PROVE  Same /\ \A g \in Gens : file'[g] <= file[g]
    <3>1. CASE UNCHANGED <<rank_vec, rank_vec_in_buf, file>>
      BY <2>1, <3>1
    <3>2. CASE Same /\ file' = [g \in Gens |-> 0]
      BY <2>1, <3>2
    <3> QED BY <2>5, <3>1, <3>2 DEF WriteFiles, Fault, store, counters
  <2>6. ASSUME NEW t \in Threads, Step(t), ~StoreBlock(t), ~WriteFiles(t)
        PROVE  Same /\ UNCHANGED file
    BY <2>6 DEF Step, Start, CheckNoFile, NewCodeTorrent, CheckClient, CheckCompleted, SetDecoding,
                Decode, SetServerMode, ClearDecoding, CheckMode, ReEncode, ReEncodeFaults,
                SendNull, Encode, Fault, store, counters
  <2> QED BY <2>1, <2>2, <2>3, <2>4, <2>5, <2>6 DEF Next, Run
<1>2. Spec => [][Kept]_vars
  BY <1>1, Invariance, PTL DEF Spec
<1> QED BY <1>2 DEF NothingStoredAfterDecode, Kept

-----------------------------------------------------------------------------
(* The store the threads share goes through the steps of StoreCounters.    *)

LEMMA TheObject == ASSUME NEW o, FileInfoThreads = {o} PROVE obj = o
  BY DEF obj

LEMMA SequentialInit == ASSUME NEW o, FileInfoThreads = {o}, Init PROVE Abstract!Init
  BY TheObject DEF Init, Abstract!Init, Abstract!None, Decoding

\* What the abstract store sees of a state.
LEMMA SameStore ==
    ASSUME NEW o, FileInfoThreads = {o},
           UNCHANGED <<identity, work_mutex, rank_vec, rank_vec_in_buf, file, out_file>>
    PROVE  UNCHANGED Abstract!vars
  BY TheObject DEF Abstract!vars, Decoding

\* A step that takes the free work_mutex, with the file written or nothing of a
\* generation to serve.
LEMMA SequentialLock ==
    ASSUME NEW o, FileInfoThreads = {o}, IInv(o), NEW t \in Threads,
           MutexFree(o), Locked(o, t),
           UNCHANGED <<identity, rank_vec, rank_vec_in_buf, file, out_file>>
    PROVE  /\ ~(work_mutex[obj] # NULL /\ ~Decoding)
           /\ out_file > 0 => Abstract!DecodeAgain
           /\ \A g \in Gens : out_file = 0 /\ rank_vec[o][g] = 0 => Abstract!Refuse(g)
<1>1. obj = o
  BY TheObject
<1>2. work_mutex[o] = NULL /\ work_mutex'[o] = t /\ t # NULL
  BY NodeFacts DEF IInv, TypeOK, MutexFree, Locked
<1>3. ~Decoding /\ Decoding' = Decoding
  BY <1>1, <1>2 DEF Decoding, IInv, Decoder
<1>4. /\ (work_mutex[obj] # NULL /\ ~Decoding) = FALSE
      /\ (work_mutex[obj] # NULL /\ ~Decoding)' = TRUE
  BY <1>1, <1>2, <1>3
<1>5. out_file \in {0, 1}
  BY DEF IInv, Decoder
<1>6. UNCHANGED <<out_file > 0, rank_vec[obj], rank_vec_in_buf[obj], file>>
  BY <1>1
<1>7. out_file > 0 => Abstract!DecodeAgain
  BY <1>4, <1>6 DEF Abstract!DecodeAgain
<1>8. ASSUME NEW g \in Gens, out_file = 0, rank_vec[o][g] = 0
      PROVE  Abstract!Refuse(g)
  BY <1>1, <1>4, <1>6, <1>8 DEF Abstract!Refuse
<1> QED BY <1>4, <1>7, <1>8

LEMMA BufSizeIsNat ==
    ASSUME NEW held \in [Gens -> 0..per_gen + 1]
    PROVE  BufSize(held) \in Nat
<1> DEFINE slots == UNION {{g} \X (1..held[g]) : g \in Gens}
<1>1. IsFiniteSet(Gens \X (1..per_gen + 1))
  <2>1. IsFiniteSet(1..per_gen + 1)
    BY NodeFacts, FS_Interval
  <2> QED BY <2>1, NodeFacts, FS_Product
<1>2. slots \subseteq Gens \X (1..per_gen + 1)
  <2>1. ASSUME NEW g \in Gens, NEW i \in 1..held[g] PROVE i \in 1..per_gen + 1
    BY NodeFacts
  <2> QED BY <2>1
<1>3. IsFiniteSet(slots)
  BY <1>1, <1>2, FS_Subset
<1> QED BY <1>3, FS_CardinalityType DEF BufSize

LEMMA SequentialStore ==
    ASSUME NEW o, FileInfoThreads = {o}, IInv(o), NEW t \in Threads, StoreBlock(t)
    PROVE  [Abstract!Next]_Abstract!vars
<1>1. obj = o
  BY TheObject
<1>2. self[t] = o /\ packet[t].gen \in Gens
  <2>1. Fits(o, t, pc[t], packet[t], self[t])
    BY DEF IInv, Working
  <2> QED BY <2>1, PacketGen DEF Fits, StoreBlock
<1>3. CASE ~Helpful(o, packet[t])
  <2>1. UNCHANGED <<counters, file, work_mutex, identity, out_file>>
    BY <1>2, <1>3 DEF StoreBlock, NotStored
  <2> QED BY <2>1, SameStore DEF counters
<1>4. CASE Helpful(o, packet[t])
  <2> PICK g \in Gens : g = packet[t].gen
    BY <1>2
  <2> DEFINE held == [rank_vec_in_buf[o] EXCEPT ![g] = @ + 1]
  <2>1. /\ rank_vec[o][g] # num_blocks_gen[g]
        /\ rank_vec' = [rank_vec EXCEPT ![o][g] = @ + 1]
        /\ FlushBuf(o, held) /\ MutexFree(o)
        /\ UNCHANGED <<work_mutex, identity, out_file>>
    BY <1>2, <1>4 DEF StoreBlock, Helpful
  <2>2. rank_vec'[o] = [rank_vec[o] EXCEPT ![g] = @ + 1]
    BY <2>1 DEF IInv, TypeOK
  <2>3. ASSUME NEW b, rank_vec_in_buf' = [rank_vec_in_buf EXCEPT ![o] = b]
        PROVE  rank_vec_in_buf'[o] = b
    BY <2>3 DEF IInv, TypeOK
  <2> HIDE DEF held
  <2>4. BufSize(held) = Abstract!BufSize(held)
    BY DEF BufSize, Abstract!BufSize, Cardinality, Abstract!Cardinality
  <2>5. Abstract!Place(held)
    <3>1. CASE BufSize(held) < buffer_size
      <4>1. Flushed(o, held, file)
        BY <2>1, <3>1 DEF FlushBuf
      <4>2. rank_vec_in_buf'[obj] = held /\ file' = file
        BY <1>1, <2>3, <4>1 DEF Flushed
      <4> QED BY <2>4, <3>1, <4>2 DEF Abstract!Place
    <3>2. CASE ~(BufSize(held) < buffer_size)
      <4>1. PICK e \in {h \in Gens : held[h] > 0} :
                Flushed(o, [held EXCEPT ![e] = 0], [file EXCEPT ![e] = @ + held[e]])
        BY <2>1, <3>2 DEF FlushBuf
      <4>2. /\ rank_vec_in_buf'[obj] = [held EXCEPT ![e] = 0]
            /\ file' = [file EXCEPT ![e] = @ + held[e]]
        BY <1>1, <2>3, <4>1 DEF Flushed
      <4>3. BufSize(held) >= buffer_size
        <5>1. held \in [Gens -> 0..per_gen + 1]
          <6>1. rank_vec_in_buf[o] \in [Gens -> 0..per_gen] /\ per_gen \in Nat
            BY NodeFacts DEF IInv, TypeOK
          <6> QED BY <6>1 DEF held
        <5>2. BufSize(held) \in Nat
          BY <5>1, BufSizeIsNat
        <5>3. buffer_size \in Nat
          BY NodeFacts DEF buffer_size
        <5> QED BY <3>2, <5>2, <5>3
      <4> QED BY <2>4, <4>1, <4>2, <4>3 DEF Abstract!Place
    <3> QED BY <3>1, <3>2
  <2>6. ~(work_mutex[obj] # NULL /\ ~Decoding)
    BY <1>1, <2>1 DEF MutexFree
  <2>7. UNCHANGED <<out_file > 0, work_mutex[obj] # NULL /\ ~Decoding>>
    BY <2>1 DEF Decoding
  <2>8. Abstract!Store(g)
    BY <1>1, <2>1, <2>2, <2>5, <2>6, <2>7 DEF Abstract!Store, held
  <2> QED BY <2>8 DEF Abstract!Next
<1> QED BY <1>3, <1>4

\* The first Decode begins unseen; a later one keeps the lock.
LEMMA SequentialDecode ==
    ASSUME NEW o, FileInfoThreads = {o}, IInv(o), NEW t \in Threads, Decode(t)
    PROVE  [Abstract!Next]_Abstract!vars
<1>1. obj = o
  BY TheObject
<1>2. self[t] = o /\ gen_completed[o] = num_gens
  <2>1. Fits(o, t, pc[t], packet[t], self[t]) /\ pc[t] = "decode"
    BY DEF IInv, Working, Decode
  <2> QED BY <2>1 DEF Fits, IInv, Completed, Completing
<1>3. /\ MutexFree(o) /\ Locked(o, t)
      /\ UNCHANGED <<counters, file, out_file>>
  BY <1>2 DEF Decode
<1>4. CASE identity[o] # CT_CLIENT
  <2>1. out_file = 1 /\ UNCHANGED identity
    BY <1>2, <1>3, <1>4 DEF Decode, IInv, TypeOK, Decoder, MutexFree
  <2>2. Abstract!DecodeAgain
    BY <1>3, <2>1, SequentialLock DEF counters
  <2> QED BY <2>2 DEF Abstract!Next
<1>5. CASE identity[o] = CT_CLIENT
  <2>1. identity' = [identity EXCEPT ![o] = CT_SERVER]
    BY <1>2, <1>5 DEF Decode, BecomeServer
  <2>2. out_file = 0 /\ work_mutex[o] = NULL
    BY <1>3, <1>5 DEF IInv, Decoder, MutexFree, CT_CLIENT, CT_SERVER
  <2>3. identity'[o] = CT_SERVER
    BY <2>1 DEF IInv, TypeOK
  <2>4. Decoding'
    BY <1>1, <1>3, <2>2, <2>3 DEF Decoding
  <2>5. /\ (work_mutex[obj] # NULL /\ ~Decoding) = FALSE
        /\ (work_mutex[obj] # NULL /\ ~Decoding)' = FALSE
    BY <1>1, <2>2, <2>4
  <2> QED BY <1>1, <1>3, <2>5 DEF Abstract!vars, counters
<1> QED BY <1>4, <1>5

\* With the output written and the lock freed, the file is decoded.
LEMMA SequentialWrite ==
    ASSUME NEW o, FileInfoThreads = {o}, IInv(o), NEW t \in Threads, WriteFiles(t)
    PROVE  [Abstract!Next]_Abstract!vars
<1>1. obj = o
  BY TheObject
<1>2. self[t] = o /\ pc[t] = "write"
  <2>1. Fits(o, t, pc[t], packet[t], self[t]) /\ pc[t] = "write"
    BY DEF IInv, Working, WriteFiles
  <2> QED BY <2>1 DEF Fits
<1>3. out_file = 0 /\ identity[o] = CT_SERVER
  BY <1>2 DEF IInv, Decoder
<1>4. CASE Fault("no temp file in Decode")
  BY <1>4, SameStore DEF Fault, store, counters
<1>5. CASE /\ out_file' = out_file + 1 /\ file' \in {file, [g \in Gens |-> 0]}
           /\ Locked(o, NULL) /\ UNCHANGED <<identity, counters>>
  <2>1. FullGens(o) = Gens
    <3>1. Cardinality(FullGens(o)) = num_gens
      BY <1>3 DEF IInv, Completed, Counting
    <3> QED BY <3>1, FullGensFinite
  <2>2. Abstract!Full
    BY <1>1, <2>1 DEF Abstract!Full, FullGens
  <2>3. Decoding /\ work_mutex'[o] = NULL /\ out_file' = 1
    BY <1>1, <1>3, <1>5 DEF Decoding, Locked, IInv, TypeOK
  <2>4. /\ (work_mutex[obj] # NULL /\ ~Decoding) = FALSE
        /\ (work_mutex[obj] # NULL /\ ~Decoding)' = FALSE
    BY <1>1, <2>3
  <2>5. /\ (out_file > 0) = FALSE /\ (out_file > 0)' = TRUE
    BY <1>3, <2>3
  <2>6. Abstract!Decode
    BY <1>1, <1>5, <2>2, <2>4, <2>5 DEF Abstract!Decode, Abstract!None, counters
  <2> QED BY <2>6 DEF Abstract!Next
<1> QED BY <1>2, <1>4, <1>5 DEF WriteFiles

LEMMA SequentialReEncode ==
    ASSUME NEW o, FileInfoThreads = {o}, IInv(o), NEW t \in Threads, ReEncode(t)
    PROVE  [Abstract!Next]_Abstract!vars
<1>1. self[t] = o /\ pc[t] = "reencode" /\ MutexFree(o)
  BY DEF IInv, TypeOK, ReEncode
<1>2. packet[t].gen \in Gens
  BY <1>1, PacketGen DEF IInv, Working, Fits
<1>3. UNCHANGED <<identity, counters, file, out_file>>
  BY DEF ReEncode
<1>4. CASE UNCHANGED work_mutex
  BY <1>3, <1>4, SameStore DEF counters
<1>5. CASE rank_vec[o][packet[t].gen] = 0 /\ Locked(o, t)
  <2>1. CASE out_file = 0
    <3>1. Abstract!Refuse(packet[t].gen)
      BY <1>1, <1>2, <1>3, <1>5, <2>1, SequentialLock DEF counters
    <3> QED BY <1>2, <3>1 DEF Abstract!Next
  <2>2. CASE out_file > 0
    <3>1. Abstract!DecodeAgain
      BY <1>1, <1>3, <1>5, <2>2, SequentialLock DEF counters
    <3> QED BY <3>1 DEF Abstract!Next
  <2> QED BY <2>1, <2>2 DEF IInv, Decoder
<1> QED BY <1>1, <1>4, <1>5 DEF ReEncode

LEMMA SequentialNext ==
    ASSUME NEW o, FileInfoThreads = {o}, IInv(o), [Next]_vars
    PROVE  [Abstract!Next]_Abstract!vars
<1>1. ASSUME UNCHANGED store PROVE [Abstract!Next]_Abstract!vars
  BY <1>1, SameStore DEF store, counters
<1>2. ASSUME NEW t \in Threads, NEW p \in Packets, Accept(t, p)
      PROVE  [Abstract!Next]_Abstract!vars
  BY <1>1, <1>2 DEF Accept
<1>3. CASE PeerBreaksOff
  BY <1>1, <1>3 DEF PeerBreaksOff
<1>4. ASSUME NEW t \in Threads, NewCodeTorrent(t) PROVE [Abstract!Next]_Abstract!vars
  <2>1. ct = NULL /\ o # NULL
    <3>1. Fits(o, t, pc[t], packet[t], self[t]) /\ pc[t] = "new"
      BY <1>4 DEF IInv, Working, NewCodeTorrent
    <3>2. o \in Threads
      BY DEF Threads
    <3> QED BY <3>1, <3>2, NodeFacts DEF Fits
  <2>2. out_file = 0
    BY <2>1 DEF IInv, Decoder
  <2>3. UNCHANGED <<identity, work_mutex, counters, file, out_file>>
    BY <1>4, <2>2 DEF NewCodeTorrent
  <2> QED BY <2>3, SameStore DEF counters
<1>5. ASSUME NEW t \in Threads,
             \/ Start(t) \/ CheckNoFile(t) \/ CheckClient(t) \/ CheckCompleted(t)
             \/ SetDecoding(t) \/ SetServerMode(t) \/ ClearDecoding(t) \/ CheckMode(t)
             \/ ReEncodeFaults(t) \/ SendNull(t) \/ Encode(t)
      PROVE  UNCHANGED store
  BY <1>5 DEF Start, CheckNoFile, CheckClient, CheckCompleted, SetDecoding, SetServerMode,
              ClearDecoding, CheckMode, ReEncodeFaults, SendNull, Encode, Fault
<1>6. ASSUME NEW t \in Threads, Step(t) PROVE [Abstract!Next]_Abstract!vars
  BY <1>1, <1>4, <1>5, <1>6, SequentialStore, SequentialDecode, SequentialWrite,
     SequentialReEncode DEF Step
<1>7. CASE UNCHANGED vars
  BY <1>1, <1>7 DEF vars
<1> QED BY <1>2, <1>3, <1>6, <1>7 DEF Next, Run

\* Whatever the threads of a node find of each other's work, its store goes
\* through the states of one that is called by one thread at a time: each method
\* takes effect at one step, on numbers of blocks that fit, and the decoder's at
\* its last.
THEOREM StoreImplementsCounters ==
    ASSUME NEW o, FileInfoThreads = {o}
    PROVE  Spec => StoreIsSequential
<1>1. Init => Abstract!Init
  BY SequentialInit
<1>2. IInv(o) /\ [Next]_vars => [Abstract!Next]_Abstract!vars
  BY SequentialNext
<1> QED BY <1>1, <1>2, Invariance, PTL DEF Spec, StoreIsSequential, Abstract!Spec
=============================================================================

-------------------------------- MODULE Node --------------------------------
(***************************************************************************)
(* The packet threads of one downloading node.  The main thread accepts    *)
(* one connection at a time, reads one packet from it and starts a         *)
(* detached thread that runs incoming_packet; these threads share ct,      *)
(* server_mode and decoding, none of which a lock protects, and the store, *)
(* whose methods lock work_mutex.                                          *)
(*                                                                         *)
(* A step of a thread ends where it next reads or writes something shared. *)
(* The store is the counting side of module CodeTorrent: which blocks are  *)
(* innovative is decided as the packet arrives.  ct is named by the thread *)
(* that constructed the object, which each thread does at most once.       *)
(***************************************************************************)
EXTENDS Layout, Integers, FiniteSets

CONSTANTS
    num_blocks, per_gen,             \* the file, as CT_FileInfo announces it
    NULL,
    FileInfoThreads, DataThreads,    \* the threads that may be given a packet of
    RequestThreads,                  \* each type: how many are handled at a time
    PeersBreakOff                    \* whether a peer may close before its packet is complete

ASSUME LayoutAssumption == num_blocks \in Nat /\ per_gen \in 1..num_blocks
ASSUME NullAssumption == NULL \notin FileInfoThreads \cup DataThreads \cup RequestThreads

VARIABLES
    main_thread,        \* "accept", or "recv" when it never returns from its inner loop
    pc, packet, self,   \* per thread: where it is, its packet, the object it called
    ct,                 \* the CodeTorrent object, NULL before the file info
    server_mode, decoding,
    identity, work_mutex,            \* of each object; work_mutex: its owner or NULL
    rank_vec, rank_vec_in_buf, gen_completed,
    file,               \* per generation, the blocks in its temp file
    out_file,           \* how many copies of the file out_filename holds
    fault               \* what killed the process, "none" while it runs

threads == <<main_thread, pc, packet, self>>
flags == <<ct, server_mode, decoding>>
counters == <<rank_vec, rank_vec_in_buf, gen_completed>>
store == <<identity, work_mutex, counters, file, out_file>>
vars == <<threads, flags, store, fault>>

CT_SERVER == "CT_SERVER"
CT_CLIENT == "CT_CLIENT"

Threads == FileInfoThreads \cup DataThreads \cup RequestThreads
num_gens == NumGens(num_blocks, per_gen)
Gens == 0..num_gens - 1
num_blocks_gen == NumBlocksGen(num_blocks, per_gen)
buffer_size == per_gen * 2

Packets ==
    [type : {"CT_FILEINFO"}]
    \cup [type : {"CT_DATA"}, gen : Gens, innovative : BOOLEAN]
    \cup [type : {"CT_REQUEST"}, gen : Gens]

NoPacket == [type |-> "none"]

MayHandle(t, p) ==
    CASE p.type = "CT_FILEINFO" -> t \in FileInfoThreads
      [] p.type = "CT_DATA" -> t \in DataThreads
      [] p.type = "CT_REQUEST" -> t \in RequestThreads

\* (Mutants: one generation early; one too many.)
DownloadCompleted_Early(o) == identity[o] = CT_SERVER \/ gen_completed[o] >= num_gens - 1
DownloadCompleted_Late(o) == identity[o] = CT_SERVER \/ gen_completed[o] > num_gens
DownloadCompleted(o) == identity[o] = CT_SERVER \/ gen_completed[o] = num_gens

blocks_in_file(o, g) == rank_vec[o][g] - rank_vec_in_buf[o][g]

\* ReadGenBuf finds no file to read block 0 from.
FileMissing(o, g) == blocks_in_file(o, g) > 0 /\ file[g] = 0

-----------------------------------------------------------------------------
At(t, label) == pc' = [pc EXCEPT ![t] = label]
Goto(t, label) == At(t, label) /\ UNCHANGED <<packet, self>>
Call(t, label) == At(t, label) /\ self' = [self EXCEPT ![t] = ct] /\ UNCHANGED packet
Exit(t) ==
    /\ At(t, "exited")
    /\ packet' = [packet EXCEPT ![t] = NoPacket]
    /\ self' = [self EXCEPT ![t] = NULL]

\* pthread_mutex_lock waits for this.  (Mutant: the method does not lock.)
MutexFree_Always(o) == TRUE
MutexFree(o) == work_mutex[o] = NULL
Locked(o, t) == work_mutex' = [work_mutex EXCEPT ![o] = t]

\* A memory fault ends the process, whichever thread it happens in.
Fault(cause) == fault' = cause /\ UNCHANGED <<threads, flags, store>>

-----------------------------------------------------------------------------
(* The main thread                                                         *)

\* A request for data is sent only once ct is set, and only then is data sent.
Accept(t, p) ==
    /\ main_thread = "accept"
    /\ pc[t] = "exited"
    /\ MayHandle(t, p)
    /\ p.type = "CT_DATA" => ct # NULL
    /\ packet' = [packet EXCEPT ![t] = p]
    /\ At(t, "start")
    /\ UNCHANGED <<main_thread, self, flags, store, fault>>

\* recv returns 0 for ever: bytes_rec stands still and full_packet stays false.
PeerBreaksOff ==
    /\ PeersBreakOff
    /\ main_thread = "accept"
    /\ main_thread' = "recv"
    /\ UNCHANGED <<pc, packet, self, flags, store, fault>>

-----------------------------------------------------------------------------
(* incoming_packet                                                         *)

Start(t) ==
    /\ pc[t] = "start"
    /\ IF decoding THEN Exit(t) ELSE Goto(t, packet[t].type)
    /\ UNCHANGED <<main_thread, flags, store, fault>>

CheckNoFile(t) ==
    /\ pc[t] = "CT_FILEINFO"
    /\ IF ~server_mode /\ ct = NULL THEN Goto(t, "new") ELSE Exit(t)
    /\ UNCHANGED <<main_thread, flags, store, fault>>

\* The constructor's Init removes out_filename, not the temp files.
NewCodeTorrent(t) ==
    /\ pc[t] = "new"
    /\ out_file' = 0
    /\ ct' = t
    /\ Exit(t)
    /\ UNCHANGED <<main_thread, server_mode, decoding, identity,
                   work_mutex, counters, file, fault>>

CheckClient(t) ==
    /\ pc[t] = "CT_DATA"
    /\ IF server_mode THEN Exit(t) ELSE Call(t, "store")
    /\ UNCHANGED <<main_thread, flags, store, fault>>

\* buf.size(): a slot per block.
BufSize(in_buf) == Cardinality(UNION {{g} \X (1..in_buf[g]) : g \in Gens})

\* FlushBuf, given rank_vec_in_buf as StoreBlock has just set it.
\* (Mutant: the blocks are dropped from memory, but not pushed to the file.)
Flushed(o, in_buf, f) ==
    /\ rank_vec_in_buf' = [rank_vec_in_buf EXCEPT ![o] = in_buf]
    /\ file' = f

FlushBuf_NotPushed(o, in_buf) ==
    IF BufSize(in_buf) < buffer_size
    THEN Flushed(o, in_buf, file)
    ELSE \E g \in {h \in Gens : in_buf[h] > 0} : Flushed(o, [in_buf EXCEPT ![g] = 0], file)

FlushBuf(o, in_buf) ==
    IF BufSize(in_buf) < buffer_size
    THEN Flushed(o, in_buf, file)
    ELSE \E gen_to_evict \in {g \in Gens : in_buf[g] > 0} :
            Flushed(o, [in_buf EXCEPT ![gen_to_evict] = 0],
                    [file EXCEPT ![gen_to_evict] = @ + in_buf[gen_to_evict]])

\* (Mutant: a generation of full rank accepts more.)
Helpful_NoRankTest(o, p) == p.innovative
Helpful(o, p) == rank_vec[o][p.gen] # num_blocks_gen[p.gen] /\ p.innovative

\* StoreBlock's early return.  (Mutant: without unlocking.)
NotStored_Locked(o, t) == Locked(o, t) /\ UNCHANGED <<counters, file>>
NotStored(o, t) == UNCHANGED <<counters, file, work_mutex>>

StoreBlock(t) ==
    LET o == self[t]
        g == packet[t].gen
    IN  /\ pc[t] = "store"
        /\ MutexFree(o)
        /\ \/ ~Helpful(o, packet[t]) /\ NotStored(o, t)
           \/ /\ Helpful(o, packet[t])
              /\ rank_vec' = [rank_vec EXCEPT ![o][g] = @ + 1]
              /\ FlushBuf(o, [rank_vec_in_buf[o] EXCEPT ![g] = @ + 1])
              /\ gen_completed' =
                    IF rank_vec'[o][g] = num_blocks_gen[g]
                    THEN [gen_completed EXCEPT ![o] = @ + 1]
                    ELSE gen_completed
              /\ UNCHANGED work_mutex
        /\ Goto(t, "stored")
        /\ UNCHANGED <<main_thread, flags, identity, out_file, fault>>

CheckCompleted(t) ==
    /\ pc[t] = "stored"
    /\ IF DownloadCompleted(ct) THEN Goto(t, "completed") ELSE Exit(t)
    /\ UNCHANGED <<main_thread, flags, store, fault>>

SetDecoding(t) ==
    /\ pc[t] = "completed"
    /\ decoding' = TRUE
    /\ Call(t, "decode")
    /\ UNCHANGED <<main_thread, ct, server_mode, store, fault>>

\* identity = CT_SERVER, before the decoding starts.  (Mutant: not yet.)
BecomeServer_NotYet(o) == UNCHANGED identity
BecomeServer(o) == identity' = [identity EXCEPT ![o] = CT_SERVER]

\* Decode up to its loop: the first thread makes itself the decoder; the next
\* returns, and leaves work_mutex locked.
Decode(t) ==
    LET o == self[t]
    IN  /\ pc[t] = "decode"
        /\ MutexFree(o)
        /\ \/ /\ identity[o] # CT_CLIENT
              /\ Locked(o, t)
              /\ Goto(t, "decoded")
              /\ UNCHANGED identity
           \/ /\ identity[o] = CT_CLIENT
              /\ BecomeServer(o)
              /\ IF gen_completed[o] = num_gens
                 THEN Locked(o, t) /\ Goto(t, "write")
                 ELSE Goto(t, "decoded") /\ UNCHANGED work_mutex
        /\ UNCHANGED <<main_thread, flags, counters, file, out_file, fault>>

\* The loop over DecodeGen, which appends to out_filename, and the clean-up:
\* CleanTempFiles removes the temp files or, misled by its strlen of an unset
\* buffer, nothing.
WriteFiles(t) ==
    LET o == self[t]
    IN  /\ pc[t] = "write"
        /\ IF \E g \in Gens : FileMissing(o, g)
           THEN Fault("no temp file in Decode")
           ELSE /\ out_file' = out_file + 1
                /\ file' \in {file, [g \in Gens |-> 0]}
                /\ Locked(o, NULL)
                /\ Goto(t, "decoded")
                /\ UNCHANGED <<main_thread, flags, identity, counters, fault>>

SetServerMode(t) ==
    /\ pc[t] = "decoded"
    /\ server_mode' = TRUE
    /\ Goto(t, "serving")
    /\ UNCHANGED <<main_thread, ct, decoding, store, fault>>

ClearDecoding(t) ==
    /\ pc[t] = "serving"
    /\ decoding' = FALSE
    /\ Exit(t)
    /\ UNCHANGED <<main_thread, ct, server_mode, store, fault>>

-----------------------------------------------------------------------------
(* reEncode and send_codedBlock                                            *)

CheckMode(t) ==
    /\ pc[t] = "CT_REQUEST"
    /\ IF server_mode THEN Call(t, "encode") ELSE Call(t, "reencode")
    /\ UNCHANGED <<main_thread, flags, store, fault>>

ReEncode(t) ==
    LET o == self[t]
        g == packet[t].gen
    IN  /\ pc[t] = "reencode"
        /\ o # NULL /\ MutexFree(o)
        /\ ~FileMissing(o, g)
        /\ \/ rank_vec[o][g] > 0 /\ Exit(t) /\ UNCHANGED work_mutex
           \/ rank_vec[o][g] = 0 /\ Goto(t, "send NULL") /\ Locked(o, t)
        /\ UNCHANGED <<main_thread, flags, identity, counters, file, out_file, fault>>

ReEncodeFaults(t) ==
    /\ pc[t] = "reencode"
    /\ \/ self[t] = NULL /\ Fault("no ct")
       \/ /\ self[t] # NULL /\ MutexFree(self[t])
          /\ FileMissing(self[t], packet[t].gen)
          /\ Fault("no temp file in ReEncode")

\* send_codedBlock reads cb->gen.
SendNull(t) == pc[t] = "send NULL" /\ Fault("no coded block")

\* On this node filename exists only if the user put it there; when it does not,
\* EncodeBlock reads beyond an empty data (see FileIO).
Encode(t) ==
    /\ pc[t] = "encode"
    /\ MutexFree(self[t])
    /\ \/ Exit(t) /\ UNCHANGED <<main_thread, flags, store, fault>>
       \/ Fault("no data in Encode")

-----------------------------------------------------------------------------
Init ==
    /\ main_thread = "accept"
    /\ pc = [t \in Threads |-> "exited"]
    /\ packet = [t \in Threads |-> NoPacket]
    /\ self = [t \in Threads |-> NULL]
    /\ ct = NULL /\ server_mode = FALSE /\ decoding = FALSE
    /\ identity = [o \in FileInfoThreads |-> CT_CLIENT]
    /\ work_mutex = [o \in FileInfoThreads |-> NULL]
    /\ rank_vec = [o \in FileInfoThreads |-> [g \in Gens |-> 0]]
    /\ rank_vec_in_buf = [o \in FileInfoThreads |-> [g \in Gens |-> 0]]
    /\ gen_completed = [o \in FileInfoThreads |-> 0]
    /\ file = [g \in Gens |-> 0] /\ out_file = 0
    /\ fault = "none"

Step(t) ==
    \/ Start(t)
    \/ CheckNoFile(t) \/ NewCodeTorrent(t)
    \/ CheckClient(t) \/ StoreBlock(t) \/ CheckCompleted(t) \/ SetDecoding(t)
    \/ Decode(t) \/ WriteFiles(t) \/ SetServerMode(t) \/ ClearDecoding(t)
    \/ CheckMode(t) \/ ReEncode(t) \/ ReEncodeFaults(t) \/ SendNull(t) \/ Encode(t)

Run(t) == fault = "none" /\ Step(t)

Next ==
    \/ /\ fault = "none"
       /\ \/ \E t \in Threads : \E p \in Packets : Accept(t, p)
          \/ PeerBreaksOff
    \/ \E t \in Threads : Run(t)

\* Threads are scheduled and locks handed over (a thread waiting for work_mutex
\* is enabled for good once no method returns without unlocking).  What the
\* swarm owes this node: the file info, and innovative blocks of each generation,
\* again and again as long as it takes packets.
Arrives(p) == fault = "none" /\ \E t \in Threads : Accept(t, p)

Fairness ==
    /\ \A t \in Threads : WF_vars(Run(t))
    /\ SF_vars(Arrives([type |-> "CT_FILEINFO"]))
    /\ \A g \in Gens : SF_vars(Arrives([type |-> "CT_DATA", gen |-> g, innovative |-> TRUE]))

Spec == Init /\ [][Next]_vars /\ Fairness

-----------------------------------------------------------------------------
Labels ==
    {"exited", "start", "CT_FILEINFO", "CT_DATA", "CT_REQUEST", "new", "store", "stored",
     "completed", "decode", "write", "decoded", "serving", "reencode", "send NULL", "encode"}

\* The variables range over what the comments say.
TypeOK ==
    /\ main_thread \in {"accept", "recv"}
    /\ pc \in [Threads -> Labels]
    /\ packet \in [Threads -> Packets \cup {NoPacket}]
    /\ self \in [Threads -> FileInfoThreads \cup {NULL}]
    /\ ct \in FileInfoThreads \cup {NULL}
    /\ server_mode \in BOOLEAN /\ decoding \in BOOLEAN
    /\ identity \in [FileInfoThreads -> {CT_SERVER, CT_CLIENT}]
    /\ work_mutex \in [FileInfoThreads -> Threads \cup {NULL}]
    /\ rank_vec \in [FileInfoThreads -> [Gens -> 0..per_gen]]
    /\ rank_vec_in_buf \in [FileInfoThreads -> [Gens -> 0..per_gen]]
    /\ gen_completed \in [FileInfoThreads -> 0..num_gens]
    /\ file \in [Gens -> Nat] /\ out_file \in Nat

\* However many threads find the download completed at the same time, one of
\* them decodes: a second pass would append the file to itself (main.cpp:341-348,
\* codetorrent.cpp:526, 726-729).
DecodedOnce == out_file <= 1

\* Whoever sets server_mode, the decoder or a thread that came second, the file
\* is written by then (main.cpp:348-351).
ServerModeHasFile == server_mode => out_file = 1

\* incoming_packet drops packets (decoding) only when no block is missing, so no
\* block that is needed is lost (main.cpp:294, 341-342).
DropsOnlyWhenComplete == decoding => gen_completed[ct] = num_gens

\* While a block or the file is still to be stored or written, no thread waits for
\* work_mutex for good: it is held by the decoder, or by a thread about to end the
\* process.  Two methods return without unlocking, ReEncode for want of a block and a
\* second Decode, and the second can do so only after the file is written
\* (codetorrent.cpp:668-669, 726-727; main.cpp:574).
MutexKeptOnlyAfterDecode ==
    \A o \in FileInfoThreads :
        work_mutex[o] # NULL => pc[work_mutex[o]] \in {"write", "send NULL"} \/ out_file > 0

\* A temp file is missed only by a ReEncode that got work_mutex after Decode,
\* never by Decode itself or while the node downloads (codetorrent.cpp:658-660,
\* 757, 782-784; main.cpp:259-260).
TempFilesUntilDecoded ==
    fault \in {"no temp file in Decode", "no temp file in ReEncode"} => out_file = 1

\* StoreBlock calls that wait while Decode runs store nothing afterwards:
\* neither counters nor temp files change (main.cpp:330-339).
NothingStoredAfterDecode ==
    [][ \A o \in FileInfoThreads :
            identity[o] = CT_SERVER =>
                /\ rank_vec'[o] = rank_vec[o] /\ rank_vec_in_buf'[o] = rank_vec_in_buf[o]
                /\ \A g \in Gens : file'[g] <= file[g] ]_vars

\* A node that is sent enough becomes a server, unless the process ends or the
\* main thread is caught in recv.
BecomesServer == <>(server_mode \/ fault # "none" \/ main_thread = "recv")

\* "NOTE: we are dealing with only one file: just init once." (main.cpp:315)
JustInitOnce == [][ct # NULL => ct' = ct]_vars
=============================================================================

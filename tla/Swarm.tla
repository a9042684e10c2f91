------------------------------- MODULE Swarm -------------------------------
(***************************************************************************)
(* What nodes say to each other (codetorrent/main.cpp): broadcast gossip,  *)
(* tables of neighbours, requests and answers.  Gossip is UDP and may be   *)
(* lost or late; a packet goes over a TCP connection of its own, and what  *)
(* can fail is connecting.  A node is its address.                         *)
(*                                                                         *)
(* A client's threads are of two kinds: those that call update_neighbors   *)
(* (receive_gossip, incoming_packet) and those that run send_request.  No  *)
(* lock protects ct_neighbors.  A step is one pass over it, or one access. *)
(* Storing and decoding, whose interleavings are module Node's, are one    *)
(* step here; the file-info race is Node's too.                            *)
(***************************************************************************)
EXTENDS Layout, Integers, Sequences, FiniteSets

CONSTANTS
    Seeds, Clients,                  \* processes started with "0 file ..." and "1 ..."
    num_blocks, per_gen,             \* the file
    UpdateThreads, RequestThreads,   \* a client's threads of each kind at a time
    MaxPackets,                      \* packets on their way at a time, but for Unset requests
    ConnectsFail,                    \* whether connect may fail although the peer runs
    ThreadsRunOut                    \* whether pthread_create may fail

ASSUME SwarmLayoutAssumption == num_blocks \in Nat /\ per_gen \in 1..num_blocks
ASSUME SwarmNodesAssumption == Seeds \cap Clients = {}
ASSUME SwarmThreadsAssumption == UpdateThreads \cap RequestThreads = {}

VARIABLES
    pc, job,            \* per client and thread: where it is, and what it works on
    ct,                 \* whether a node has its CodeTorrent object
    server_mode,        \* and is or has become a server
    rank_vec,           \* of a client's object; what a server's GetRankVec returns is fixed
    ct_neighbors,       \* a client's neighbours (a seed never reads its own)
    helpful_neighbors,  \* whether the client's last count of the helpful ones was above 0
    exhausted,          \* whether a client can create no more threads
    packets,            \* sent and not yet accepted
    fault               \* per node: what ended its process, "none" while it runs

threads == <<pc, job>>
table == <<ct_neighbors, helpful_neighbors>>
store == <<ct, server_mode, rank_vec>>
vars == <<threads, store, table, exhausted, packets, fault>>

Nodes == Seeds \cup Clients
Threads == UpdateThreads \cup RequestThreads
num_gens == NumGens(num_blocks, per_gen)
Gens == 0..num_gens - 1
num_blocks_gen == NumBlocksGen(num_blocks, per_gen)

FileInfo == -1          \* the gen of a request for the file info
Unset == -2             \* what an uninitialised int holds: no generation

Neighbors == [address : Nodes, gen_vector : SUBSET Gens, helpful : BOOLEAN, recent : BOOLEAN]

Packets ==
    [type : {"CT_FILEINFO", "CT_DATA"}, from : Nodes, to : Nodes, gen : Gens]
    \cup [type : {"CT_REQUEST"}, from : Nodes, to : Nodes, gen : Gens \cup {FileInfo, Unset}]

NoJob == [type |-> "none", node |-> "none", gen |-> Unset]
Jobs ==
    [type : {"CT_GOSSIP", "CT_FILEINFO", "CT_DATA"}, node : Nodes, gen : Gens]
    \cup [type : {"CT_REQUEST"}, node : Nodes \cup {"none"}, gen : Gens \cup {Unset}]
    \cup {NoJob}

Runs(n) == fault[n] = "none"

\* GetRankVec of a node that has ct.
RankVec(n) == IF n \in Seeds \/ server_mode[n] THEN num_blocks_gen ELSE rank_vec[n]

-----------------------------------------------------------------------------
At(c, t, label) == pc' = [pc EXCEPT ![c][t] = label]
Goto(c, t, label) == At(c, t, label) /\ UNCHANGED job
Exit(c, t) == At(c, t, "exited") /\ job' = [job EXCEPT ![c][t] = NoJob]
Begin(c, t, label, j) ==
    /\ pc[c][t] = "exited"
    /\ At(c, t, label)
    /\ job' = [job EXCEPT ![c][t] = j]

Reset(f, n, value) == [x \in DOMAIN f |-> IF x = n THEN value ELSE f[x]]

\* A fault ends the process, and with it all its memory.
Fault(n, cause) ==
    /\ fault' = [fault EXCEPT ![n] = cause]
    /\ pc' = Reset(pc, n, [t \in Threads |-> "exited"])
    /\ job' = Reset(job, n, [t \in Threads |-> NoJob])
    /\ ct' = Reset(ct, n, FALSE) /\ server_mode' = Reset(server_mode, n, FALSE)
    /\ rank_vec' = Reset(rank_vec, n, [g \in Gens |-> 0])
    /\ ct_neighbors' = Reset(ct_neighbors, n, <<>>)
    /\ helpful_neighbors' = Reset(helpful_neighbors, n, FALSE)
    /\ exhausted' = Reset(exhausted, n, FALSE)

Send(p) ==
    /\ Cardinality({q \in packets : q.gen # Unset}) < MaxPackets
    /\ packets' = packets \cup {p}

Connects(n) == Runs(n)
ConnectFails(n) == ConnectsFail \/ ~Runs(n)

-----------------------------------------------------------------------------
(* Gossip                                                                  *)

nodeId(n) == IF n \in Seeds THEN 0 ELSE 1

\* What send_gossip broadcasts, turn by turn: the generations of which the node
\* has a block (while it has none, the loop that looks for one does not end).
\* Any of these messages may be lost or late, so any may be heard at any time.
Gossips(n, g) == Runs(n) /\ ct[n] /\ RankVec(n)[g] > 0

\* "Gossip from myself"
DropsGossip(c, n) == nodeId(n) = nodeId(c)

\* listen_gossip and periodic_request create a joinable thread each time and join
\* none, so that threads run out.  Either then returns, for good.
RunOutOfThreads(c) ==
    /\ ThreadsRunOut /\ ~exhausted[c]
    /\ exhausted' = [exhausted EXCEPT ![c] = TRUE]
    /\ UNCHANGED <<threads, store, table, packets, fault>>

ListenGossip(c, t, n, g) ==
    /\ ~exhausted[c]
    /\ Gossips(n, g) /\ ~DropsGossip(c, n)
    /\ Begin(c, t, "receive_gossip", [type |-> "CT_GOSSIP", node |-> n, gen |-> g])
    /\ UNCHANGED <<store, table, exhausted, packets, fault>>

\* It sends although connect failed, and SIGPIPE ends the process.
SendFileInfoRequest(c, t, n) ==
    \/ /\ Connects(n)
       /\ Send([type |-> "CT_REQUEST", from |-> c, to |-> n, gen |-> FileInfo])
       /\ Exit(c, t)
       /\ UNCHANGED <<store, table, exhausted, fault>>
    \/ /\ ConnectFails(n)
       /\ Fault(c, "SIGPIPE")
       /\ UNCHANGED packets

ReceiveGossip(c, t) ==
    /\ pc[c][t] = "receive_gossip"
    /\ \/ /\ ct[c]
          /\ Goto(c, t, "update_neighbors")
          /\ UNCHANGED <<store, table, exhausted, packets, fault>>
       \/ ~ct[c] /\ SendFileInfoRequest(c, t, job[c][t].node)

-----------------------------------------------------------------------------
(* update_neighbors                                                        *)

Entries(c, n) == {i \in DOMAIN ct_neighbors[c] : ct_neighbors[c][i].address = n}
First(S) == CHOOSE i \in S : \A j \in S : i <= j

\* incoming_packet goes on to store_block.
Continue(c, t) == IF job[c][t].type = "CT_DATA" THEN Goto(c, t, "store_block") ELSE Exit(c, t)

\* What a sender's entry becomes.  (Mutant: once timed out, it stays so.)
Heard_NotHelpful(e, g) == [e EXCEPT !.gen_vector = @ \cup {g}]
Heard(e, g) == [e EXCEPT !.gen_vector = @ \cup {g}, !.helpful = TRUE]

\* The loop, up to the first entry of that address.
UpdateNeighbors(c, t) ==
    LET j == job[c][t]
        known == Entries(c, j.node)
    IN  /\ pc[c][t] = "update_neighbors"
        /\ IF known = {}
           THEN Goto(c, t, "push_back") /\ UNCHANGED ct_neighbors
           ELSE /\ ct_neighbors' =
                     [ct_neighbors EXCEPT ![c][First(known)] = Heard(@, j.gen)]
                /\ Goto(c, t, "timestamp")
        /\ UNCHANGED <<store, helpful_neighbors, exhausted, packets, fault>>

\* Only then is its time set.
Timestamp(c, t) ==
    /\ pc[c][t] = "timestamp"
    /\ ct_neighbors' =
         [ct_neighbors EXCEPT ![c][First(Entries(c, job[c][t].node))].recent = TRUE]
    /\ Continue(c, t)
    /\ UNCHANGED <<store, helpful_neighbors, exhausted, packets, fault>>

\* push_back, which may move the entries another thread is iterating over.
NewNeighbor(j) ==
    [address |-> j.node, gen_vector |-> {j.gen}, helpful |-> TRUE, recent |-> TRUE]

Iterating == {"update_neighbors", "timestamp", "push_back", "time out", "choose gen", "choose address"}

PushBack(c, t) ==
    /\ pc[c][t] = "push_back"
    /\ \/ /\ ct_neighbors' = [ct_neighbors EXCEPT ![c] = Append(@, NewNeighbor(job[c][t]))]
          /\ Continue(c, t)
          /\ UNCHANGED <<store, helpful_neighbors, exhausted, fault>>
       \/ /\ \E u \in Threads \ {t} : pc[c][u] \in Iterating
          /\ Fault(c, "freed neighbours")
    /\ UNCHANGED packets

\* Five seconds pass without a word of neighbour i.  They are many turns of
\* periodic_request, so one of its threads is free meanwhile.
Silence(c, i) ==
    /\ \E t \in RequestThreads : pc[c][t] = "exited"
    /\ i \in DOMAIN ct_neighbors[c]
    /\ ct_neighbors' = [ct_neighbors EXCEPT ![c][i].recent = FALSE]
    /\ UNCHANGED <<threads, store, helpful_neighbors, exhausted, packets, fault>>

-----------------------------------------------------------------------------
(* Requests                                                                *)

\* One turn of periodic_request.
PeriodicRequest(c, t) ==
    /\ ~exhausted[c] /\ ct[c] /\ ~server_mode[c]
    /\ Begin(c, t, "time out", [type |-> "CT_REQUEST", node |-> "none", gen |-> Unset])
    /\ UNCHANGED <<store, table, exhausted, packets, fault>>

\* send_request's first loop.
TimeOut(c, t) ==
    LET timed == [i \in DOMAIN ct_neighbors[c] |->
                    [ct_neighbors[c][i] EXCEPT !.helpful = @ /\ ct_neighbors[c][i].recent]]
        counted == {i \in DOMAIN ct_neighbors[c] : ct_neighbors[c][i].recent}
    IN  /\ pc[c][t] = "time out"
        /\ ct_neighbors' = [ct_neighbors EXCEPT ![c] = timed]
        /\ helpful_neighbors' = [helpful_neighbors EXCEPT ![c] = (counted # {})]
        /\ Goto(c, t, "choose gen")
        /\ UNCHANGED <<store, exhausted, packets, fault>>

HelpfulEntries(c) ==
    {ct_neighbors[c][i] : i \in {j \in DOMAIN ct_neighbors[c] : ct_neighbors[c][j].helpful}}
Announced(c) == UNION {e.gen_vector : e \in HelpfulEntries(c)}
Full(c, g) == RankVec(c)[g] = num_blocks_gen[g]

\* has: a full last generation is left out, since its rank may be less than the
\* others'.  (Mutant: it is not.)
Has_WithLast(c) == Announced(c)
Has(c) == {g \in Announced(c) : g = num_gens - 1 => ~Full(c, g)}

\* request_gen: of the least rank, the last.
RequestGen(c) ==
    CHOOSE g \in Has(c) : \A h \in Has(c) \ {g} :
        RankVec(c)[g] < RankVec(c)[h] \/ (RankVec(c)[g] = RankVec(c)[h] /\ g > h)

\* When has is all false, request_gen is not assigned: it may pass for a
\* generation, or be used as an index out of range.
Chosen(c, t, g) ==
    \/ g # Unset /\ Full(c, g) /\ Exit(c, t)
    \/ g # Unset /\ ~Full(c, g)
       /\ At(c, t, "choose address") /\ job' = [job EXCEPT ![c][t].gen = g]
    \/ g = Unset /\ (Exit(c, t) \/ Goto(c, t, "choose address"))

ChooseGen(c, t) ==
    /\ pc[c][t] = "choose gen"
    /\ \/ /\ \/ ~helpful_neighbors[c] /\ Exit(c, t)
             \/ /\ helpful_neighbors[c] /\ Has(c) # {}
                /\ Chosen(c, t, RequestGen(c))
             \/ /\ helpful_neighbors[c] /\ Has(c) = {}
                /\ \E g \in Gens \cup {Unset} : Chosen(c, t, g)
          /\ UNCHANGED <<store, table, exhausted, fault>>
       \/ /\ helpful_neighbors[c] /\ Has(c) = {}
          /\ Fault(c, "unset request_gen")
    /\ UNCHANGED packets

\* addresses.  (Mutant: the generation is not looked up.)
Addresses_Any(c, g) == {e.address : e \in HelpfulEntries(c)}
Addresses(c, g) == {e.address : e \in {f \in HelpfulEntries(c) : g = Unset \/ g \in f.gen_vector}}

ChooseAddress(c, t) ==
    /\ pc[c][t] = "choose address"
    /\ \/ /\ Addresses(c, job[c][t].gen) = {} \/ job[c][t].gen = Unset
          /\ Exit(c, t)
       \/ \E n \in Addresses(c, job[c][t].gen) :
            At(c, t, "connect") /\ job' = [job EXCEPT ![c][t].node = n]
    /\ UNCHANGED <<store, table, exhausted, packets, fault>>

\* Unlike the other senders, send_request sends nothing when connect failed.
Connect(c, t) ==
    LET j == job[c][t]
    IN  /\ pc[c][t] = "connect"
        /\ \/ /\ Connects(j.node)
              /\ Send([type |-> "CT_REQUEST", from |-> c, to |-> j.node, gen |-> j.gen])
           \/ ConnectFails(j.node) /\ UNCHANGED packets
        /\ Exit(c, t)
        /\ UNCHANGED <<store, table, exhausted, fault>>

-----------------------------------------------------------------------------
(* incoming_packet                                                         *)

\* pack announces one of the generations of which there is a block.
FileInfos(n, p) ==
    {[type |-> "CT_FILEINFO", from |-> n, to |-> p.from, gen |-> g] :
        g \in {h \in Gens : p.gen = FileInfo /\ server_mode[n] /\ RankVec(n)[h] > 0}}

CodedBlocks(n, p) ==
    {[type |-> "CT_DATA", from |-> n, to |-> p.from, gen |-> g] : g \in {p.gen} \cap Gens}

Answers(n, p) == FileInfos(n, p) \cup CodedBlocks(n, p)

\* A request, answered by send_fileInfo or send_codedBlock; both send although
\* connect failed.  What an unset generation does is left to the memory beyond
\* the seed's arrays; a negative one asks for the file info.
Serve(n, p) ==
    /\ p \in packets /\ p.to = n /\ p.type = "CT_REQUEST"
    /\ \/ /\ \/ \E q \in Answers(n, p) : Connects(p.from) /\ packets' = (packets \ {p}) \cup {q}
             \/ Answers(n, p) = {} /\ packets' = packets \ {p}
          /\ UNCHANGED <<threads, store, table, exhausted, fault>>
       \/ /\ p.gen = Unset \/ (Answers(n, p) # {} /\ ConnectFails(p.from))
          /\ packets' = packets \ {p}
          /\ Fault(n, IF p.gen = Unset THEN "unset request_gen" ELSE "SIGPIPE")

\* A thread for the file info or a block.  When it cannot be created, main
\* returns, which ends the process.
Accept(c, t, p) ==
    /\ p \in packets /\ p.to = c /\ p.type # "CT_REQUEST"
    /\ packets' = packets \ {p}
    /\ \/ /\ ~exhausted[c]
          /\ Begin(c, t, p.type, [type |-> p.type, node |-> p.from, gen |-> p.gen])
          /\ UNCHANGED <<store, table, exhausted, fault>>
       \/ exhausted[c] /\ Fault(c, "main returned")

IncomingFileInfo(c, t) ==
    /\ pc[c][t] = "CT_FILEINFO"
    /\ IF ~server_mode[c] /\ ~ct[c]
       THEN ct' = [ct EXCEPT ![c] = TRUE] /\ Goto(c, t, "update_neighbors")
       ELSE Exit(c, t) /\ UNCHANGED ct
    /\ UNCHANGED <<server_mode, rank_vec, table, exhausted, packets, fault>>

IncomingData(c, t) ==
    /\ pc[c][t] = "CT_DATA"
    /\ IF server_mode[c] THEN Exit(c, t) ELSE Goto(c, t, "update_neighbors")
    /\ UNCHANGED <<store, table, exhausted, packets, fault>>

DownloadCompleted(ranks) == \A g \in Gens : ranks[g] = num_blocks_gen[g]

\* (Mutant: a generation of full rank accepts more.)
Helpful_NoRankTest(c, g, innovative) == innovative
Helpful(c, g, innovative) == innovative /\ rank_vec[c][g] # num_blocks_gen[g]

\* StoreBlock; and Decode and server_mode = true after the last block.
StoreBlock(c, t, innovative) ==
    LET g == job[c][t].gen
        ranks == [rank_vec[c] EXCEPT ![g] = @ + 1]
    IN  /\ pc[c][t] = "store_block"
        /\ IF Helpful(c, g, innovative)
           THEN /\ rank_vec' = [rank_vec EXCEPT ![c] = ranks]
                /\ server_mode' = [server_mode EXCEPT ![c] = @ \/ DownloadCompleted(ranks)]
           ELSE UNCHANGED <<rank_vec, server_mode>>
        /\ Exit(c, t)
        /\ UNCHANGED <<ct, table, exhausted, packets, fault>>

-----------------------------------------------------------------------------
\* main: a seed has ct before its threads start.
Init ==
    /\ pc = [c \in Clients |-> [t \in Threads |-> "exited"]]
    /\ job = [c \in Clients |-> [t \in Threads |-> NoJob]]
    /\ ct = [n \in Nodes |-> n \in Seeds]
    /\ server_mode = [n \in Nodes |-> n \in Seeds]
    /\ rank_vec = [c \in Clients |-> [g \in Gens |-> 0]]
    /\ ct_neighbors = [c \in Clients |-> <<>>]
    /\ helpful_neighbors = [c \in Clients |-> FALSE]
    /\ exhausted = [c \in Clients |-> FALSE]
    /\ packets = {}
    /\ fault = [n \in Nodes |-> "none"]

Step(c, t) ==
    \/ ReceiveGossip(c, t)
    \/ UpdateNeighbors(c, t) \/ Timestamp(c, t) \/ PushBack(c, t)
    \/ TimeOut(c, t) \/ ChooseGen(c, t) \/ ChooseAddress(c, t) \/ Connect(c, t)
    \/ IncomingFileInfo(c, t) \/ IncomingData(c, t)
    \/ \E innovative \in BOOLEAN : StoreBlock(c, t, innovative)

Run(c, t) == Runs(c) /\ Step(c, t)

Hear(c, n, g) == Runs(c) /\ \E t \in UpdateThreads : ListenGossip(c, t, n, g)
StartRequest(c) == Runs(c) /\ \E t \in RequestThreads : PeriodicRequest(c, t)
Handle(n, p) ==
    /\ Runs(n)
    /\ Serve(n, p) \/ (n \in Clients /\ \E t \in UpdateThreads : Accept(n, t, p))

Next ==
    \/ \E c \in Clients :
        \/ \E n \in Nodes, g \in Gens : Hear(c, n, g)
        \/ StartRequest(c)
        \/ Runs(c) /\ RunOutOfThreads(c)
        \/ \E t \in Threads : Run(c, t)
        \/ Runs(c) /\ \E i \in DOMAIN ct_neighbors[c] : Silence(c, i)
    \/ \E n \in Nodes : \E p \in packets : Handle(n, p)


InReach(c) == \E i \in DOMAIN ct_neighbors[c] : ct_neighbors[c][i].recent /\ ct_neighbors[c][i].helpful

\* Threads are scheduled; packets on their way arrive.  Of what is repeated for
\* ever, gossip and requests, one is heard or gets through in the end: no scan comes
\* between the two halves of update_neighbors, a turn of periodic_request comes while
\* a neighbour is in reach, draws it, connects, and is answered with an innovative
\* block.
Fairness ==
    \A c \in Clients :
        /\ \A t \in Threads : WF_vars(Run(c, t))
        /\ \A n \in Seeds, g \in Gens : SF_vars(Hear(c, n, g))
        /\ SF_vars(StartRequest(c) /\ InReach(c))
        /\ \A t \in RequestThreads :
              /\ SF_vars(Runs(c) /\ TimeOut(c, t) /\ InReach(c))
              /\ \A n \in Seeds : SF_vars(Runs(c) /\ ChooseAddress(c, t) /\ job'[c][t].node = n)
              /\ SF_vars(Runs(c) /\ Connect(c, t) /\ job[c][t].gen # Unset /\ packets' # packets)
        /\ \A n \in Nodes : SF_vars(\E p \in packets : Handle(n, p))
        /\ \A t \in UpdateThreads :
              /\ SF_vars(Runs(c) /\ Timestamp(c, t) /\ InReach(c)')
              /\ SF_vars(Runs(c) /\ StoreBlock(c, t, TRUE) /\ rank_vec' # rank_vec)

Spec == Init /\ [][Next]_vars /\ Fairness

-----------------------------------------------------------------------------
\* The variables range over what the comments say.
TypeOK ==
    /\ pc \in [Clients -> [Threads ->
                {"exited", "receive_gossip", "CT_FILEINFO", "CT_DATA", "store_block", "connect"}
                \cup Iterating]]
    /\ job \in [Clients -> [Threads -> Jobs]]
    /\ ct \in [Nodes -> BOOLEAN] /\ server_mode \in [Nodes -> BOOLEAN]
    /\ \A c \in Clients : \A g \in Gens : rank_vec[c][g] \in 0..num_blocks_gen[g]
    /\ ct_neighbors \in [Clients -> Seq(Neighbors)]
    /\ helpful_neighbors \in [Clients -> BOOLEAN] /\ exhausted \in [Clients -> BOOLEAN]
    /\ packets \subseteq Packets
    /\ DOMAIN fault = Nodes

\* Whatever happens to the table while send_request works on it, a block is asked
\* for, and sent, only if the seed asked told this client that it has some of that
\* generation (main.cpp:810, 830, 1121, 1190, 485).
RequestsWereAnnounced ==
    \A p \in packets :
        LET c == IF p.type = "CT_REQUEST" THEN p.from ELSE p.to
            n == IF p.type = "CT_REQUEST" THEN p.to ELSE p.from
        IN  Runs(c) /\ p.gen \in Gens /\ p.type # "CT_FILEINFO" =>
                \E i \in Entries(c, n) : p.gen \in ct_neighbors[c][i].gen_vector

\* The generations worth asking for.
Wanted(c) == {g \in Announced(c) : ~Full(c, g)}

\* While a helpful neighbour has announced a generation that is not complete here,
\* send_request does not give up, nor does it use request_gen unset: it asks for
\* one of those with the fewest blocks here, whatever the sizes of the generations
\* (main.cpp:1031, 1067-1092).
ChoosesLeastRank ==
    [][ \A c \in Clients : \A t \in RequestThreads :
            pc[c][t] = "choose gen" /\ pc'[c][t] # "choose gen" /\ Runs(c)
                /\ helpful_neighbors[c] /\ Wanted(c) # {} =>
            \/ fault'[c] \notin {"none", "unset request_gen"}
            \/ /\ pc'[c][t] = "choose address" /\ job'[c][t].gen \in Wanted(c)
               /\ \A g \in Wanted(c) : RankVec(c)[job'[c][t].gen] <= RankVec(c)[g] ]_vars

\* A client in reach of a seed gets the file, however often gossip, connections and
\* neighbours are lost, unless a process ends or the client's threads run out.
Completes ==
    \A c \in Clients :
        <>(server_mode[c] \/ ~Runs(c) \/ exhausted[c] \/ \A s \in Seeds : ~Runs(s))

\* Clients drop gossip as "Gossip from myself" (main.cpp:755-757): it is.
DroppedGossipIsOwn ==
    \A c \in Clients : \A n \in Nodes : \A g \in Gens : Gossips(n, g) /\ DropsGossip(c, n) => n = c
=============================================================================

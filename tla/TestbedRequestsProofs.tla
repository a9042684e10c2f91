----------------------- MODULE TestbedRequestsProofs -----------------------
(***************************************************************************)
(* The testbed client's chain of requests, for any number of peers and     *)
(* threads, any size of the generation and any limit of release[]: the     *)
(* types, that no block comes before the client's CodeTorrent object, and  *)
(* that whoever changes a neighbour's entry finds one.                     *)
(*                                                                         *)
(* The invariant follows a thread through update_neighbors, send_request   *)
(* and store_block.  The one bound is on unhelpful_counter: each thread    *)
(* that raised it is still on its way to reset it to 0.                    *)
(***************************************************************************)
EXTENDS TestbedRequests, FiniteSetTheorems, SequenceTheorems,
        NaturalsInduction, TLAPS

-----------------------------------------------------------------------------
Labels ==
    {"exited", "receive_gossip", "update_neighbors", "helpful", "push_back", "send_request",
     "connect", "sent", "store_block", "unhelpful_counter", "received"} \cup Answers

Requesting == {"send_request", "connect", "sent"}
Storing == {"store_block", "unhelpful_counter", "received"}

\* Where only a client with its CodeTorrent object gets.
WithObject == {"update_neighbors", "push_back", "helpful", "CT_DATA"} \cup Requesting \cup Storing

\* What thread t works on where it is.
Fits(t, label, j) ==
    /\ label # "exited" => j.type # "none"
    /\ j.type \in Answers => t \in PacketThreads
    /\ label \in {"CT_DATA"} \cup Storing => j.type = "CT_DATA"
    /\ label \in Requesting => j.then # "none"
    /\ label \in Requesting /\ j.then = "received" => j.type = "CT_DATA"

\* The threads that update or have updated their peer's entry.
PastLookup == {"helpful"} \cup Requesting \cup Storing

Placed(t) ==
    /\ Fits(t, pc[t], job[t])
    /\ pc[t] \in WithObject => ct
    /\ pc[t] \in PastLookup => Entries(job[t].peer) # {}

\* The threads that stored a block and have not looked at unhelpful_counter since.
Reporting == {t \in PacketThreads : pc[t] = "unhelpful_counter"}

\* A client asks for blocks, and so receives and stores them, only when it has its
\* CodeTorrent object: listen_data throws no block away for want of one
\* (main.cpp:493-514, 1203-1216, 1314).
NoBlockBeforeObject ==
    \/ \E q \in packets : q.type \in {"data request", "CT_DATA"}
    \/ \E t \in Threads : pc[t] = "CT_DATA"
    \/ rank_vec # 0
    => ct

\* A thread that marks its peer helpful, or a request to it as sent or answered,
\* finds the peer in ct_neighbors, although it looked it up before it connected or
\* slept (main.cpp:1271-1272, 1385-1391, 541-547).
PeerKnown == \A t \in Threads : pc[t] \in {"helpful", "sent", "received"} => Entries(job[t].peer) # {}

IInv ==
    /\ TypeOK
    /\ \A t \in Threads : Placed(t)
    /\ unhelpful_counter <= Cardinality(Reporting)
    /\ \A q \in packets : q.type \in {"data request", "CT_DATA"} => ct
    /\ rank_vec # 0 => ct

-----------------------------------------------------------------------------
(* The operators of the model                                              *)

LEMMA Constants ==
    /\ num_blocks_gen \in Nat \ {0} /\ MaxRelease \in Nat
    /\ GossipThreads \cap PacketThreads = {} /\ Threads = GossipThreads \cup PacketThreads
    /\ IsFiniteSet(PacketThreads)
  BY SizesAssumption, ThreadsAssumption DEF Threads

LEMMA JobIs ==
    /\ NoJob \in Jobs /\ NoJob.type = "none"
    /\ \A j \in Jobs :
          j.type # "none" =>
              /\ j.type \in Answers \cup {"CT_GOSSIP"} /\ j.peer \in Peers
              /\ j.then \in {"none", "helpful", "return", "received"}
    /\ \A type \in Answers \cup {"CT_GOSSIP"}, peer \in Peers :
          LET j == [type |-> type, peer |-> peer, then |-> "none"]
          IN  j \in Jobs /\ j.type = type /\ j.peer = peer
  BY DEF Jobs, NoJob, Answers

LEMMA JobThen ==
    ASSUME NEW j \in Jobs, j.type # "none",
           NEW then \in {"none", "helpful", "return", "received"},
           NEW k, k = [j EXCEPT !.then = then]
    PROVE  k \in Jobs /\ k.type = j.type /\ k.peer = j.peer /\ k.then = then
  BY DEF Jobs, NoJob

LEMMA PacketIs ==
    \A type \in Requests \cup Answers, peer \in Peers :
        /\ Packet(type, peer) \in Packets
        /\ Packet(type, peer).type = type /\ Packet(type, peer).peer = peer
  BY DEF Packet, Packets

\* What the passes over the table do to its entries.
LEMMA EntryIs ==
    /\ \A e \in Neighbors : Released(e) \in Neighbors /\ Released(e).address = e.address
    /\ \A e \in Neighbors : TimedOut(e) \in Neighbors /\ TimedOut(e).address = e.address
    /\ \A p \in Peers, s \in Timestamps :
          NewNeighbor(p, s) \in Neighbors /\ NewNeighbor(p, s).address = p
<1>1. ASSUME NEW e \in Neighbors, NEW r \in 0..MaxRelease
      PROVE  LET f == [e EXCEPT !.release = r] IN f \in Neighbors /\ f.address = e.address
  BY DEF Neighbors
<1>2. ASSUME NEW e \in Neighbors, NEW h \in BOOLEAN
      PROVE  LET f == [e EXCEPT !.helpful = h] IN f \in Neighbors /\ f.address = e.address
  BY DEF Neighbors
<1>3. 0 \in 0..MaxRelease /\ MaxRelease \in Nat
  BY Constants
<1>4. ASSUME NEW e \in Neighbors
      PROVE  Released(e) \in Neighbors /\ Released(e).address = e.address
  <2>1. CASE e.release = MaxRelease
    <3> DEFINE f == [e EXCEPT !.release = 0]
    <3>1. f \in Neighbors /\ f.address = e.address
      BY <1>1, <1>3
    <3>2. Released(e) = [f EXCEPT !.helpful = FALSE]
      BY <2>1, Zenon DEF Released
    <3> HIDE DEF f
    <3>3. [f EXCEPT !.helpful = FALSE] \in Neighbors
          /\ [f EXCEPT !.helpful = FALSE].address = f.address
      BY <1>2, <3>1, Zenon
    <3> QED BY <3>1, <3>2, <3>3, Zenon
  <2>2. CASE e.release # MaxRelease
    <3>1. e.release + 1 \in 0..MaxRelease
      BY <1>3, <2>2 DEF Neighbors
    <3>2. Released(e) = [e EXCEPT !.release = e.release + 1]
      BY <2>2, Zenon DEF Released
    <3> QED BY <1>1, <3>1, <3>2, Zenon
  <2> QED BY <2>1, <2>2
<1>5. ASSUME NEW e \in Neighbors
      PROVE  TimedOut(e) \in Neighbors /\ TimedOut(e).address = e.address
  <2> DEFINE h == e.helpful /\ e.re_timestamp # "overdue"
  <2>1. h \in BOOLEAN
    OBVIOUS
  <2>2. TimedOut(e) = [e EXCEPT !.helpful = h]
    BY Zenon DEF TimedOut
  <2> HIDE DEF h
  <2> QED BY <1>2, <2>1, <2>2, Zenon
<1>6. ASSUME NEW p \in Peers, NEW s \in Timestamps
      PROVE  NewNeighbor(p, s) \in Neighbors /\ NewNeighbor(p, s).address = p
  BY <1>3 DEF NewNeighbor, Neighbors
<1> QED BY <1>4, <1>5, <1>6

\* A table in which entries are changed, but for their address, knows the same peers.
LEMMA SameAddresses ==
    ASSUME NEW table \in Seq(Neighbors), NEW F \in [DOMAIN table -> Neighbors],
           \A i \in DOMAIN table : F[i].address = table[i].address
    PROVE  /\ F \in Seq(Neighbors) /\ DOMAIN F = DOMAIN table
           /\ \A p : {i \in DOMAIN F : F[i].address = p}
                     = {i \in DOMAIN table : table[i].address = p}
<1>1. Len(table) \in Nat /\ DOMAIN table = 1..Len(table)
  BY LenProperties
<1>2. F \in Seq(Neighbors)
  BY <1>1, SeqDef
<1> QED BY <1>2

LEMMA AppendIs ==
    ASSUME NEW table \in Seq(Neighbors), NEW e \in Neighbors
    PROVE  /\ Append(table, e) \in Seq(Neighbors)
           /\ DOMAIN table \subseteq DOMAIN Append(table, e)
           /\ \A i \in DOMAIN table : Append(table, e)[i] = table[i]
           /\ \E i \in DOMAIN Append(table, e) : Append(table, e)[i] = e
<1>1. Len(table) \in Nat /\ DOMAIN table = 1..Len(table)
  BY LenProperties
<1>2. /\ Append(table, e) \in Seq(Neighbors) /\ Len(Append(table, e)) = Len(table) + 1
      /\ \A i \in 1..Len(table) : Append(table, e)[i] = table[i]
      /\ Append(table, e)[Len(table) + 1] = e
  BY AppendProperties
<1>3. DOMAIN Append(table, e) = 1..Len(table) + 1
  BY <1>2, LenProperties
<1> QED BY <1>1, <1>2, <1>3

-----------------------------------------------------------------------------
(* Threads                                                                 *)

\* The table still knows whom it knew.
Remembers == \A p \in Peers : Entries(p) # {} => Entries(p)' # {}

LEMMA LabelsAre == Labels =
    {"exited", "receive_gossip", "update_neighbors", "helpful", "push_back",
     "send_request", "connect", "sent", "store_block", "unhelpful_counter",
     "received"} \cup Answers
  BY DEF Labels

LEMMA TypedThreads == IInv => pc \in [Threads -> Labels] /\ job \in [Threads -> Jobs]
  BY DEF IInv, TypeOK, Labels

\* A step that moves one thread.
LEMMA Moved ==
    ASSUME IInv, NEW t \in Threads, NEW label \in Labels, NEW j \in Jobs,
           pc' = [pc EXCEPT ![t] = label], job' = [job EXCEPT ![t] = j],
           Fits(t, label, j), ct => ct', label \in WithObject => ct', Remembers,
           label \in PastLookup => Entries(j.peer)' # {}
    PROVE  /\ pc' \in [Threads -> Labels] /\ job' \in [Threads -> Jobs]
           /\ \A u \in Threads : Placed(u)'
           /\ pc[t] # "unhelpful_counter" /\ label # "unhelpful_counter" =>
                Reporting' = Reporting
           /\ pc[t] # "unhelpful_counter" /\ label = "unhelpful_counter" /\ t \in PacketThreads =>
                Reporting' = Reporting \cup {t} /\ t \notin Reporting
<1>1. pc \in [Threads -> Labels] /\ job \in [Threads -> Jobs]
  BY TypedThreads
<1>2. pc' \in [Threads -> Labels] /\ job' \in [Threads -> Jobs]
  BY <1>1
<1>3. ASSUME NEW u \in Threads PROVE Placed(u)'
  <2>1. CASE u = t
    <3>1. pc'[u] = label /\ job'[u] = j
      BY <1>1, <2>1
    <3> QED BY <2>1, <3>1 DEF Placed, Entries, Fits
  <2>2. CASE u # t
    <3>1. pc'[u] = pc[u] /\ job'[u] = job[u]
      BY <1>1, <2>2
    <3>2. Placed(u)
      BY DEF IInv
    <3>3. pc[u] \in PastLookup => job[u].peer \in Peers
      <4>1. pc[u] \in PastLookup => job[u].type # "none"
        BY <3>2 DEF Placed, Fits, PastLookup, Requesting, Storing
      <4> QED BY <1>1, <4>1, JobIs
    <3>4. pc[u] \in PastLookup => Entries(job[u].peer)' # {}
      <4>1. SUFFICES ASSUME pc[u] \in PastLookup PROVE Entries(job[u].peer)' # {}
        OBVIOUS
      <4>2. Entries(job[u].peer) # {} /\ job[u].peer \in Peers
        BY <3>2, <3>3, <4>1 DEF Placed
      <4> QED BY <3>1, <4>2 DEF Remembers, Entries
    <3> QED BY <3>1, <3>2, <3>4 DEF Placed, Fits, Entries
  <2> QED BY <2>1, <2>2
<1>4. \A u \in PacketThreads : u \in Threads
  BY Constants
<1> QED BY <1>1, <1>2, <1>3, <1>4 DEF Reporting

\* No thread moves.
LEMMA Stayed ==
    ASSUME IInv, UNCHANGED threads, ct' = ct, Remembers
    PROVE  /\ pc' \in [Threads -> Labels] /\ job' \in [Threads -> Jobs]
           /\ \A u \in Threads : Placed(u)'
           /\ Reporting' = Reporting
<1>1. pc \in [Threads -> Labels] /\ job \in [Threads -> Jobs]
  BY TypedThreads
<1>2. pc' = pc /\ job' = job
  BY DEF threads
<1>3. ASSUME NEW u \in Threads PROVE Placed(u)'
  <2>1. Placed(u)
    BY DEF IInv
  <2>2. pc[u] \in PastLookup => job[u].peer \in Peers
    <3>1. pc[u] \in PastLookup => job[u].type # "none"
      BY <2>1 DEF Placed, Fits, PastLookup, Requesting, Storing
    <3> QED BY <1>1, <3>1, JobIs
  <2> QED BY <1>2, <2>1, <2>2 DEF Placed, Fits, Remembers, Entries
<1> QED BY <1>1, <1>2, <1>3 DEF Reporting

-----------------------------------------------------------------------------
(* The steps                                                               *)

\* What every step must keep of the shared variables.
Shared ==
    /\ ct \in BOOLEAN /\ rank_vec \in 0..num_blocks_gen
    /\ ct_neighbors \in Seq(Neighbors)
    /\ packets \subseteq Packets
    /\ fault \in {"none", "freed neighbours"}
    /\ \A q \in packets : q.type \in {"data request", "CT_DATA"} => ct
    /\ rank_vec # 0 => ct

Placing == pc \in [Threads -> Labels] /\ job \in [Threads -> Jobs] /\ \A t \in Threads : Placed(t)

Counted == unhelpful_counter \in Nat /\ unhelpful_counter <= Cardinality(Reporting)

LEMMA ReportingIs ==
    /\ IsFiniteSet(Reporting) /\ Cardinality(Reporting) \in Nat
    /\ Cardinality(Reporting) <= Cardinality(PacketThreads)
    /\ Cardinality(PacketThreads) \in Nat
<1>1. Reporting \subseteq PacketThreads
  BY DEF Reporting
<1> QED BY <1>1, Constants, FS_Subset, FS_CardinalityType

LEMMA Parts == IInv <=> Shared /\ Placing /\ Counted
<1>1. ASSUME IInv PROVE Shared /\ Placing /\ Counted
  <2>1. TypeOK
    BY <1>1 DEF IInv
  <2>2. Shared
    BY <1>1, <2>1, Zenon DEF IInv, Shared, TypeOK
  <2>3. unhelpful_counter \in 0..Cardinality(PacketThreads)
    BY <2>1 DEF TypeOK
  <2>4. unhelpful_counter \in Nat
    BY <2>3, ReportingIs
  <2> QED BY <1>1, <2>2, <2>4, TypedThreads DEF IInv, Placing, Counted
<1>2. ASSUME Shared, Placing, Counted PROVE IInv
  <2>1. unhelpful_counter \in 0..Cardinality(PacketThreads)
    BY <1>2, ReportingIs DEF Counted
  <2> QED BY <1>2, <2>1, LabelsAre DEF IInv, Shared, Placing, Counted, TypeOK
<1> QED BY <1>1, <1>2

LEMMA PartsNext == Shared' /\ Placing' /\ Counted' => IInv'
  BY Parts, PTL

LEMMA SharedStays ==
    ASSUME Shared, UNCHANGED <<ct, rank_vec, ct_neighbors, packets>>,
           fault' \in {"none", "freed neighbours"}
    PROVE  Shared'
  BY DEF Shared

\* A step that leaves the account alone.
LEMMA CountStays ==
    ASSUME Counted, UNCHANGED unhelpful_counter, Reporting' = Reporting
    PROVE  Counted'
  BY DEF Counted

LEMMA SameTable == UNCHANGED ct_neighbors => Remembers
  BY DEF Remembers, Entries

\* The thread of an action, as the invariant sees it.
LEMMA Thread ==
    ASSUME IInv, NEW t \in Threads
    PROVE  /\ pc[t] \in Labels /\ job[t] \in Jobs
           /\ pc = [pc EXCEPT ![t] = pc[t]] /\ job = [job EXCEPT ![t] = job[t]]
           /\ Fits(t, pc[t], job[t])
           /\ pc[t] \in WithObject => ct
           /\ pc[t] \in PastLookup => Entries(job[t].peer) # {}
           /\ pc[t] # "exited" => job[t].peer \in Peers
<1>1. pc \in [Threads -> Labels] /\ job \in [Threads -> Jobs]
  BY TypedThreads
<1>2. Placed(t)
  BY DEF IInv
<1>3. pc[t] # "exited" => job[t].type # "none"
  BY <1>2 DEF Placed, Fits
<1> QED BY <1>1, <1>2, <1>3, JobIs DEF Placed

\* What a thread that goes to a label needs to be placed there.
Ready(t, label, j) ==
    /\ label \in Labels /\ j \in Jobs /\ Fits(t, label, j)
    /\ ct => ct'
    /\ label \in WithObject => ct'
    /\ Remembers

LEMMA Going ==
    ASSUME IInv, NEW t \in Threads, NEW label, Goto(t, label), Ready(t, label, job[t]),
           NEW p, p = job[t].peer, label \in PastLookup => Entries(p)' # {}
    PROVE  /\ Placing'
           /\ pc[t] # "unhelpful_counter" /\ label # "unhelpful_counter" =>
                Reporting' = Reporting
           /\ pc[t] # "unhelpful_counter" /\ label = "unhelpful_counter" /\ t \in PacketThreads =>
                Reporting' = Reporting \cup {t} /\ t \notin Reporting
<1> DEFINE j == job[t]
<1>1. pc' = [pc EXCEPT ![t] = label] /\ job' = [job EXCEPT ![t] = j]
  BY Thread DEF Goto, At
<1>2. label \in Labels /\ j \in Jobs /\ Fits(t, label, j) /\ (ct => ct')
      /\ (label \in WithObject => ct') /\ Remembers
  BY DEF Ready
<1>3. p = j.peer
  OBVIOUS
<1> HIDE DEF j
<1> QED BY <1>1, <1>2, <1>3, Moved DEF Placing

LEMMA Exiting ==
    ASSUME IInv, NEW t \in Threads, Exit(t), ct => ct', Remembers
    PROVE  Placing' /\ (pc[t] # "unhelpful_counter" => Reporting' = Reporting)
<1>1. pc' = [pc EXCEPT ![t] = "exited"] /\ job' = [job EXCEPT ![t] = NoJob]
  BY DEF Exit, At
<1>2. "exited" \in Labels /\ "exited" \notin WithObject /\ "exited" \notin PastLookup
  BY DEF Labels, WithObject, PastLookup, Requesting, Storing
<1>3. NoJob \in Jobs /\ Fits(t, "exited", NoJob)
  BY JobIs DEF Fits, Answers, Requesting, Storing
<1> QED BY <1>1, <1>2, <1>3, Moved DEF Placing

LEMMA Calling ==
    ASSUME IInv, NEW t \in Threads, NEW then \in {"helpful", "return", "received"}, Call(t, then),
           pc[t] # "exited", then = "received" => job[t].type = "CT_DATA",
           ct, ct', Remembers, NEW p, p = job[t].peer, Entries(p)' # {}
    PROVE  Placing' /\ (pc[t] # "unhelpful_counter" => Reporting' = Reporting)
<1> DEFINE j == [job[t] EXCEPT !.then = then]
<1>1. pc' = [pc EXCEPT ![t] = "send_request"] /\ job' = [job EXCEPT ![t] = j]
  BY DEF Call, At
<1>2. job[t] \in Jobs /\ job[t].type # "none" /\ (job[t].type \in Answers => t \in PacketThreads)
  BY Thread DEF Fits
<1>3. j \in Jobs /\ j.type = job[t].type /\ j.peer = job[t].peer /\ j.then = then
  <2> DEFINE i == job[t]
  <2>1. i \in Jobs /\ i.type # "none" /\ then \in {"none", "helpful", "return", "received"}
    BY <1>2
  <2>2. j = [i EXCEPT !.then = then]
    OBVIOUS
  <2> HIDE DEF i, j
  <2>3. j \in Jobs /\ j.type = i.type /\ j.peer = i.peer /\ j.then = then
    BY <2>1, <2>2, JobThen
  <2> QED BY <2>3 DEF i
<1> HIDE DEF j
<1>4. Fits(t, "send_request", j)
  BY <1>2, <1>3 DEF Fits, Requesting, Storing
<1>5. "send_request" \in Labels
  BY DEF Labels
<1> QED BY <1>1, <1>3, <1>4, <1>5, Moved DEF Placing

LEMMA Beginning ==
    ASSUME IInv, NEW t \in Threads, NEW label \in {"receive_gossip", "CT_FILEINFO", "CT_DATA"},
           NEW type \in Answers \cup {"CT_GOSSIP"}, NEW p \in Peers, Begin(t, label, type, p),
           type \in Answers => t \in PacketThreads, label \in Answers => type = label,
           ct => ct', label = "CT_DATA" => ct', Remembers
    PROVE  Placing' /\ Reporting' = Reporting
<1> DEFINE j == [type |-> type, peer |-> p, then |-> "none"]
<1>1. pc' = [pc EXCEPT ![t] = label] /\ job' = [job EXCEPT ![t] = j] /\ pc[t] = "exited"
  BY DEF Begin, At
<1>2. j \in Jobs /\ j.type = type /\ j.peer = p
  BY JobIs
<1> HIDE DEF j
<1>3. label \in Labels /\ label \notin PastLookup /\ label # "unhelpful_counter"
      /\ (label \in WithObject => label = "CT_DATA")
  BY DEF Labels, PastLookup, WithObject, Requesting, Storing, Answers
<1>4. Fits(t, label, j)
  BY <1>2 DEF Fits, Answers, Requesting, Storing
<1> QED BY <1>1, <1>2, <1>3, <1>4, Moved DEF Placing

LEMMA ListenGossipKeeps ==
    ASSUME IInv, NEW t \in GossipThreads, NEW p \in Peers, ListenGossip(t, p)
    PROVE  IInv'
<1>1. t \in Threads
  BY Constants
<1>2. Placing' /\ Reporting' = Reporting
  BY <1>1, Beginning, SameTable DEF ListenGossip, Answers
<1> QED BY <1>2, Parts, PartsNext, SharedStays, CountStays DEF ListenGossip, Shared

LEMMA ReceiveGossipKeeps ==
    ASSUME IInv, NEW t \in Threads, ReceiveGossip(t)
    PROVE  IInv'
<1>1. /\ pc[t] = "receive_gossip" /\ job[t] \in Jobs /\ Fits(t, "receive_gossip", job[t])
      /\ job[t].peer \in Peers
  BY Thread DEF ReceiveGossip
<1>2. Remembers
  BY SameTable DEF ReceiveGossip
<1>3. CASE ct /\ Goto(t, "update_neighbors") /\ UNCHANGED packets
  <2>1. Ready(t, "update_neighbors", job[t])
    BY <1>1, <1>2, <1>3
        DEF ReceiveGossip, Ready, Labels, Fits, Requesting, Storing
  <2>2. Placing' /\ Reporting' = Reporting
    BY <1>1, <1>3, <2>1, Going DEF PastLookup, Requesting, Storing
  <2> QED BY <1>3, <2>2, Parts, PartsNext, SharedStays, CountStays DEF ReceiveGossip, Shared
<1>4. CASE ~ct /\ Exit(t) /\ SendFileInfoRequest(job[t].peer)
  <2>1. Placing' /\ Reporting' = Reporting
    BY <1>1, <1>2, <1>4, Exiting
  <2>2. packets' = packets \cup {Packet("file info request", job[t].peer)} \/ packets' = packets
    BY <1>4 DEF SendFileInfoRequest, Send
  <2>3. Packet("file info request", job[t].peer) \in Packets
        /\ Packet("file info request", job[t].peer).type = "file info request"
    BY <1>1, PacketIs DEF Requests
  <2>4. Shared'
    BY <2>2, <2>3, Parts DEF Shared, ReceiveGossip
  <2> QED BY <2>1, <2>4, Parts, PartsNext, CountStays DEF ReceiveGossip
<1> QED BY <1>3, <1>4 DEF ReceiveGossip

\* A step that changes entries, but for their addresses.
LEMMA Changed ==
    ASSUME IInv, NEW F, ct_neighbors' = F, F \in [DOMAIN ct_neighbors -> Neighbors],
           \A i \in DOMAIN ct_neighbors : F[i].address = ct_neighbors[i].address
    PROVE  /\ ct_neighbors' \in Seq(Neighbors)
           /\ Remembers /\ \A p : Entries(p)' = Entries(p)
<1>1. ct_neighbors \in Seq(Neighbors)
  BY Parts DEF Shared
<1>2. /\ F \in Seq(Neighbors) /\ DOMAIN F = DOMAIN ct_neighbors
      /\ \A p : {i \in DOMAIN F : F[i].address = p}
                = {i \in DOMAIN ct_neighbors : ct_neighbors[i].address = p}
  BY <1>1, SameAddresses
<1>3. \A p : Entries(p)' = Entries(p)
  BY <1>2 DEF Entries
<1> QED BY <1>2, <1>3 DEF Remembers

\* One entry changes.
LEMMA ChangedOne ==
    ASSUME IInv, NEW i \in DOMAIN ct_neighbors, NEW e \in Neighbors,
           e.address = ct_neighbors[i].address,
           ct_neighbors' = [ct_neighbors EXCEPT ![i] = e]
    PROVE  /\ ct_neighbors' \in Seq(Neighbors)
           /\ Remembers /\ \A p : Entries(p)' = Entries(p)
<1> DEFINE F == [ct_neighbors EXCEPT ![i] = e]
<1>1. ct_neighbors \in [DOMAIN ct_neighbors -> Neighbors]
  <2>1. ct_neighbors \in Seq(Neighbors)
    BY Parts DEF Shared
  <2> QED BY <2>1, LenProperties
<1>2. F \in [DOMAIN ct_neighbors -> Neighbors]
      /\ \A k \in DOMAIN ct_neighbors : F[k].address = ct_neighbors[k].address
  BY <1>1
<1> HIDE DEF F
<1>3. ct_neighbors' = F
  BY DEF F
<1> QED BY <1>2, <1>3, Changed

LEMMA EntryOf ==
    ASSUME IInv, NEW i \in DOMAIN ct_neighbors
    PROVE  ct_neighbors[i] \in Neighbors
<1>1. ct_neighbors \in Seq(Neighbors)
  BY Parts DEF Shared
<1> QED BY <1>1, LenProperties

\* The entry a pass over the table finds first.
LEMMA FirstIs ==
    ASSUME IInv, NEW p, Entries(p) # {}
    PROVE  /\ First(Entries(p)) \in DOMAIN ct_neighbors
           /\ ct_neighbors[First(Entries(p))].address = p
<1>1. ct_neighbors \in Seq(Neighbors)
  BY Parts DEF Shared
<1>2. Entries(p) \in SUBSET Nat
  BY <1>1, LenProperties DEF Entries
<1>3. PICK m \in Entries(p) : \A k \in Entries(p) : ~(<<k, m>> \in OpToRel(<, Nat))
  BY <1>2, WFMin, NatLessThanWellFounded, Zenon
<1>4. \A k \in Entries(p) : ~(k < m)
  BY <1>2, <1>3, Zenon DEF OpToRel
<1>5. \A k \in Entries(p) : m <= k
  BY <1>2, <1>4
<1>6. First(Entries(p)) \in Entries(p)
  BY <1>5, Zenon DEF First
<1> QED BY <1>6 DEF Entries

LEMMA SharedChanges ==
    ASSUME Shared, UNCHANGED <<ct, rank_vec, packets, fault>>, ct_neighbors' \in Seq(Neighbors)
    PROVE  Shared'
  BY DEF Shared

LEMMA Returning ==
    ASSUME IInv, NEW t \in Threads, Return(t), ct, ct', Remembers,
           pc[t] # "exited", pc[t] # "unhelpful_counter",
           NEW p, p = job[t].peer, Entries(p)' # {}
    PROVE  Placing' /\ Reporting' = Reporting
<1>1. job[t] \in Jobs /\ Fits(t, pc[t], job[t])
  BY Thread
<1>2. CASE job[t].type = "CT_DATA" /\ Goto(t, "store_block")
  <2>1. Ready(t, "store_block", job[t])
    BY <1>1, <1>2 DEF Ready, Labels, Fits, Requesting, Storing
  <2> QED BY <1>2, <2>1, Going
<1>3. CASE Exit(t)
  BY <1>3, Exiting
<1> QED BY <1>2, <1>3 DEF Return

LEMMA ReturningTo ==
    ASSUME IInv, NEW t \in Threads, pc[t] \in Requesting, ReturnTo(t, job[t].then), ct, ct',
           Remembers, NEW p, p = job[t].peer, Entries(p)' # {}
    PROVE  Placing' /\ Reporting' = Reporting
<1>1. /\ job[t] \in Jobs /\ Fits(t, pc[t], job[t])
      /\ pc[t] # "exited" /\ pc[t] # "unhelpful_counter"
  BY Thread DEF Requesting
<1>2. job[t].then \in {"helpful", "return", "received"}
  BY <1>1, JobIs DEF Fits, Requesting
<1>3. CASE Return(t)
  BY <1>1, <1>3, Returning
<1>4. CASE job[t].then # "return" /\ Goto(t, job[t].then)
  <2>1. job[t].then \in {"helpful", "received"}
    BY <1>2, <1>4
  <2>2. Ready(t, job[t].then, job[t])
    BY <1>1, <2>1 DEF Ready, Labels, Fits, Requesting, Storing
  <2> QED BY <1>1, <1>4, <2>1, <2>2, Going
<1> QED BY <1>3, <1>4 DEF ReturnTo

LEMMA IncomingFileInfoKeeps ==
    ASSUME IInv, NEW t \in Threads, IncomingFileInfo(t)
    PROVE  IInv'
<1>1. /\ pc[t] = "CT_FILEINFO" /\ job[t] \in Jobs /\ Fits(t, "CT_FILEINFO", job[t]) /\ ct'
  BY Thread DEF IncomingFileInfo
<1>2. Remembers
  BY SameTable DEF IncomingFileInfo
<1>3. Placing' /\ Reporting' = Reporting
  <2>1. CASE Exit(t)
    BY <1>1, <1>2, <2>1, Exiting
  <2>2. CASE Goto(t, "update_neighbors")
    <3>1. Ready(t, "update_neighbors", job[t])
      BY <1>1, <1>2 DEF Ready, Labels, Fits, Requesting, Storing
    <3> QED BY <1>1, <2>2, <3>1, Going DEF PastLookup, Requesting, Storing
  <2> QED BY <2>1, <2>2 DEF IncomingFileInfo
<1>4. Shared'
  BY Parts DEF Shared, IncomingFileInfo
<1> QED BY <1>3, <1>4, Parts, PartsNext, CountStays DEF IncomingFileInfo

LEMMA UpdateNeighborsKeeps ==
    ASSUME IInv, NEW t \in Threads, UpdateNeighbors(t)
    PROVE  IInv'
<1>0. PICK p : p = job[t].peer
  OBVIOUS
<1> DEFINE i == First(Entries(p))
           e == TimedOut(Released(ct_neighbors[i]))
<1>1. /\ pc[t] = "update_neighbors" /\ job[t] \in Jobs /\ Fits(t, "update_neighbors", job[t])
      /\ ct /\ ct' /\ p \in Peers
  BY <1>0, Thread DEF UpdateNeighbors, WithObject
<1>2. CASE Entries(p) = {}
  <2>1. Goto(t, "push_back") /\ UNCHANGED ct_neighbors
    BY <1>0, <1>2 DEF UpdateNeighbors
  <2>2. Remembers
    BY <2>1, SameTable
  <2>3. Ready(t, "push_back", job[t])
    BY <1>1, <2>2 DEF Ready, Labels, Fits, Requesting, Storing
  <2>4. Placing' /\ Reporting' = Reporting
    BY <1>0, <1>1, <2>1, <2>3, Going DEF PastLookup, Requesting, Storing
  <2> QED BY <2>1, <2>4, Parts, PartsNext, SharedStays, CountStays DEF UpdateNeighbors, Shared
<1>3. CASE Entries(p) # {}
  <2>1. /\ ct_neighbors' = [ct_neighbors EXCEPT ![i] = e]
        /\ Goto(t, "helpful") \/ Call(t, "helpful")
    BY <1>0, <1>3 DEF UpdateNeighbors
  <2>2. i \in DOMAIN ct_neighbors
    BY <1>3, FirstIs
  <2>3. e \in Neighbors /\ e.address = ct_neighbors[i].address
    BY <2>2, EntryOf, EntryIs
  <2> HIDE DEF i, e
  <2>4. ct_neighbors' \in Seq(Neighbors) /\ Remembers /\ Entries(p)' = Entries(p)
    BY <2>1, <2>2, <2>3, ChangedOne
  <2>5. Placing' /\ Reporting' = Reporting
    <3>1. CASE Goto(t, "helpful")
      <4>1. Ready(t, "helpful", job[t])
        BY <1>1, <2>4 DEF Ready, Labels, Fits, Requesting, Storing
      <4>2. Entries(p)' # {} /\ pc[t] # "unhelpful_counter"
        BY <1>1, <1>3, <2>4
      <4> QED BY <1>0, <3>1, <4>1, <4>2, Going
    <3>2. CASE Call(t, "helpful")
      BY <1>0, <1>1, <1>3, <2>4, <3>2, Calling
    <3> QED BY <2>1, <3>1, <3>2
  <2> QED BY <2>4, <2>5, Parts, PartsNext, SharedChanges, CountStays DEF UpdateNeighbors
<1> QED BY <1>2, <1>3

LEMMA SetHelpfulKeeps ==
    ASSUME IInv, NEW t \in Threads, SetHelpful(t)
    PROVE  IInv'
<1>0. PICK p : p = job[t].peer
  OBVIOUS
<1> DEFINE i == First(Entries(p))
           e == [ct_neighbors[i] EXCEPT !.helpful = TRUE]
<1>1. /\ pc[t] = "helpful" /\ ct /\ ct' /\ Entries(p) # {}
  BY <1>0, Thread DEF SetHelpful, WithObject, PastLookup
<1>2. ct_neighbors' = [ct_neighbors EXCEPT ![i] = e]
  BY <1>0 DEF SetHelpful
<1>3. i \in DOMAIN ct_neighbors
  BY <1>1, FirstIs
<1>4. e \in Neighbors /\ e.address = ct_neighbors[i].address
  <2> DEFINE f == ct_neighbors[i]
  <2>1. f \in Neighbors
    BY <1>3, EntryOf
  <2> HIDE DEF f
  <2>2. [f EXCEPT !.helpful = TRUE] \in Neighbors /\ [f EXCEPT !.helpful = TRUE].address = f.address
    BY <2>1 DEF Neighbors
  <2> QED BY <2>2 DEF f
<1> HIDE DEF i, e
<1>5. ct_neighbors' \in Seq(Neighbors) /\ Remembers /\ Entries(p)' = Entries(p)
  BY <1>2, <1>3, <1>4, ChangedOne
<1>6. Placing' /\ Reporting' = Reporting
  BY <1>0, <1>1, <1>5, Returning DEF SetHelpful
<1> QED BY <1>5, <1>6, Parts, PartsNext, SharedChanges, CountStays DEF SetHelpful

LEMMA PushBackKeeps ==
    ASSUME IInv, NEW t \in Threads, PushBack(t)
    PROVE  IInv'
<1>0. PICK p : p = job[t].peer
  OBVIOUS
<1>1. pc[t] = "push_back" /\ ct /\ ct' /\ p \in Peers /\ ct_neighbors \in Seq(Neighbors)
  BY <1>0, Thread, Parts DEF PushBack, WithObject, Shared
<1>2. ASSUME NEW timestamp \in Timestamps,
             ct_neighbors' = Pushed(NewNeighbor(job[t].peer, timestamp)),
             Call(t, "return"), UNCHANGED fault
      PROVE  IInv'
  <2> DEFINE e == NewNeighbor(p, timestamp)
  <2>1. e \in Neighbors /\ e.address = p
    BY <1>1, EntryIs
  <2>2. ct_neighbors' = Pushed(e)
    BY <1>0, <1>2
  <2> HIDE DEF e
  <2>3. ct_neighbors' \in Seq(Neighbors) /\ Remembers /\ Entries(p)' # {}
    <3>1. CASE Entries(p) = {}
      <4>1. ct_neighbors' = Append(ct_neighbors, e)
        BY <2>1, <2>2, <3>1 DEF Pushed
      <4>2. /\ ct_neighbors' \in Seq(Neighbors) /\ DOMAIN ct_neighbors \subseteq DOMAIN ct_neighbors'
            /\ \A i \in DOMAIN ct_neighbors : ct_neighbors'[i] = ct_neighbors[i]
            /\ \E i \in DOMAIN ct_neighbors' : ct_neighbors'[i] = e
        BY <1>1, <2>1, <4>1, AppendIs
      <4> QED BY <2>1, <4>2 DEF Remembers, Entries
    <3>2. CASE Entries(p) # {}
      <4>1. ct_neighbors' = ct_neighbors
        BY <2>1, <2>2, <3>2 DEF Pushed
      <4> QED BY <1>1, <3>2, <4>1 DEF Remembers, Entries
    <3> QED BY <3>1, <3>2
  <2>4. Placing' /\ Reporting' = Reporting
    BY <1>0, <1>1, <1>2, <2>3, Calling
  <2> QED BY <1>2, <2>3, <2>4, Parts, PartsNext, SharedChanges, CountStays DEF PushBack
<1>3. ASSUME fault' = "freed neighbours", UNCHANGED <<threads, ct_neighbors>>
      PROVE  IInv'
  <2>1. Placing' /\ Reporting' = Reporting
    BY <1>3, Stayed, SameTable DEF PushBack, Placing
  <2> QED BY <1>3, <2>1, Parts, PartsNext, SharedStays, CountStays DEF PushBack
<1> QED BY <1>2, <1>3 DEF PushBack

LEMMA SendRequestKeeps ==
    ASSUME IInv, NEW t \in Threads, SendRequest(t)
    PROVE  IInv'
<1>0. PICK p : p = job[t].peer
  OBVIOUS
<1>1. /\ pc[t] = "send_request" /\ job[t] \in Jobs /\ Fits(t, "send_request", job[t])
      /\ ct /\ ct' /\ Entries(p) # {} /\ pc[t] \in Requesting
  BY <1>0, Thread DEF SendRequest, WithObject, PastLookup, Requesting
<1>2. Remembers /\ Entries(p)' # {}
  BY <1>1, SameTable DEF SendRequest, Entries
<1>3. Placing' /\ Reporting' = Reporting
  <2>1. CASE ReturnTo(t, job[t].then)
    BY <1>0, <1>1, <1>2, <2>1, ReturningTo
  <2>2. CASE Goto(t, "connect")
    <3>1. Ready(t, "connect", job[t])
      BY <1>1, <1>2 DEF Ready, Labels, Fits, Requesting, Storing
    <3>2. pc[t] # "unhelpful_counter"
      BY <1>1
    <3> QED BY <1>0, <1>2, <2>2, <3>1, <3>2, Going
  <2> QED BY <2>1, <2>2 DEF SendRequest
<1> QED BY <1>3, Parts, PartsNext, SharedStays, CountStays DEF SendRequest, Shared

LEMMA ConnectKeeps ==
    ASSUME IInv, NEW t \in Threads, Connect(t)
    PROVE  IInv'
<1>0. PICK p : p = job[t].peer
  OBVIOUS
<1>1. /\ pc[t] = "connect" /\ job[t] \in Jobs /\ Fits(t, "connect", job[t])
      /\ ct /\ ct' /\ Entries(p) # {} /\ p \in Peers
  BY <1>0, Thread DEF Connect, WithObject, PastLookup, Requesting
<1>2. Remembers /\ Entries(p)' # {}
  BY <1>1, SameTable DEF Connect, Entries
<1>3. CASE Send("data request", job[t].peer) /\ Goto(t, "sent")
  <2>1. Ready(t, "sent", job[t])
    BY <1>1, <1>2 DEF Ready, Labels, Fits, Requesting, Storing
  <2>2. Goto(t, "sent") /\ Entries(p)' # {}
    BY <1>2, <1>3
  <2>3. Placing' /\ Reporting' = Reporting
    BY <1>0, <1>1, <2>1, <2>2, Going
  <2>4. packets' = packets \cup {Packet("data request", p)}
    BY <1>0, <1>3 DEF Send
  <2>5. Packet("data request", p) \in Packets
    BY <1>1, PacketIs DEF Requests
  <2>6. Shared'
    BY <1>1, <2>4, <2>5, Parts DEF Shared, Connect
  <2> QED BY <2>3, <2>6, Parts, PartsNext, CountStays DEF Connect
<1>4. CASE Exit(t) /\ UNCHANGED packets
  <2>1. Placing' /\ Reporting' = Reporting
    BY <1>1, <1>2, <1>4, Exiting
  <2> QED BY <1>4, <2>1, Parts, PartsNext, SharedStays, CountStays DEF Connect, Shared
<1> QED BY <1>3, <1>4 DEF Connect

\* SetTimestamp changes nothing else.
LEMMA TimestampIs ==
    ASSUME IInv, NEW p, NEW timestamp \in Timestamps, SetTimestamp(p, timestamp)
    PROVE  /\ ct_neighbors' \in Seq(Neighbors)
           /\ Remembers /\ \A q : Entries(q)' = Entries(q)
<1> DEFINE F == [i \in DOMAIN ct_neighbors |->
                    IF i \in Entries(p) THEN [ct_neighbors[i] EXCEPT !.re_timestamp = timestamp]
                    ELSE ct_neighbors[i]]
<1>1. \A e \in Neighbors :
        /\ [e EXCEPT !.re_timestamp = timestamp] \in Neighbors
        /\ [e EXCEPT !.re_timestamp = timestamp].address = e.address
  BY DEF Neighbors
<1>2. \A i \in DOMAIN ct_neighbors : F[i] \in Neighbors /\ F[i].address = ct_neighbors[i].address
  BY <1>1, EntryOf
<1>3. F \in [DOMAIN ct_neighbors -> Neighbors]
  BY <1>2
<1>4. ct_neighbors' = F
  BY DEF SetTimestamp
<1> HIDE DEF F
<1> QED BY <1>2, <1>3, <1>4, Changed

LEMMA SentKeeps ==
    ASSUME IInv, NEW t \in Threads, Sent(t)
    PROVE  IInv'
<1>0. PICK p : p = job[t].peer
  OBVIOUS
<1>1. pc[t] = "sent" /\ ct /\ ct' /\ Entries(p) # {} /\ pc[t] \in Requesting
  BY <1>0, Thread DEF Sent, WithObject, PastLookup, Requesting
<1>2. ct_neighbors' \in Seq(Neighbors) /\ Remembers /\ Entries(p)' = Entries(p)
  BY <1>0, TimestampIs DEF Sent, Timestamps
<1>3. Placing' /\ Reporting' = Reporting
  BY <1>0, <1>1, <1>2, ReturningTo DEF Sent
<1> QED BY <1>2, <1>3, Parts, PartsNext, SharedChanges, CountStays DEF Sent

LEMMA ReceivedKeeps ==
    ASSUME IInv, NEW t \in Threads, Received(t)
    PROVE  IInv'
<1>1. pc[t] = "received" /\ ct' = ct
  BY DEF Received
<1>2. ct_neighbors' \in Seq(Neighbors) /\ Remembers
  BY TimestampIs DEF Received, Timestamps
<1>3. Placing' /\ Reporting' = Reporting
  BY <1>1, <1>2, Exiting DEF Received
<1> QED BY <1>2, <1>3, Parts, PartsNext, SharedChanges, CountStays DEF Received

-----------------------------------------------------------------------------
(* Packets, time, and the rest                                             *)

LEMMA ServeKeeps ==
    ASSUME IInv, NEW p \in Peers, Serve(p)
    PROVE  IInv'
<1>1. PICK answer \in Answers :
        /\ packets' \subseteq packets \cup {Packet(answer, p)}
        /\ answer = "CT_DATA" => Packet("data request", p) \in packets
  BY DEF Serve, SendFileInfo, SendCodedBlock, Answered, Answers
<1>2. /\ Packet(answer, p) \in Packets /\ Packet(answer, p).type = answer
      /\ Packet("data request", p).type = "data request"
  BY PacketIs DEF Requests
<1>3. \A q \in packets' : q.type \in {"data request", "CT_DATA"} => ct
  BY <1>1, <1>2, Parts DEF Shared, Answers
<1>4. Shared'
  BY <1>1, <1>2, <1>3, Parts DEF Shared, Serve
<1>5. Placing' /\ Reporting' = Reporting
  BY Stayed, SameTable DEF Serve, Placing
<1> QED BY <1>4, <1>5, Parts, PartsNext, CountStays DEF Serve

LEMMA LoseKeeps ==
    ASSUME IInv, NEW q \in packets, Lose(q)
    PROVE  IInv'
<1>1. Shared'
  BY Parts DEF Shared, Lose
<1>2. Placing' /\ Reporting' = Reporting
  BY Stayed, SameTable DEF Lose, Placing
<1> QED BY <1>1, <1>2, Parts, PartsNext, CountStays DEF Lose

LEMMA ListenDataKeeps ==
    ASSUME IInv, NEW t \in PacketThreads, NEW q \in packets, ListenData(t, q)
    PROVE  IInv'
<1>1. t \in Threads
  BY Constants
<1>2. q.type \in Answers /\ q.peer \in Peers /\ (q.type = "CT_DATA" => ct)
  BY Parts DEF ListenData, Shared, Packets
<1>3. ct' = ct /\ Begin(t, q.type, q.type, q.peer)
  BY DEF ListenData
<1>4. Remembers
  BY SameTable DEF ListenData
<1>5. Placing' /\ Reporting' = Reporting
  BY <1>1, <1>2, <1>3, <1>4, Beginning DEF Answers
<1>6. Shared'
  BY Parts DEF Shared, ListenData
<1> QED BY <1>5, <1>6, Parts, PartsNext, CountStays DEF ListenData

LEMMA IncomingDataKeeps ==
    ASSUME IInv, NEW t \in Threads, IncomingData(t)
    PROVE  IInv'
<1>1. /\ pc[t] = "CT_DATA" /\ job[t] \in Jobs /\ Fits(t, "CT_DATA", job[t]) /\ ct /\ ct'
  BY Thread DEF IncomingData, WithObject
<1>2. Remembers
  BY SameTable DEF IncomingData
<1>3. Goto(t, "update_neighbors")
  BY <1>1 DEF IncomingData
<1>4. Ready(t, "update_neighbors", job[t])
  BY <1>1, <1>2 DEF Ready, Labels, Fits, Requesting, Storing
<1>5. Placing' /\ Reporting' = Reporting
  BY <1>1, <1>3, <1>4, Going DEF PastLookup, Requesting, Storing
<1> QED BY <1>5, Parts, PartsNext, SharedStays, CountStays DEF IncomingData, Shared

\* Either a block is counted in rank_vec, or the thread is one more that has raised
\* unhelpful_counter and not yet read it.
LEMMA StoreBlockKeeps ==
    ASSUME IInv, NEW t \in Threads, NEW innovative \in BOOLEAN, StoreBlock(t, innovative)
    PROVE  IInv'
<1>0. PICK p : p = job[t].peer
  OBVIOUS
<1>1. /\ pc[t] = "store_block" /\ job[t] \in Jobs /\ Fits(t, "store_block", job[t])
      /\ ct /\ ct' /\ Entries(p) # {}
  BY <1>0, Thread DEF StoreBlock, WithObject, PastLookup, Storing
<1>2. t \in PacketThreads
  BY <1>1 DEF Fits, Storing, Answers
<1>3. Remembers /\ Entries(p)' # {}
  BY <1>1, SameTable DEF StoreBlock, Entries
<1>4. Ready(t, "unhelpful_counter", job[t])
  BY <1>1, <1>3 DEF Ready, Labels, Fits, Requesting, Storing
<1>5. Goto(t, "unhelpful_counter")
  BY DEF StoreBlock
<1>6. Placing' /\ Reporting' = Reporting \cup {t} /\ t \notin Reporting
  BY <1>0, <1>1, <1>2, <1>3, <1>4, <1>5, Going
<1>7. /\ Cardinality(Reporting') = Cardinality(Reporting) + 1
      /\ Cardinality(Reporting) \in Nat
  BY <1>6, ReportingIs, FS_AddElement
<1>8. /\ unhelpful_counter \in Nat /\ unhelpful_counter <= Cardinality(Reporting)
      /\ unhelpful_counter' \in {unhelpful_counter, unhelpful_counter + 1}
  BY Parts DEF Counted, StoreBlock
<1>9. Counted'
  BY <1>7, <1>8 DEF Counted
<1>10. Shared'
  <2>1. rank_vec \in 0..num_blocks_gen /\ num_blocks_gen \in Nat
    BY Constants, Parts DEF Shared
  <2>2. rank_vec' = rank_vec \/ (rank_vec # num_blocks_gen /\ rank_vec' = rank_vec + 1)
    BY Zenon DEF StoreBlock, Complete
  <2>3. rank_vec' \in 0..num_blocks_gen
    BY <2>1, <2>2
  <2> QED BY <1>1, <2>3, Parts DEF Shared, StoreBlock
<1> QED BY <1>6, <1>9, <1>10, PartsNext

LEMMA SleepOrRequestKeeps ==
    ASSUME IInv, NEW t \in Threads, SleepOrRequest(t)
    PROVE  IInv'
<1>0. PICK p : p = job[t].peer
  OBVIOUS
<1>1. /\ pc[t] = "unhelpful_counter" /\ job[t] \in Jobs /\ Fits(t, "unhelpful_counter", job[t])
      /\ ct /\ ct' /\ Entries(p) # {} /\ job[t].type = "CT_DATA"
  BY <1>0, Thread DEF SleepOrRequest, WithObject, PastLookup, Storing, Fits
<1>2. Remembers /\ Entries(p)' # {}
  BY <1>1, SameTable DEF SleepOrRequest, Entries
<1>3. Placing'
  <2>1. CASE Goto(t, "received")
    <3>1. Ready(t, "received", job[t])
      BY <1>1, <1>2 DEF Ready, Labels, Fits, Requesting, Storing
    <3> QED BY <1>0, <1>2, <2>1, <3>1, Going
  <2>2. CASE Call(t, "received")
    BY <1>0, <1>1, <1>2, <2>2, Calling
  <2> QED BY <2>1, <2>2 DEF SleepOrRequest
<1>4. Cardinality(Reporting)' \in Nat
  <2>1. Reporting' \subseteq PacketThreads
    BY DEF Reporting
  <2>2. Cardinality(Reporting') \in Nat
    BY <2>1, Constants, FS_Subset, FS_CardinalityType
  <2> QED BY <2>2
<1>5. Counted'
  BY <1>4 DEF Counted, SleepOrRequest
<1> QED BY <1>3, <1>5, Parts, PartsNext, SharedStays DEF SleepOrRequest, Shared

LEMMA TimePasses ==
    ASSUME IInv, NEW i \in DOMAIN ct_neighbors, CheckNeighbors(i) \/ Overdue(i)
    PROVE  IInv'
<1>1. ASSUME NEW e \in Neighbors
      PROVE  /\ [e EXCEPT !.helpful = FALSE] \in Neighbors
             /\ [e EXCEPT !.helpful = FALSE].address = e.address
             /\ [e EXCEPT !.re_timestamp = "overdue"] \in Neighbors
             /\ [e EXCEPT !.re_timestamp = "overdue"].address = e.address
  BY DEF Neighbors, Timestamps
<1>2. PICK e \in Neighbors :
        e.address = ct_neighbors[i].address /\ ct_neighbors' = [ct_neighbors EXCEPT ![i] = e]
  <2>1. ct_neighbors[i] \in Neighbors
    BY EntryOf
  <2>2. CASE CheckNeighbors(i)
    <3>1. ct_neighbors' = [ct_neighbors EXCEPT ![i] = [ct_neighbors[i] EXCEPT !.helpful = FALSE]]
      BY <2>2 DEF CheckNeighbors
    <3> QED BY <1>1, <2>1, <3>1
  <2>3. CASE Overdue(i)
    <3>1. ct_neighbors' =
            [ct_neighbors EXCEPT ![i] = [ct_neighbors[i] EXCEPT !.re_timestamp = "overdue"]]
      BY <2>3 DEF Overdue
    <3> QED BY <1>1, <2>1, <3>1
  <2> QED BY <2>2, <2>3
<1>3. ct_neighbors' \in Seq(Neighbors) /\ Remembers
  BY <1>2, ChangedOne
<1>4. UNCHANGED <<threads, ct, rank_vec, packets, unhelpful_counter, fault>>
  BY DEF CheckNeighbors, Overdue
<1>5. Placing' /\ Reporting' = Reporting
  BY <1>3, <1>4, Stayed DEF Placing
<1> QED BY <1>3, <1>4, <1>5, Parts, PartsNext, SharedChanges, CountStays

-----------------------------------------------------------------------------
(* The theorems                                                            *)

LEMMA Initially == Init => IInv
<1> SUFFICES ASSUME Init PROVE IInv
  OBVIOUS
<1>1. Shared
  <2>1. <<>> \in Seq(Neighbors)
    BY EmptySeq
  <2>2. 0 \in 0..num_blocks_gen
    BY Constants
  <2> QED BY <2>1, <2>2 DEF Init, Shared
<1>2. Placing
  BY JobIs DEF Init, Placing, Placed, Fits, Labels, WithObject, PastLookup, Requesting, Storing, Answers
<1>3. Counted
  BY ReportingIs DEF Init, Counted
<1> QED BY <1>1, <1>2, <1>3, Parts

LEMMA Steps == IInv /\ [Next]_vars => IInv'
<1> SUFFICES ASSUME IInv, [Next]_vars PROVE IInv'
  OBVIOUS
<1>1. ASSUME NEW p \in Peers, Hear(p) \/ Answer(p) PROVE IInv'
  BY <1>1, ListenGossipKeeps, ServeKeeps DEF Hear, Answer
<1>2. ASSUME NEW q \in packets, Arrive(q) \/ Lose(q) PROVE IInv'
  BY <1>2, ListenDataKeeps, LoseKeeps DEF Arrive
<1>3. ASSUME NEW t \in Threads, Step(t) PROVE IInv'
  BY <1>3, ReceiveGossipKeeps, IncomingFileInfoKeeps, UpdateNeighborsKeeps, SetHelpfulKeeps,
     PushBackKeeps, SendRequestKeeps, ConnectKeeps, SentKeeps, IncomingDataKeeps,
     StoreBlockKeeps, SleepOrRequestKeeps, ReceivedKeeps DEF Step
<1>4. ASSUME UNCHANGED vars PROVE IInv'
  <2>1. Placing' /\ Reporting' = Reporting
    BY <1>4, Stayed, SameTable DEF vars, Placing
  <2> QED BY <1>4, <2>1, Parts, PartsNext, SharedStays, CountStays DEF vars, Shared
<1> QED BY <1>1, <1>2, <1>3, <1>4, TimePasses DEF Next

LEMMA Invariance == Spec => []IInv
  BY Initially, Steps, PTL DEF Spec

\* Every variable keeps its range: unhelpful_counter, which is reset and not counted
\* down, never exceeds the number of packet threads.
THEOREM TypeCorrect == Spec => []TypeOK
<1>1. IInv => TypeOK
  BY DEF IInv
<1> QED BY <1>1, Invariance, PTL

\* No block comes, and none is thrown away, before the client has its CodeTorrent
\* object, however file infos, gossip and blocks of several peers are interleaved.
THEOREM ObjectFirst == Spec => []NoBlockBeforeObject
<1>1. IInv => NoBlockBeforeObject
  BY DEF IInv, NoBlockBeforeObject, Placed, WithObject
<1> QED BY <1>1, Invariance, PTL

\* Whoever marks a peer helpful, asked or heard from finds its entry, whatever other
\* threads did to the table while it connected or slept.
THEOREM PeersKnown == Spec => []PeerKnown
<1>1. IInv => PeerKnown
  BY DEF IInv, PeerKnown, Placed, PastLookup, Requesting, Storing
<1> QED BY <1>1, Invariance, PTL
=============================================================================

--------------------------- MODULE TestbedRequests ---------------------------
(***************************************************************************)
(* How a client of the testbed keeps blocks coming                         *)
(* (codetorrent-testbed/main.cpp).  There is no thread that asks; each     *)
(* block stored asks its sender for the next, and what a peer gossips      *)
(* makes update_neighbors ask again when the chain seems broken: the peer  *)
(* was silent for 10 s, a request is older than 5 s, or release[] is full. *)
(*                                                                         *)
(* One client and the peers it hears.  Only generation 0 is asked for; the *)
(* file has no other.  Threads that handle gossip and packets share        *)
(* ct_neighbors without a lock; send_request leaves the whole thread when  *)
(* it cannot connect.  The blocks themselves, busy and ct_coded_blocks are *)
(* module TestbedCache's, the race for ct module Node's.  What is only     *)
(* printed (request_seq, send_request_time) is left out.                   *)
(***************************************************************************)
EXTENDS Integers, Sequences, FiniteSets

CONSTANTS
    Peers, Seeds,       \* the nodes in reach, and those of them that have the file
    num_blocks_gen,     \* of generation 0
    MaxRelease,         \* what release[] counts up to: 100000 in the code
    GossipThreads,      \* the client's threads for gossip at a time,
    PacketThreads       \* and for packets

ASSUME PeersAssumption == Seeds \subseteq Peers
ASSUME SizesAssumption == num_blocks_gen \in Nat \ {0} /\ MaxRelease \in Nat
ASSUME ThreadsAssumption == GossipThreads \cap PacketThreads = {} /\ IsFiniteSet(PacketThreads)

VARIABLES
    pc, job,            \* per thread: where it is, and what it works on
    ct,                 \* whether the client has its CodeTorrent object
    rank_vec,           \* rank_vec[0]
    ct_neighbors,       \* the table, with the count release[] keeps for each place in it
    packets,            \* sent and not yet accepted
    unhelpful_counter,  \* blocks found unhelpful, until a thread sees it above 0
    fault               \* what ended the process, "none" while it runs

threads == <<pc, job>>
vars == <<threads, ct, rank_vec, ct_neighbors, packets, unhelpful_counter, fault>>

\* re_timestamp: its seq, 1 for "request sent" and 0 for "received", and whether in the
\* first case it is more than 5 s old.
Timestamps == {"sent", "overdue", "received"}
Neighbors ==
    [address : Peers, helpful : BOOLEAN, re_timestamp : Timestamps, release : 0..MaxRelease]

\* One of each type and peer is on its way at a time: of two, one counts as lost.
Requests == {"file info request", "data request"}
Answers == {"CT_FILEINFO", "CT_DATA"}
Packets == [type : Requests \cup Answers, peer : Peers]

NoJob == [type |-> "none"]
Jobs ==
    [type : Answers \cup {"CT_GOSSIP"}, peer : Peers, then : {"none", "helpful", "return", "received"}]
    \cup {NoJob}

Threads == GossipThreads \cup PacketThreads
Complete == rank_vec = num_blocks_gen

-----------------------------------------------------------------------------
At(t, label) == pc' = [pc EXCEPT ![t] = label]
Goto(t, label) == At(t, label) /\ UNCHANGED job
Exit(t) == At(t, "exited") /\ job' = [job EXCEPT ![t] = NoJob]
Begin(t, label, type, peer) ==
    /\ pc[t] = "exited"
    /\ At(t, label)
    /\ job' = [job EXCEPT ![t] = [type |-> type, peer |-> peer, then |-> "none"]]

\* send_request, to come back to a label.
Call(t, then) == At(t, "send_request") /\ job' = [job EXCEPT ![t].then = then]

\* The end of update_neighbors: a thread with a block goes on to store_block.
Return(t) == IF job[t].type = "CT_DATA" THEN Goto(t, "store_block") ELSE Exit(t)

ReturnTo(t, then) == IF then = "return" THEN Return(t) ELSE Goto(t, then)

Packet(type, peer) == [type |-> type, peer |-> peer]
Send(type, peer) == packets' = packets \cup {Packet(type, peer)}

Entries(p) == {i \in DOMAIN ct_neighbors : ct_neighbors[i].address = p}
First(S) == CHOOSE i \in S : \A j \in S : i <= j

-----------------------------------------------------------------------------
(* Gossip and the file info                                                *)

ListenGossip(t, p) ==
    /\ Begin(t, "receive_gossip", "CT_GOSSIP", p)
    /\ UNCHANGED <<ct, rank_vec, ct_neighbors, packets, unhelpful_counter, fault>>

\* Or it cannot connect.
SendFileInfoRequest(p) == Send("file info request", p) \/ UNCHANGED packets

ReceiveGossip(t) ==
    /\ pc[t] = "receive_gossip"
    /\ \/ ct /\ Goto(t, "update_neighbors") /\ UNCHANGED packets
       \/ ~ct /\ Exit(t) /\ SendFileInfoRequest(job[t].peer)
    /\ UNCHANGED <<ct, rank_vec, ct_neighbors, unhelpful_counter, fault>>

IncomingFileInfo(t) ==
    /\ pc[t] = "CT_FILEINFO"
    /\ IF ct THEN Exit(t) ELSE Goto(t, "update_neighbors")
    /\ ct' = TRUE
    /\ UNCHANGED <<rank_vec, ct_neighbors, packets, unhelpful_counter, fault>>

-----------------------------------------------------------------------------
(* update_neighbors                                                        *)

\* release[count]++, and a test whether it is above its limit.  (Mutants: it never
\* is; it is tested first.)
Released_Never(e) == [e EXCEPT !.release = 0]
Released_First(e) ==
    IF e.release > MaxRelease
    THEN [e EXCEPT !.release = 1, !.helpful = FALSE]
    ELSE [e EXCEPT !.release = @ + 1]
Released(e) ==
    IF e.release = MaxRelease
    THEN [e EXCEPT !.release = 0, !.helpful = FALSE]
    ELSE [e EXCEPT !.release = @ + 1]

\* The request has been without an answer for 5 s.
TimedOut(e) == [e EXCEPT !.helpful = @ /\ e.re_timestamp # "overdue"]

UpdateNeighbors(t) ==
    LET known == Entries(job[t].peer)
        e == TimedOut(Released(ct_neighbors[First(known)]))
    IN  /\ pc[t] = "update_neighbors"
        /\ IF known = {}
           THEN Goto(t, "push_back") /\ UNCHANGED ct_neighbors
           ELSE /\ ct_neighbors' = [ct_neighbors EXCEPT ![First(known)] = e]
                /\ IF e.helpful THEN Goto(t, "helpful") ELSE Call(t, "helpful")
        /\ UNCHANGED <<ct, rank_vec, packets, unhelpful_counter, fault>>

\* The end of the loop's body, also for an entry found unhelpful meanwhile.
SetHelpful(t) ==
    /\ pc[t] = "helpful"
    /\ ct_neighbors' = [ct_neighbors EXCEPT ![First(Entries(job[t].peer))].helpful = TRUE]
    /\ Return(t)
    /\ UNCHANGED <<ct, rank_vec, packets, unhelpful_counter, fault>>

\* re_timestamp of the new entry is not initialised.
NewNeighbor(p, timestamp) ==
    [address |-> p, helpful |-> TRUE, re_timestamp |-> timestamp, release |-> 0]

\* Two threads may push an entry for one address.  The second is never found.
Pushed(e) == IF Entries(e.address) = {} THEN Append(ct_neighbors, e) ELSE ct_neighbors

\* Those who will use their iterator again: in update_neighbors, or in a
\* send_request called there.
HoldsIterator(t) ==
    \/ pc[t] = "helpful"
    \/ pc[t] \in {"send_request", "connect", "sent"} /\ job[t].then = "helpful"

PushBack(t) ==
    /\ pc[t] = "push_back"
    /\ \/ /\ \E timestamp \in Timestamps :
                ct_neighbors' = Pushed(NewNeighbor(job[t].peer, timestamp))
          /\ Call(t, "return")
          /\ UNCHANGED fault
       \/ /\ \E u \in Threads \ {t} : HoldsIterator(u)
          /\ fault' = "freed neighbours"
          /\ UNCHANGED <<threads, ct_neighbors>>
    /\ UNCHANGED <<ct, rank_vec, packets, unhelpful_counter>>

-----------------------------------------------------------------------------
(* send_request                                                            *)

NothingToAsk == Complete

SendRequest(t) ==
    /\ pc[t] = "send_request"
    /\ IF NothingToAsk THEN ReturnTo(t, job[t].then) ELSE Goto(t, "connect")
    /\ UNCHANGED <<ct, rank_vec, ct_neighbors, packets, unhelpful_counter, fault>>

\* pthread_exit when it cannot connect: the caller's work is not done.
Connect(t) ==
    /\ pc[t] = "connect"
    /\ \/ Send("data request", job[t].peer) /\ Goto(t, "sent")
       \/ Exit(t) /\ UNCHANGED packets
    /\ UNCHANGED <<ct, rank_vec, ct_neighbors, unhelpful_counter, fault>>

SetTimestamp(p, timestamp) ==
    ct_neighbors' = [i \in DOMAIN ct_neighbors |->
        IF i \in Entries(p) THEN [ct_neighbors[i] EXCEPT !.re_timestamp = timestamp]
        ELSE ct_neighbors[i]]

Sent(t) ==
    /\ pc[t] = "sent"
    /\ SetTimestamp(job[t].peer, "sent")
    /\ ReturnTo(t, job[t].then)
    /\ UNCHANGED <<ct, rank_vec, packets, unhelpful_counter, fault>>

-----------------------------------------------------------------------------
(* Packets                                                                 *)

\* incoming_packet of a peer; one that has no block ignores requests.
Answered(p, request, answer) ==
    /\ Packet(request, p) \in packets
    /\ packets' = (packets \ {Packet(request, p)}) \cup {Packet(answer, p)}

SendFileInfo(p) == Answered(p, "file info request", "CT_FILEINFO")
SendCodedBlock(p) == Answered(p, "data request", "CT_DATA")

Serve(p) ==
    /\ SendFileInfo(p) \/ SendCodedBlock(p)
    /\ UNCHANGED <<threads, ct, rank_vec, ct_neighbors, unhelpful_counter, fault>>

\* A peer cannot connect to send its answer; listen_data waits 2.5 s, receives less
\* than the header says, or gets no thread.  (As well when a thread is free.)
Lose(q) ==
    /\ \E t \in PacketThreads : pc[t] = "exited"
    /\ packets' = packets \ {q}
    /\ UNCHANGED <<threads, ct, rank_vec, ct_neighbors, unhelpful_counter, fault>>

ListenData(t, q) ==
    /\ q \in packets /\ q.type \in Answers
    /\ packets' = packets \ {q}
    /\ Begin(t, q.type, q.type, q.peer)
    /\ UNCHANGED <<ct, rank_vec, ct_neighbors, unhelpful_counter, fault>>

IncomingData(t) ==
    /\ pc[t] = "CT_DATA"
    /\ IF ct THEN Goto(t, "update_neighbors") ELSE Exit(t)
    /\ UNCHANGED <<ct, rank_vec, ct_neighbors, packets, unhelpful_counter, fault>>

StoreBlock(t, innovative) ==
    /\ pc[t] = "store_block"
    /\ IF innovative /\ ~Complete
       THEN rank_vec' = rank_vec + 1 /\ UNCHANGED unhelpful_counter
       ELSE unhelpful_counter' = unhelpful_counter + 1 /\ UNCHANGED rank_vec
    /\ Goto(t, "unhelpful_counter")
    /\ UNCHANGED <<ct, ct_neighbors, packets, fault>>

\* A thread that sees an unhelpful block, its own or another thread's, sleeps for
\* 10 s and sends no request.
SleepOrRequest(t) ==
    /\ pc[t] = "unhelpful_counter"
    /\ unhelpful_counter' = 0
    /\ IF unhelpful_counter >= 1 THEN Goto(t, "received") ELSE Call(t, "received")
    /\ UNCHANGED <<ct, rank_vec, ct_neighbors, packets, fault>>

\* re_timestamp.seq = 0, which store_block's send_request has just set to 1.
Received(t) ==
    /\ pc[t] = "received"
    /\ SetTimestamp(job[t].peer, "received")
    /\ Exit(t)
    /\ UNCHANGED <<ct, rank_vec, packets, unhelpful_counter, fault>>

-----------------------------------------------------------------------------
(* Time                                                                    *)

\* check_neighbors, which periodic_request and update_neighbors call all the time,
\* finds that a neighbour has been silent for 10 s.
CheckNeighbors(i) ==
    /\ ct_neighbors' = [ct_neighbors EXCEPT ![i].helpful = FALSE]
    /\ UNCHANGED <<threads, ct, rank_vec, packets, unhelpful_counter, fault>>

\* Five seconds have passed since the last request to a neighbour.
Overdue(i) ==
    /\ ct_neighbors[i].re_timestamp = "sent"
    /\ ct_neighbors' = [ct_neighbors EXCEPT ![i].re_timestamp = "overdue"]
    /\ UNCHANGED <<threads, ct, rank_vec, packets, unhelpful_counter, fault>>

-----------------------------------------------------------------------------
Init ==
    /\ pc = [t \in Threads |-> "exited"] /\ job = [t \in Threads |-> NoJob]
    /\ ct = FALSE /\ rank_vec = 0
    /\ ct_neighbors = <<>>
    /\ packets = {} /\ unhelpful_counter = 0
    /\ fault = "none"

Step(t) ==
    \/ ReceiveGossip(t) \/ IncomingFileInfo(t)
    \/ UpdateNeighbors(t) \/ SetHelpful(t) \/ PushBack(t)
    \/ SendRequest(t) \/ Connect(t) \/ Sent(t)
    \/ IncomingData(t) \/ (\E innovative \in BOOLEAN : StoreBlock(t, innovative))
    \/ SleepOrRequest(t) \/ Received(t)

Runs == fault = "none"
Hear(p) == Runs /\ \E t \in GossipThreads : ListenGossip(t, p)
Answer(p) == Runs /\ Serve(p)
Arrive(q) == Runs /\ \E t \in PacketThreads : ListenData(t, q)

Next ==
    \/ \E p \in Peers : Hear(p) \/ Answer(p)
    \/ \E q \in packets : Arrive(q) \/ (Runs /\ Lose(q))
    \/ \E t \in Threads : Runs /\ Step(t)
    \/ Runs /\ \E i \in DOMAIN ct_neighbors : CheckNeighbors(i) \/ Overdue(i)

\* A connection to p succeeds, for a thread of the given kind.
Connects(type, p) ==
    /\ Runs
    /\ \E t \in Threads :
          Connect(t) /\ job[t].type = type /\ job[t].peer = p /\ pc'[t] = "sent"

\* Threads are scheduled.  Of what is tried again and again, one try succeeds in the
\* end: a seed is heard, connects and is connected to, a packet is received, a block
\* is innovative.  No timer need ever run out.
Fairness ==
    /\ \A t \in Threads : WF_vars(Runs /\ Step(t))
    /\ SF_vars(Runs /\ \E t \in PacketThreads : StoreBlock(t, TRUE) /\ rank_vec' # rank_vec)
    /\ \A p \in Seeds :
          /\ SF_vars(Hear(p))
          /\ SF_vars(/\ Runs /\ \E t \in GossipThreads : ReceiveGossip(t) /\ job[t].peer = p
                     /\ packets' # packets)
          /\ SF_vars(Connects("CT_GOSSIP", p)) /\ SF_vars(Connects("CT_DATA", p))
          /\ SF_vars(Answer(p))
          /\ \A type \in Answers : SF_vars(Arrive(Packet(type, p)))

Spec == Init /\ [][Next]_vars /\ Fairness

-----------------------------------------------------------------------------
\* The variables range over what the comments say.
TypeOK ==
    /\ pc \in [Threads -> {"exited", "receive_gossip", "update_neighbors", "helpful", "push_back",
                           "send_request", "connect", "sent", "store_block", "unhelpful_counter",
                           "received"}
                          \cup Answers]
    /\ job \in [Threads -> Jobs]
    /\ ct \in BOOLEAN /\ rank_vec \in 0..num_blocks_gen
    /\ ct_neighbors \in Seq(Neighbors)
    /\ packets \subseteq Packets
    /\ unhelpful_counter \in 0..Cardinality(PacketThreads)
    /\ fault \in {"none", "freed neighbours"}

\* A client in reach of a seed gets the generation and then asks nobody any more,
\* although the threads that would ask for the next block may leave early, packets
\* may be lost, a block may be unhelpful, and re_timestamp may say "received" of a
\* request that is lost: release[] is what the chain of requests can rely on
\* (main.cpp:1249-1258, 331-338, 541-547, 1309, 1349-1354).
Completes == <>[](~Runs \/ (Complete /\ \A q \in packets : q.type \notin Requests))
=============================================================================

---------------------------- MODULE SwarmProofs ----------------------------
(***************************************************************************)
(* Gossip and requests, for every file and any number of nodes and threads *)
(* and whatever fails: the types, that a block is asked for only where one *)
(* was announced, that the generation asked for is one with the fewest     *)
(* blocks, and that only seeds are ever asked.                             *)
(*                                                                         *)
(* The table of a running client only learns: no pass over it removes an   *)
(* entry or a generation from one.  So what a thread read there still      *)
(* holds when it connects, whatever the others did meanwhile.              *)
(***************************************************************************)
EXTENDS Swarm, LayoutProofs, SequenceTheorems, TLAPS

-----------------------------------------------------------------------------
\* n has told c that it has blocks of generation g.
Told(c, n, g) == \E i \in Entries(c, n) : g \in ct_neighbors[c][i].gen_vector

Labels ==
    {"exited", "receive_gossip", "CT_FILEINFO", "CT_DATA", "store_block", "connect"} \cup Iterating

\* What a thread works on where it is.
Fits(label, j) ==
    /\ label \in {"receive_gossip", "CT_FILEINFO", "CT_DATA", "update_neighbors", "timestamp",
                  "push_back", "store_block"} => j.node \in Seeds /\ j.gen \in Gens
    /\ label \in {"time out", "choose gen", "choose address", "connect"} => j.type = "CT_REQUEST"
    /\ label = "connect" => j.node \in Seeds

Working(c, t) == Fits(pc[c][t], job[c][t])

Connecting(c, t) ==
    pc[c][t] = "connect" /\ job[c][t].gen \in Gens => Told(c, job[c][t].node, job[c][t].gen)

\* Clients ask seeds, and seeds answer.
Route(p) ==
    IF p.type = "CT_REQUEST" THEN p.from \in Clients /\ p.to \in Seeds
    ELSE p.from \in Seeds /\ p.to \in Clients

Ranks(ranks) == ranks \in [Gens -> Nat] /\ \A g \in Gens : ranks[g] <= num_blocks_gen[g]

IInv ==
    /\ TypeOK
    /\ DOMAIN rank_vec = Clients /\ \A c \in Clients : Ranks(rank_vec[c])
    /\ \A c \in Clients : \A t \in Threads : Working(c, t) /\ Connecting(c, t)
    /\ \A c \in Clients : \A i \in DOMAIN ct_neighbors[c] : ct_neighbors[c][i].address \in Seeds
    /\ \A p \in packets : Route(p)
    /\ RequestsWereAnnounced

-----------------------------------------------------------------------------
(* The constants, and the operators of the model                           *)

LEMMA SwarmFacts ==
    /\ num_gens \in Nat \ {0} /\ Gens = 0..num_gens - 1
    /\ DOMAIN num_blocks_gen = Gens /\ \A g \in Gens : num_blocks_gen[g] \in Nat
    /\ per_gen \in Nat /\ num_blocks_gen[0] \in Nat
    /\ \A g \in Gens : num_blocks_gen[g] <= per_gen /\ (g # num_gens - 1 => num_blocks_gen[g] = per_gen)
    /\ FileInfo \notin Gens /\ Unset \notin Gens /\ FileInfo # Unset
    /\ \A c \in Clients : c \notin Seeds /\ c \in Nodes
    /\ \A n \in Seeds : n \in Nodes
    /\ \A n \in Nodes : n \in Seeds \/ n \in Clients
<1>1. num_blocks \in Nat \ {0} /\ per_gen \in Nat \ {0}
  BY SwarmLayoutAssumption
<1>2. num_gens \in Nat \ {0}
  BY <1>1, GenerationCount DEF num_gens
<1>3. Gens = 0..num_gens - 1 /\ FileInfo \notin Gens /\ Unset \notin Gens /\ FileInfo # Unset
  BY <1>2 DEF Gens, FileInfo, Unset
<1>4. /\ DOMAIN num_blocks_gen = Gens /\ 0 \in Gens
      /\ \A g \in Gens : num_blocks_gen[g] \in 1..per_gen
  BY <1>1, <1>3, GenerationSizes DEF num_blocks_gen, num_gens
<1>5. ASSUME NEW g \in Gens, g # num_gens - 1 PROVE num_blocks_gen[g] = per_gen
  <2>1. g < num_gens - 1
    BY <1>2, <1>3, <1>5
  <2> QED BY <1>3, <2>1 DEF num_blocks_gen, NumBlocksGen, num_gens, Gens
<1>6. \A g \in Gens : num_blocks_gen[g] \in Nat /\ num_blocks_gen[g] <= per_gen
  BY <1>1, <1>4
<1>7. num_blocks_gen[0] \in Nat
  BY <1>4, <1>6
<1> QED BY <1>1, <1>2, <1>3, <1>4, <1>5, <1>6, <1>7, SwarmNodesAssumption DEF Nodes

\* Of some generations, the last of those with the fewest blocks.
LEMMA LeastRank ==
    ASSUME NEW S \in SUBSET Gens, S # {}, NEW ranks, \A g \in S : ranks[g] \in Nat
    PROVE  \E g \in S : \A h \in S \ {g} : ranks[g] < ranks[h] \/ (ranks[g] = ranks[h] /\ g > h)
<1> DEFINE R == {ranks[g] : g \in S}
<1>1. PICK m \in R : \A k \in R : m <= k
  <2>1. R \in SUBSET Nat /\ R # {}
    OBVIOUS
  <2> HIDE DEF R
  <2> QED BY <2>1, Least
<1> DEFINE L == {g \in S : ranks[g] = m}
           D == {num_gens - g : g \in L}
<1>2. \A g \in S : g \in Nat /\ num_gens - g \in Nat /\ num_gens \in Nat
  BY SwarmFacts
<1>3. PICK d \in D : \A k \in D : d <= k
  <2>1. D \in SUBSET Nat
    BY <1>2
  <2>2. D # {}
    <3>1. \E g \in S : ranks[g] = m
      OBVIOUS
    <3> QED BY <3>1
  <2> HIDE DEF D
  <2> QED BY <2>1, <2>2, Least
<1>4. PICK g \in L : d = num_gens - g
  OBVIOUS
<1>5. ASSUME NEW h \in S \ {g} PROVE ranks[g] < ranks[h] \/ (ranks[g] = ranks[h] /\ g > h)
  <2>1. ranks[g] = m /\ ranks[h] \in Nat /\ m \in Nat /\ m <= ranks[h]
    BY <1>1
  <2>2. CASE ranks[h] = m
    <3>1. num_gens - g <= num_gens - h
      BY <1>3, <1>4, <2>2
    <3>2. g \in Nat /\ h \in Nat /\ num_gens \in Nat /\ g # h
      BY <1>2, <1>5
    <3>3. g > h
      BY <3>1, <3>2
    <3> QED BY <2>1, <2>2, <3>3
  <2>3. CASE ranks[h] # m
    BY <2>1, <2>3
  <2> QED BY <2>2, <2>3
<1> QED BY <1>4, <1>5

\* Any function from the places of a sequence is a sequence.
LEMMA SamePlaces ==
    ASSUME NEW S, NEW q \in Seq(S), NEW r, r \in [DOMAIN q -> S]
    PROVE  r \in Seq(S)
<1>1. Len(q) \in Nat /\ DOMAIN q = 1..Len(q)
  BY LenProperties
<1> QED BY <1>1, SeqDef

\* The table q may become r.
Learns(q, r) ==
    /\ r \in Seq(Neighbors)
    /\ \A i \in DOMAIN q : /\ i \in DOMAIN r /\ r[i].address = q[i].address
                           /\ q[i].gen_vector \subseteq r[i].gen_vector
    /\ \A i \in DOMAIN r : i \in DOMAIN q \/ r[i].address \in Seeds

LEMMA LearnsSame ==
    ASSUME NEW q \in Seq(Neighbors) PROVE Learns(q, q)
BY DEF Learns

\* One entry changes, or none if i is no place of q.
LEMMA LearnsOne ==
    ASSUME NEW q \in Seq(Neighbors), NEW i, NEW e,
           i \in DOMAIN q => /\ e \in Neighbors /\ e.address = q[i].address
                             /\ q[i].gen_vector \subseteq e.gen_vector
    PROVE  Learns(q, [q EXCEPT ![i] = e])
<1> DEFINE r == [q EXCEPT ![i] = e]
<1>1. Len(q) \in Nat /\ DOMAIN q = 1..Len(q) /\ q \in [DOMAIN q -> Neighbors]
  BY LenProperties
<1>2. r \in [DOMAIN q -> Neighbors] /\ DOMAIN r = DOMAIN q
  BY <1>1
<1>3. r \in Seq(Neighbors)
  BY <1>2, SamePlaces
<1>4. \A k \in DOMAIN q : r[k] = IF k = i THEN e ELSE q[k]
  OBVIOUS
<1> HIDE DEF r
<1>5. Learns(q, r)
  BY <1>2, <1>3, <1>4 DEF Learns
<1> QED BY <1>5 DEF r

\* Every entry changes.
LEMMA LearnsAll ==
    ASSUME NEW q \in Seq(Neighbors), NEW r, r \in [DOMAIN q -> Neighbors],
           \A i \in DOMAIN q : r[i].address = q[i].address /\ r[i].gen_vector = q[i].gen_vector
    PROVE  Learns(q, r)
<1>1. r \in Seq(Neighbors) /\ DOMAIN r = DOMAIN q
  BY SamePlaces
<1> QED BY <1>1 DEF Learns

\* An entry is added.
LEMMA LearnsNew ==
    ASSUME NEW q \in Seq(Neighbors), NEW e \in Neighbors, e.address \in Seeds
    PROVE  Learns(q, Append(q, e))
<1> DEFINE r == Append(q, e)
<1>1. r \in Seq(Neighbors) /\ Len(r) = Len(q) + 1 /\ \A i \in 1..Len(q) : r[i] = q[i]
  BY AppendProperties
<1>2. Len(q) \in Nat /\ DOMAIN q = 1..Len(q) /\ DOMAIN r = 1..Len(r)
  BY <1>1, LenProperties
<1>3. r[Len(q) + 1] = e
  BY AppendProperties
<1>4. 1..Len(q) + 1 = 1..Len(q) \cup {Len(q) + 1}
  BY <1>2
<1> HIDE DEF r
<1>5. Learns(q, r)
  BY <1>1, <1>2, <1>3, <1>4 DEF Learns
<1> QED BY <1>5 DEF r

-----------------------------------------------------------------------------
(* Who acts, and what a fault does                                         *)

ThreadActs(c, t) ==
    \/ \E n \in Nodes, g \in Gens : ListenGossip(c, t, n, g)
    \/ PeriodicRequest(c, t)
    \/ \E p \in packets : Accept(c, t, p)
    \/ Step(c, t)

Acts ==
    \/ \E c \in Clients, t \in Threads : Runs(c) /\ ThreadActs(c, t)
    \/ \E c \in Clients : Runs(c) /\ RunOutOfThreads(c)
    \/ \E c \in Clients : Runs(c) /\ \E i \in DOMAIN ct_neighbors[c] : Silence(c, i)
    \/ \E n \in Nodes : Runs(n) /\ \E p \in packets : Serve(n, p)

LEMMA WhoActs ==
    ASSUME Next PROVE Acts
<1>1. UpdateThreads \subseteq Threads /\ RequestThreads \subseteq Threads
  BY DEF Threads
<1>2. ASSUME NEW c \in Clients, NEW n \in Nodes, NEW g \in Gens, Hear(c, n, g) PROVE Acts
  BY <1>1, <1>2 DEF Hear, Acts, ThreadActs
<1>3. ASSUME NEW c \in Clients, StartRequest(c) PROVE Acts
  BY <1>1, <1>3 DEF StartRequest, Acts, ThreadActs
<1>4. ASSUME NEW c \in Clients, NEW t \in Threads, Run(c, t) PROVE Acts
  BY <1>4 DEF Run, Acts, ThreadActs
<1>5. ASSUME NEW n \in Nodes, NEW p \in packets, Handle(n, p) PROVE Acts
  BY <1>1, <1>5 DEF Handle, Acts, ThreadActs
<1>6. ASSUME NEW c \in Clients, Runs(c) /\ RunOutOfThreads(c) PROVE Acts
  BY <1>6 DEF Acts
<1>7. ASSUME NEW c \in Clients, Runs(c) /\ \E i \in DOMAIN ct_neighbors[c] : Silence(c, i) PROVE Acts
  BY <1>7 DEF Acts
<1> QED BY <1>2, <1>3, <1>4, <1>5, <1>6, <1>7 DEF Next

\* The faults of the program, of which none leaves fault as it was.
LEMMA FaultShows ==
    ASSUME TypeOK, NEW n \in Nodes, Runs(n), NEW cause, cause # "none", Fault(n, cause)
    PROVE  fault' # fault /\ ~Runs(n)'
<1>1. fault'[n] = cause
  BY DEF TypeOK, Fault
<1> QED BY <1>1 DEF Runs

Causes == {"SIGPIPE", "freed neighbours", "main returned", "unset request_gen"}

\* An unset request_gen ends the client that has no generation to choose, or the
\* node that is asked for it.
Dies(n) ==
    \E cause \in Causes :
        /\ Fault(n, cause) /\ packets' \subseteq packets
        /\ cause = "unset request_gen" =>
              Has(n) = {} \/ \E p \in packets : p.to = n /\ p.type = "CT_REQUEST"

LEMMA Deaths ==
    ASSUME Acts, fault' # fault
    PROVE  \E n \in Nodes : Runs(n) /\ Dies(n)
<1>1. ASSUME NEW c \in Clients, NEW t \in Threads, Runs(c), ThreadActs(c, t)
      PROVE  Dies(c)
  <2>1. ~ \E n \in Nodes, g \in Gens : ListenGossip(c, t, n, g)
    BY DEF ListenGossip
  <2>2. ~PeriodicRequest(c, t)
    BY DEF PeriodicRequest
  <2>3. ASSUME NEW p \in packets, Accept(c, t, p) PROVE Dies(c)
    <3>1. Fault(c, "main returned") /\ packets' \subseteq packets
      BY <2>3 DEF Accept
    <3> QED BY <3>1 DEF Dies, Causes
  <2>4. CASE ReceiveGossip(c, t)
    <3>1. Fault(c, "SIGPIPE") /\ UNCHANGED packets
      BY <2>4 DEF ReceiveGossip, SendFileInfoRequest
    <3> QED BY <3>1 DEF Dies, Causes
  <2>5. CASE PushBack(c, t)
    <3>1. Fault(c, "freed neighbours") /\ UNCHANGED packets
      BY <2>5 DEF PushBack
    <3> QED BY <3>1 DEF Dies, Causes
  <2>6. CASE ChooseGen(c, t)
    <3>1. Fault(c, "unset request_gen") /\ UNCHANGED packets /\ Has(c) = {}
      BY <2>6 DEF ChooseGen
    <3> QED BY <3>1 DEF Dies, Causes
  <2>7. ~(UpdateNeighbors(c, t) \/ Timestamp(c, t) \/ TimeOut(c, t) \/ ChooseAddress(c, t)
           \/ Connect(c, t) \/ IncomingFileInfo(c, t) \/ IncomingData(c, t)
           \/ \E innovative \in BOOLEAN : StoreBlock(c, t, innovative))
    BY DEF UpdateNeighbors, Timestamp, TimeOut, ChooseAddress, Connect, IncomingFileInfo,
           IncomingData, StoreBlock
  <2> QED BY <1>1, <2>1, <2>2, <2>3, <2>4, <2>5, <2>6, <2>7 DEF ThreadActs, Step
<1>2. ASSUME NEW n \in Nodes, NEW p \in packets, Serve(n, p)
      PROVE  Dies(n)
  <2>1. /\ \E cause \in {"unset request_gen", "SIGPIPE"} : Fault(n, cause) /\ packets' \subseteq packets
        /\ p.to = n /\ p.type = "CT_REQUEST"
    BY <1>2 DEF Serve
  <2> QED BY <2>1 DEF Dies, Causes
<1>3. \A c \in Clients : ~RunOutOfThreads(c) /\ \A i \in DOMAIN ct_neighbors[c] : ~Silence(c, i)
  BY DEF RunOutOfThreads, Silence
<1> QED BY <1>1, <1>2, <1>3, SwarmFacts DEF Acts

\* A process that has ended leaves nothing to break the invariant.
LEMMA DeathStep ==
    ASSUME IInv, NEW n \in Nodes, Runs(n), Dies(n)
    PROVE  IInv'
<1>1. PICK cause : cause # "none" /\ Fault(n, cause) /\ packets' \subseteq packets
  BY DEF Dies, Causes
<1>2. TypeOK /\ ~Runs(n)' /\ \A m \in Nodes \ {n} : Runs(m)' = Runs(m)
  <2>1. ~Runs(n)'
    BY <1>1, FaultShows DEF IInv
  <2> QED BY <1>1, <2>1 DEF IInv, Fault, TypeOK, Runs
<1>3. ASSUME NEW c \in Clients
      PROVE  /\ c = n => /\ pc'[c] = [t \in Threads |-> "exited"]
                         /\ job'[c] = [t \in Threads |-> NoJob]
                         /\ rank_vec'[c] = [g \in Gens |-> 0]
                         /\ ct_neighbors'[c] = <<>>
                         /\ helpful_neighbors'[c] = FALSE /\ exhausted'[c] = FALSE
             /\ c # n => /\ pc'[c] = pc[c] /\ job'[c] = job[c] /\ rank_vec'[c] = rank_vec[c]
                         /\ ct_neighbors'[c] = ct_neighbors[c]
                         /\ helpful_neighbors'[c] = helpful_neighbors[c]
                         /\ exhausted'[c] = exhausted[c]
  BY <1>1 DEF Fault, Reset, IInv, TypeOK
<1>4. /\ DOMAIN pc' = Clients /\ DOMAIN job' = Clients /\ DOMAIN rank_vec' = Clients
      /\ DOMAIN ct_neighbors' = Clients /\ DOMAIN helpful_neighbors' = Clients
      /\ DOMAIN exhausted' = Clients
      /\ pc' = [c \in Clients |-> pc'[c]] /\ job' = [c \in Clients |-> job'[c]]
      /\ ct_neighbors' = [c \in Clients |-> ct_neighbors'[c]]
      /\ helpful_neighbors' = [c \in Clients |-> helpful_neighbors'[c]]
      /\ exhausted' = [c \in Clients |-> exhausted'[c]]
  BY <1>1 DEF Fault, Reset, IInv, TypeOK
<1>5. ASSUME NEW c \in Clients
      PROVE  /\ pc'[c] \in [Threads -> Labels] /\ job'[c] \in [Threads -> Jobs]
             /\ ct_neighbors'[c] \in Seq(Neighbors)
             /\ helpful_neighbors'[c] \in BOOLEAN /\ exhausted'[c] \in BOOLEAN
             /\ Ranks(rank_vec'[c])
             /\ \A i \in DOMAIN ct_neighbors'[c] : ct_neighbors'[c][i].address \in Seeds
             /\ \A t \in Threads : Working(c, t)' /\ Connecting(c, t)'
  <2>1. CASE c = n
    <3>1. pc'[c] \in [Threads -> Labels] /\ job'[c] \in [Threads -> Jobs]
      BY <1>3, <2>1 DEF Labels, Jobs
    <3>2. ct_neighbors'[c] \in Seq(Neighbors) /\ DOMAIN ct_neighbors'[c] = {}
      <4>1. ct_neighbors'[c] = <<>>
        BY <1>3, <2>1
      <4>2. <<>> \in Seq(Neighbors)
        BY EmptySeq
      <4>3. DOMAIN <<>> = {}
        OBVIOUS
      <4> QED BY <4>1, <4>2, <4>3, Zenon
    <3>3. Ranks(rank_vec'[c])
      <4>1. \A g \in Gens : 0 <= num_blocks_gen[g]
        BY SwarmFacts
      <4>2. Ranks([g \in Gens |-> 0])
        BY <4>1 DEF Ranks
      <4> QED BY <1>3, <2>1, <4>2
    <3>4. \A t \in Threads : Working(c, t)' /\ Connecting(c, t)'
      BY <1>3, <2>1 DEF Working, Fits, Connecting
    <3> QED BY <1>3, <2>1, <3>1, <3>2, <3>3, <3>4
  <2>2. CASE c # n
    <3>1. /\ pc[c] \in [Threads -> Labels] /\ job[c] \in [Threads -> Jobs]
          /\ ct_neighbors[c] \in Seq(Neighbors)
      BY <1>2 DEF TypeOK, Labels
    <3>2. helpful_neighbors[c] \in BOOLEAN /\ exhausted[c] \in BOOLEAN
      BY <1>2, Zenon DEF TypeOK
    <3>3. \A t \in Threads : Working(c, t)' /\ Connecting(c, t)'
      BY <1>3, <2>2 DEF IInv, Working, Connecting, Told, Entries
    <3> QED BY <1>3, <2>2, <3>1, <3>2, <3>3 DEF IInv
  <2> QED BY <2>1, <2>2
<1>6. ct' \in [Nodes -> BOOLEAN] /\ server_mode' \in [Nodes -> BOOLEAN]
  BY <1>1, <1>2 DEF Fault, Reset, TypeOK
<1>7. packets' \subseteq Packets /\ DOMAIN fault' = Nodes
  BY <1>1, <1>2 DEF Fault, TypeOK
<1>8. \A c \in Clients : \A g \in Gens : rank_vec'[c][g] \in 0..num_blocks_gen[g]
  BY <1>5, SwarmFacts DEF Ranks
<1>9. TypeOK'
  <2>1. /\ pc' \in [Clients -> [Threads -> Labels]] /\ job' \in [Clients -> [Threads -> Jobs]]
        /\ ct_neighbors' \in [Clients -> Seq(Neighbors)]
    BY <1>4, <1>5
  <2>2. helpful_neighbors' \in [Clients -> BOOLEAN] /\ exhausted' \in [Clients -> BOOLEAN]
    BY <1>4, <1>5, Zenon
  <2> QED BY <1>6, <1>7, <1>8, <2>1, <2>2 DEF TypeOK, Labels
<1>10. RequestsWereAnnounced'
  <2> SUFFICES ASSUME NEW p \in packets',
                      NEW c \in Clients, c = IF p.type = "CT_REQUEST" THEN p.from ELSE p.to,
                      NEW m, m = IF p.type = "CT_REQUEST" THEN p.to ELSE p.from,
                      Runs(c)', p.gen \in Gens, p.type # "CT_FILEINFO"
               PROVE  Told(c, m, p.gen)'
    BY <1>1 DEF RequestsWereAnnounced, Told, IInv, Route
  <2>1. c # n /\ Runs(c)
    BY <1>2, SwarmFacts
  <2>2. Told(c, m, p.gen)
    BY <1>1, <2>1 DEF IInv, RequestsWereAnnounced, Told
  <2> QED BY <1>3, <2>1, <2>2 DEF Told, Entries
<1> QED BY <1>1, <1>4, <1>5, <1>9, <1>10 DEF IInv

-----------------------------------------------------------------------------
(* Where a thread goes, and what it works on there                         *)

Moves(c, t, label, j) ==
    /\ label \in Labels /\ j \in Jobs /\ Fits(label, j)
    /\ pc' = [pc EXCEPT ![c][t] = label] /\ job' = [job EXCEPT ![c][t] = j]
    /\ label = "connect" /\ j.gen \in Gens => Told(c, j.node, j.gen)

Moving(c, t) == \E label \in Labels, j \in Jobs : Moves(c, t, label, j)

LEMMA MovesByGoto ==
    ASSUME TypeOK, NEW c \in Clients, NEW t \in Threads,
           NEW label \in Labels, label # "connect", Goto(c, t, label), Fits(label, job[c][t])
    PROVE  Moving(c, t)
<1>1. job = [job EXCEPT ![c][t] = job[c][t]] /\ job[c][t] \in Jobs
  BY DEF TypeOK
<1>2. Moves(c, t, label, job[c][t])
  BY <1>1 DEF Moves, Goto, At
<1> QED BY <1>1, <1>2 DEF Moving

LEMMA MovesByExit ==
    ASSUME NEW c \in Clients, NEW t \in Threads, Exit(c, t)
    PROVE  Moving(c, t)
<1>1. "exited" \in Labels /\ NoJob \in Jobs /\ Fits("exited", NoJob)
  BY DEF Labels, Jobs, Fits
<1>2. Moves(c, t, "exited", NoJob)
  BY <1>1 DEF Moves, Exit, At
<1> QED BY <1>1, <1>2 DEF Moving

LEMMA MovesByBegin ==
    ASSUME NEW c \in Clients, NEW t \in Threads, NEW label \in Labels, label # "connect",
           NEW j \in Jobs, Begin(c, t, label, j), Fits(label, j)
    PROVE  Moving(c, t)
<1>1. Moves(c, t, label, j)
  BY DEF Moves, Begin, At
<1> QED BY <1>1 DEF Moving

\* What jobs of type CT_REQUEST are.
LEMMA RequestJobs ==
    ASSUME NEW j \in Jobs, j.type = "CT_REQUEST"
    PROVE  j \in [type : {"CT_REQUEST"}, node : Nodes \cup {"none"}, gen : Gens \cup {Unset}]
<1>1. NoJob.type = "none" /\ \A k \in [type : {"CT_GOSSIP", "CT_FILEINFO", "CT_DATA"}, node : Nodes,
                                       gen : Gens] : k.type \in {"CT_GOSSIP", "CT_FILEINFO", "CT_DATA"}
  BY DEF NoJob
<1> QED BY <1>1 DEF Jobs

\* A request's job with another generation.
LEMMA RequestGenJobs ==
    ASSUME NEW j \in Jobs, j.type = "CT_REQUEST", NEW g \in Gens \cup {Unset}
    PROVE  /\ [j EXCEPT !.gen = g] \in Jobs /\ [j EXCEPT !.gen = g].type = "CT_REQUEST"
           /\ [j EXCEPT !.gen = g].gen = g
BY RequestJobs DEF Jobs

\* A request's job with another node.
LEMMA RequestNodeJobs ==
    ASSUME NEW j \in Jobs, j.type = "CT_REQUEST", NEW n \in Nodes
    PROVE  /\ [j EXCEPT !.node = n] \in Jobs /\ [j EXCEPT !.node = n].type = "CT_REQUEST"
           /\ [j EXCEPT !.node = n].node = n /\ [j EXCEPT !.node = n].gen = j.gen
BY RequestJobs DEF Jobs

LEMMA LabelFacts ==
    Labels = {"exited", "receive_gossip", "CT_FILEINFO", "CT_DATA", "store_block", "connect",
              "update_neighbors", "timestamp", "push_back", "time out", "choose gen",
              "choose address"}
BY DEF Labels, Iterating

\* What is in the table.
LEMMA TableFacts ==
    ASSUME IInv, NEW c \in Clients
    PROVE  /\ ct_neighbors[c] \in Seq(Neighbors)
           /\ \A i \in DOMAIN ct_neighbors[c] : /\ ct_neighbors[c][i] \in Neighbors
                                                /\ ct_neighbors[c][i].address \in Seeds
           /\ Announced(c) \subseteq Gens
           /\ \A g : \A n \in Addresses(c, g) : n \in Seeds /\ (g \in Gens => Told(c, n, g))
<1>1. ct_neighbors[c] \in Seq(Neighbors)
  BY DEF IInv, TypeOK
<1>2. \A i \in DOMAIN ct_neighbors[c] : ct_neighbors[c][i] \in Neighbors
  BY <1>1, LenProperties, ElementOfSeq
<1>3. \A i \in DOMAIN ct_neighbors[c] : ct_neighbors[c][i].address \in Seeds
  BY DEF IInv
<1>4. \A e \in HelpfulEntries(c) : e.gen_vector \subseteq Gens
  BY <1>2 DEF HelpfulEntries, Neighbors
<1>5. Announced(c) \subseteq Gens
  BY <1>4 DEF Announced
<1>6. ASSUME NEW g, NEW n \in Addresses(c, g)
      PROVE  n \in Seeds /\ (g \in Gens => Told(c, n, g))
  <2>1. PICK e \in HelpfulEntries(c) : (g = Unset \/ g \in e.gen_vector) /\ n = e.address
    BY DEF Addresses
  <2>2. PICK i \in DOMAIN ct_neighbors[c] : e = ct_neighbors[c][i]
    BY <2>1 DEF HelpfulEntries
  <2>3. g \in Gens => g \in e.gen_vector
    BY <2>1, SwarmFacts
  <2> QED BY <1>3, <2>1, <2>2, <2>3 DEF Told, Entries
<1> QED BY <1>1, <1>2, <1>3, <1>5, <1>6

LEMMA RankTypes ==
    ASSUME IInv, NEW c \in Clients, NEW g \in Gens
    PROVE  RankVec(c)[g] \in Nat /\ RankVec(c)[g] <= num_blocks_gen[g]
<1>1. rank_vec[c][g] \in Nat /\ rank_vec[c][g] <= num_blocks_gen[g]
  BY DEF IInv, Ranks
<1>2. num_blocks_gen[g] \in Nat
  BY SwarmFacts
<1> QED BY <1>1, <1>2 DEF RankVec

\* CHOOSE finds what request_gen stands for.
LEMMA RequestGenFacts ==
    ASSUME IInv, NEW c \in Clients, Has(c) # {}
    PROVE  /\ RequestGen(c) \in Has(c) /\ Has(c) \subseteq Gens
           /\ \A h \in Has(c) \ {RequestGen(c)} :
                 \/ RankVec(c)[RequestGen(c)] < RankVec(c)[h]
                 \/ RankVec(c)[RequestGen(c)] = RankVec(c)[h] /\ RequestGen(c) > h
<1>1. Has(c) \in SUBSET Gens
  BY TableFacts DEF Has
<1>2. \A g \in Has(c) : RankVec(c)[g] \in Nat
  BY <1>1, RankTypes
<1>3. \E g \in Has(c) : \A h \in Has(c) \ {g} :
         RankVec(c)[g] < RankVec(c)[h] \/ (RankVec(c)[g] = RankVec(c)[h] /\ g > h)
  <2> DEFINE ranks == RankVec(c)
  <2>1. \A g \in Has(c) : ranks[g] \in Nat
    BY <1>2
  <2> HIDE DEF ranks
  <2>2. \E g \in Has(c) : \A h \in Has(c) \ {g} : ranks[g] < ranks[h] \/ (ranks[g] = ranks[h] /\ g > h)
    BY <1>1, <2>1, LeastRank
  <2> QED BY <2>2 DEF ranks
<1> QED BY <1>1, <1>3 DEF RequestGen

LEMMA MovesStep ==
    ASSUME IInv, NEW c \in Clients, NEW t \in Threads, Runs(c), ThreadActs(c, t), fault' = fault
    PROVE  Moving(c, t)
<1>1. TypeOK /\ Fits(pc[c][t], job[c][t]) /\ job[c][t] \in Jobs /\ c \in Nodes
  BY SwarmFacts DEF IInv, Working, TypeOK
<1>2. \A cause : cause # "none" => ~Fault(c, cause)
  BY <1>1, FaultShows
<1> USE LabelFacts
<1>3. ASSUME NEW n \in Nodes, NEW g \in Gens, ListenGossip(c, t, n, g) PROVE Moving(c, t)
  <2> DEFINE j == [type |-> "CT_GOSSIP", node |-> n, gen |-> g]
  <2>1. n \in Seeds
    BY <1>3, SwarmFacts DEF ListenGossip, DropsGossip, nodeId
  <2>2. j \in Jobs /\ Fits("receive_gossip", j)
    BY <2>1 DEF Jobs, Fits
  <2>3. Begin(c, t, "receive_gossip", j)
    BY <1>3 DEF ListenGossip
  <2> QED BY <2>2, <2>3, MovesByBegin
<1>4. CASE PeriodicRequest(c, t)
  <2> DEFINE j == [type |-> "CT_REQUEST", node |-> "none", gen |-> Unset]
  <2>1. j \in Jobs /\ Fits("time out", j)
    BY DEF Jobs, Fits
  <2>2. Begin(c, t, "time out", j)
    BY <1>4 DEF PeriodicRequest
  <2> QED BY <2>1, <2>2, MovesByBegin
<1>5. ASSUME NEW p \in packets, Accept(c, t, p) PROVE Moving(c, t)
  <2> DEFINE j == [type |-> p.type, node |-> p.from, gen |-> p.gen]
  <2>1. p.type \in {"CT_FILEINFO", "CT_DATA"} /\ p.from \in Seeds /\ p.gen \in Gens
    <3>1. p \in Packets /\ p.type # "CT_REQUEST" /\ Route(p)
      BY <1>1, <1>5 DEF Accept, IInv, TypeOK
    <3> QED BY <3>1 DEF Packets, Route
  <2>2. j \in Jobs /\ Fits(p.type, j)
    BY <2>1, SwarmFacts DEF Jobs, Fits
  <2>3. Begin(c, t, p.type, j)
    BY <1>2, <1>5 DEF Accept
  <2> QED BY <2>1, <2>2, <2>3, MovesByBegin
<1>6. CASE ReceiveGossip(c, t)
  <2>1. CASE Goto(c, t, "update_neighbors") /\ pc[c][t] = "receive_gossip"
    <3>1. Fits("update_neighbors", job[c][t])
      BY <1>1, <2>1 DEF Fits
    <3> QED BY <1>1, <2>1, <3>1, MovesByGoto
  <2>2. CASE Exit(c, t)
    BY <2>2, MovesByExit
  <2> QED BY <1>2, <1>6, <2>1, <2>2 DEF ReceiveGossip, SendFileInfoRequest
<1>7. ASSUME Continue(c, t), pc[c][t] \in {"timestamp", "push_back"} PROVE Moving(c, t)
  <2>1. CASE Goto(c, t, "store_block")
    <3>1. Fits("store_block", job[c][t])
      BY <1>1, <1>7 DEF Fits
    <3> QED BY <1>1, <2>1, <3>1, MovesByGoto
  <2> QED BY <1>7, <2>1, MovesByExit DEF Continue
<1>8. CASE UpdateNeighbors(c, t)
  <2>1. PICK label \in {"push_back", "timestamp"} : Goto(c, t, label)
    BY <1>8 DEF UpdateNeighbors
  <2>2. Fits(label, job[c][t])
    BY <1>1, <1>8 DEF UpdateNeighbors, Fits
  <2> QED BY <1>1, <2>1, <2>2, MovesByGoto
<1>9. CASE Timestamp(c, t)
  BY <1>7, <1>9 DEF Timestamp
<1>10. CASE PushBack(c, t)
  BY <1>2, <1>7, <1>10 DEF PushBack
<1>11. CASE TimeOut(c, t)
  <2>1. Goto(c, t, "choose gen") /\ Fits("choose gen", job[c][t])
    BY <1>1, <1>11 DEF TimeOut, Fits
  <2> QED BY <1>1, <2>1, MovesByGoto
<1>12. CASE ChooseGen(c, t)
  <2>1. pc[c][t] = "choose gen" /\ job[c][t].type = "CT_REQUEST"
    BY <1>1, <1>12 DEF ChooseGen, Fits
  <2>2. Exit(c, t) \/ \E g \in Gens \cup {Unset} : Chosen(c, t, g)
    <3>1. CASE Has(c) # {} /\ Chosen(c, t, RequestGen(c))
      BY <3>1, RequestGenFacts
    <3>2. CASE \E g \in Gens \cup {Unset} : Chosen(c, t, g)
      BY <3>2
    <3> QED BY <1>2, <1>12, <3>1, <3>2 DEF ChooseGen
  <2>3. ASSUME NEW g \in Gens \cup {Unset}, Chosen(c, t, g) PROVE Moving(c, t)
    <3>1. CASE Exit(c, t)
      BY <3>1, MovesByExit
    <3>2. CASE Goto(c, t, "choose address")
      <4>1. Fits("choose address", job[c][t])
        BY <2>1 DEF Fits
      <4> QED BY <1>1, <3>2, <4>1, MovesByGoto
    <3>3. CASE At(c, t, "choose address") /\ job' = [job EXCEPT ![c][t].gen = g]
      <4> DEFINE j == [job[c][t] EXCEPT !.gen = g]
      <4>1. j \in Jobs /\ j.type = "CT_REQUEST"
        BY <1>1, <2>1, RequestGenJobs
      <4>2. job' = [job EXCEPT ![c][t] = j]
        BY <1>1, <3>3 DEF TypeOK
      <4> HIDE DEF j
      <4>3. Moves(c, t, "choose address", j)
        BY <3>3, <4>1, <4>2 DEF Moves, At, Fits
      <4> QED BY <4>1, <4>3 DEF Moving
    <3> QED BY <2>3, <3>1, <3>2, <3>3 DEF Chosen
  <2> QED BY <2>2, <2>3, MovesByExit
<1>13. CASE ChooseAddress(c, t)
  <2>1. CASE Exit(c, t)
    BY <2>1, MovesByExit
  <2>2. ASSUME NEW n \in Addresses(c, job[c][t].gen), At(c, t, "connect"),
               job' = [job EXCEPT ![c][t].node = n]
        PROVE  Moving(c, t)
    <3> DEFINE j == [job[c][t] EXCEPT !.node = n]
    <3>1. job[c][t].type = "CT_REQUEST" /\ n \in Seeds /\ n \in Nodes
      BY <1>1, <1>13, TableFacts, SwarmFacts DEF ChooseAddress, Fits
    <3>2. j \in Jobs /\ j.type = "CT_REQUEST" /\ j.node = n /\ j.gen = job[c][t].gen
      BY <1>1, <3>1, RequestNodeJobs
    <3>3. job' = [job EXCEPT ![c][t] = j]
      BY <1>1, <2>2 DEF TypeOK
    <3>4. j.gen \in Gens => Told(c, j.node, j.gen)
      BY <3>2, TableFacts
    <3> HIDE DEF j
    <3>5. Moves(c, t, "connect", j)
      BY <2>2, <3>1, <3>2, <3>3, <3>4 DEF Moves, At, Fits
    <3> QED BY <3>2, <3>5 DEF Moving
  <2> QED BY <1>13, <2>1, <2>2 DEF ChooseAddress
<1>14. CASE Connect(c, t) \/ \E innovative \in BOOLEAN : StoreBlock(c, t, innovative)
  BY <1>14, MovesByExit DEF Connect, StoreBlock
<1>15. CASE IncomingFileInfo(c, t) \/ IncomingData(c, t)
  <2>1. CASE Goto(c, t, "update_neighbors") /\ pc[c][t] \in {"CT_FILEINFO", "CT_DATA"}
    <3>1. Fits("update_neighbors", job[c][t])
      BY <1>1, <2>1 DEF Fits
    <3> QED BY <1>1, <2>1, <3>1, MovesByGoto
  <2> QED BY <1>15, <2>1, MovesByExit DEF IncomingFileInfo, IncomingData
<1> QED BY <1>3, <1>4, <1>5, <1>6, <1>8, <1>9, <1>10, <1>11, <1>12, <1>13, <1>14, <1>15
        DEF ThreadActs, Step

-----------------------------------------------------------------------------
(* The table                                                               *)

Learning(c) ==
    \E r : ct_neighbors' = [ct_neighbors EXCEPT ![c] = r] /\ Learns(ct_neighbors[c], r)

LEMMA TableKept ==
    ASSUME IInv, NEW c \in Clients, UNCHANGED ct_neighbors
    PROVE  Learning(c)
<1>1. ct_neighbors' = [ct_neighbors EXCEPT ![c] = ct_neighbors[c]]
  BY DEF IInv, TypeOK
<1> QED BY <1>1, TableFacts, LearnsSame DEF Learning

LEMMA TableOne ==
    ASSUME IInv, NEW c \in Clients, NEW i, NEW e,
           ct_neighbors' = [ct_neighbors EXCEPT ![c] = [ct_neighbors[c] EXCEPT ![i] = e]],
           i \in DOMAIN ct_neighbors[c] =>
               /\ e \in Neighbors /\ e.address = ct_neighbors[c][i].address
               /\ ct_neighbors[c][i].gen_vector \subseteq e.gen_vector
    PROVE  Learning(c)
<1>1. Learns(ct_neighbors[c], [ct_neighbors[c] EXCEPT ![i] = e])
  BY TableFacts, LearnsOne
<1> QED BY <1>1 DEF Learning

\* The assignments to a member of an entry, as assignments to the entry.
LEMMA EntryAssignments ==
    ASSUME NEW e \in Neighbors, NEW g \in Gens
    PROVE  /\ Heard(e, g) \in Neighbors /\ Heard(e, g).address = e.address
           /\ e.gen_vector \subseteq Heard(e, g).gen_vector
           /\ \A b \in BOOLEAN :
                 /\ [e EXCEPT !.recent = b] \in Neighbors /\ [e EXCEPT !.recent = b].address = e.address
                 /\ [e EXCEPT !.recent = b].gen_vector = e.gen_vector
                 /\ [e EXCEPT !.helpful = b] \in Neighbors /\ [e EXCEPT !.helpful = b].address = e.address
                 /\ [e EXCEPT !.helpful = b].gen_vector = e.gen_vector
           /\ e.helpful \in BOOLEAN /\ e.recent \in BOOLEAN
BY DEF Heard, Neighbors

LEMMA TableStep ==
    ASSUME IInv, NEW c \in Clients, NEW t \in Threads, Runs(c), ThreadActs(c, t), fault' = fault
    PROVE  Learning(c)
<1>1. TypeOK /\ Fits(pc[c][t], job[c][t]) /\ c \in Nodes
  BY SwarmFacts DEF IInv, Working
<1>2. \A cause : cause # "none" => ~Fault(c, cause)
  BY <1>1, FaultShows
<1> DEFINE q == ct_neighbors[c]
           j == job[c][t]
<1>3. q \in Seq(Neighbors) /\ \A i \in DOMAIN q : q[i] \in Neighbors
  BY TableFacts
<1>4. CASE UNCHANGED ct_neighbors
  BY <1>4, TableKept
<1>5. CASE UpdateNeighbors(c, t) /\ ~UNCHANGED ct_neighbors
  <2>1. j.gen \in Gens
    BY <1>1, <1>5 DEF UpdateNeighbors, Fits
  <2>2. PICK i : ct_neighbors' = [ct_neighbors EXCEPT ![c][i] = Heard(@, j.gen)]
    BY <1>5 DEF UpdateNeighbors
  <2>3. ct_neighbors' = [ct_neighbors EXCEPT ![c] = [q EXCEPT ![i] = Heard(q[i], j.gen)]]
    BY <2>2
  <2> QED BY <1>3, <2>1, <2>3, EntryAssignments, TableOne
<1>6. CASE Timestamp(c, t)
  <2>1. PICK i : ct_neighbors' = [ct_neighbors EXCEPT ![c][i].recent = TRUE]
    BY <1>6 DEF Timestamp
  <2>2. ct_neighbors' = [ct_neighbors EXCEPT ![c] = [q EXCEPT ![i] = [q[i] EXCEPT !.recent = TRUE]]]
    BY <2>1
  <2>3. 0 \in Gens
    BY SwarmFacts
  <2> QED BY <1>3, <2>2, <2>3, EntryAssignments, TableOne
<1>7. CASE PushBack(c, t)
  <2>1. j.node \in Seeds /\ j.gen \in Gens
    BY <1>1, <1>7 DEF PushBack, Fits
  <2>2. NewNeighbor(j) \in Neighbors /\ NewNeighbor(j).address \in Seeds
    BY <2>1, SwarmFacts DEF NewNeighbor, Neighbors
  <2>3. Learns(q, Append(q, NewNeighbor(j)))
    BY <1>3, <2>2, LearnsNew
  <2>4. ct_neighbors' = [ct_neighbors EXCEPT ![c] = Append(q, NewNeighbor(j))]
    BY <1>2, <1>7 DEF PushBack
  <2> QED BY <2>3, <2>4 DEF Learning
<1>8. CASE TimeOut(c, t)
  <2> DEFINE r == [i \in DOMAIN q |-> [q[i] EXCEPT !.helpful = @ /\ q[i].recent]]
  <2>1. ct_neighbors' = [ct_neighbors EXCEPT ![c] = r]
    BY <1>8 DEF TimeOut
  <2>2. ASSUME NEW i \in DOMAIN q
        PROVE  /\ r[i] \in Neighbors
               /\ r[i].address = q[i].address /\ r[i].gen_vector = q[i].gen_vector
    <3>1. (q[i].helpful /\ q[i].recent) \in BOOLEAN
      BY Zenon
    <3>2. 0 \in Gens
      BY SwarmFacts
    <3>3. r[i] = [q[i] EXCEPT !.helpful = q[i].helpful /\ q[i].recent]
      OBVIOUS
    <3> HIDE DEF q, r
    <3> QED BY <1>3, <3>1, <3>2, <3>3, EntryAssignments
  <2>3. r \in [DOMAIN q -> Neighbors]
    BY <2>2
  <2>4. Learns(q, r)
    <3> HIDE DEF q, r
    <3> QED BY <1>3, <2>2, <2>3, LearnsAll
  <2> QED BY <2>1, <2>4 DEF Learning
<1>9. CASE ReceiveGossip(c, t) \/ ChooseGen(c, t) \/ \E p \in packets : Accept(c, t, p)
  <2>1. UNCHANGED ct_neighbors
    BY <1>2, <1>9 DEF ReceiveGossip, SendFileInfoRequest, ChooseGen, Accept, table
  <2> QED BY <1>4, <2>1
<1> QED BY <1>4, <1>5, <1>6, <1>7, <1>8, <1>9
        DEF ThreadActs, Step, ListenGossip, PeriodicRequest, ChooseAddress, Connect, IncomingFileInfo,
            IncomingData, StoreBlock, table

LEMMA SilenceStep ==
    ASSUME IInv, NEW c \in Clients, NEW i \in DOMAIN ct_neighbors[c], Silence(c, i)
    PROVE  Learning(c)
<1>1. /\ ct_neighbors' = [ct_neighbors EXCEPT ![c] = [ct_neighbors[c] EXCEPT ![i] =
                            [ct_neighbors[c][i] EXCEPT !.recent = FALSE]]]
      /\ ct_neighbors[c][i] \in Neighbors /\ 0 \in Gens
  BY TableFacts, SwarmFacts DEF Silence
<1> QED BY <1>1, EntryAssignments, TableOne

\* What a client has been told it still has, and the table stays well-formed.
LEMMA ToldStays ==
    ASSUME IInv, NEW c \in Clients, Learning(c)
    PROVE  /\ ct_neighbors' \in [Clients -> Seq(Neighbors)]
           /\ \A d \in Clients : \A i \in DOMAIN ct_neighbors'[d] :
                 ct_neighbors'[d][i].address \in Seeds
           /\ \A d \in Clients : \A n, g : Told(d, n, g) => Told(d, n, g)'
<1>1. PICK r : ct_neighbors' = [ct_neighbors EXCEPT ![c] = r] /\ Learns(ct_neighbors[c], r)
  BY DEF Learning
<1>2. ct_neighbors \in [Clients -> Seq(Neighbors)]
  BY DEF IInv, TypeOK
<1>3. \A d \in Clients : ct_neighbors'[d] = IF d = c THEN r ELSE ct_neighbors[d]
  BY <1>1, <1>2
<1>4. ct_neighbors' \in [Clients -> Seq(Neighbors)]
  BY <1>1, <1>2 DEF Learns
<1>5. ASSUME NEW d \in Clients, NEW i \in DOMAIN ct_neighbors'[d]
      PROVE  ct_neighbors'[d][i].address \in Seeds
  BY <1>1, <1>3 DEF Learns, IInv
<1>6. ASSUME NEW d \in Clients, NEW n, NEW g, Told(d, n, g) PROVE Told(d, n, g)'
  <2>1. PICK i \in DOMAIN ct_neighbors[d] :
           ct_neighbors[d][i].address = n /\ g \in ct_neighbors[d][i].gen_vector
    BY <1>6 DEF Told, Entries
  <2>2. /\ i \in DOMAIN ct_neighbors'[d] /\ ct_neighbors'[d][i].address = n
        /\ g \in ct_neighbors'[d][i].gen_vector
    BY <1>1, <1>3, <2>1 DEF Learns
  <2> QED BY <2>2 DEF Told, Entries
<1> QED BY <1>4, <1>5, <1>6

-----------------------------------------------------------------------------
(* Packets, and the rest                                                   *)

\* RequestsWereAnnounced of one packet.
Justified(p) ==
    LET c == IF p.type = "CT_REQUEST" THEN p.from ELSE p.to
        n == IF p.type = "CT_REQUEST" THEN p.to ELSE p.from
    IN  Runs(c) /\ p.gen \in Gens /\ p.type # "CT_FILEINFO" => Told(c, n, p.gen)

Proper(p) == p \in Packets /\ Route(p) /\ Justified(p)

LEMMA ProperPackets ==
    ASSUME IInv PROVE \A p \in packets : Proper(p)
BY DEF IInv, TypeOK, RequestsWereAnnounced, Proper, Justified, Told

LEMMA ProperRequest ==
    ASSUME NEW c \in Clients, NEW n \in Seeds, NEW g \in Gens \cup {FileInfo, Unset},
           g \in Gens => Told(c, n, g)
    PROVE  Proper([type |-> "CT_REQUEST", from |-> c, to |-> n, gen |-> g])
BY SwarmFacts DEF Proper, Packets, Route, Justified

LEMMA PacketStep ==
    ASSUME IInv, Acts, fault' = fault
    PROVE  \A p \in packets' : Proper(p)
<1>1. \A p \in packets : Proper(p)
  BY ProperPackets
<1>2. \A n \in Nodes : Runs(n) => \A cause : cause # "none" => ~Fault(n, cause)
  BY FaultShows DEF IInv
<1>3. CASE packets' \subseteq packets
  BY <1>1, <1>3
<1>4. ASSUME NEW c \in Clients, NEW t \in Threads, Runs(c), ReceiveGossip(c, t)
      PROVE  \A p \in packets' : Proper(p)
  <2> DEFINE q == [type |-> "CT_REQUEST", from |-> c, to |-> job[c][t].node, gen |-> FileInfo]
  <2>1. packets' = packets \/ packets' = packets \cup {q}
    BY <1>2, <1>4, SwarmFacts DEF ReceiveGossip, SendFileInfoRequest, Send
  <2>2. job[c][t].node \in Seeds
    BY <1>4 DEF ReceiveGossip, IInv, Working, Fits
  <2>3. Proper(q)
    BY <2>2, ProperRequest, SwarmFacts
  <2> HIDE DEF q
  <2> QED BY <1>1, <2>1, <2>3
<1>5. ASSUME NEW c \in Clients, NEW t \in Threads, Runs(c), Connect(c, t)
      PROVE  \A p \in packets' : Proper(p)
  <2> DEFINE j == job[c][t]
             q == [type |-> "CT_REQUEST", from |-> c, to |-> j.node, gen |-> j.gen]
  <2>1. packets' = packets \/ packets' = packets \cup {q}
    BY <1>5 DEF Connect, Send
  <2>2. pc[c][t] = "connect"
    BY <1>5 DEF Connect
  <2>3. j.node \in Seeds /\ (j.gen \in Gens => Told(c, j.node, j.gen))
    BY <2>2 DEF IInv, Working, Fits, Connecting
  <2>4. j.gen \in Gens \cup {Unset}
    <3>1. j \in Jobs
      BY DEF IInv, TypeOK
    <3> QED BY <3>1 DEF Jobs, NoJob
  <2>5. Proper(q)
    <3> HIDE DEF j
    <3> QED BY <2>3, <2>4, ProperRequest
  <2> HIDE DEF q
  <2> QED BY <1>1, <2>1, <2>5
<1>6. ASSUME NEW n \in Nodes, NEW p \in packets, Runs(n), Serve(n, p)
      PROVE  \A q \in packets' : Proper(q)
  <2>1. p \in Packets /\ p.from \in Clients /\ n \in Seeds /\ p.to = n /\ p.type = "CT_REQUEST"
    BY <1>1, <1>6 DEF Serve, Proper, Route
  <2>2. ASSUME NEW q \in Answers(n, p) PROVE Proper(q)
    <3>1. CASE q \in FileInfos(n, p)
      BY <2>1, <3>1, SwarmFacts DEF FileInfos, Proper, Packets, Route, Justified
    <3>2. CASE q \in CodedBlocks(n, p)
      <4>1. q = [type |-> "CT_DATA", from |-> n, to |-> p.from, gen |-> p.gen] /\ p.gen \in Gens
        BY <3>2 DEF CodedBlocks
      <4>2. Runs(p.from) => Told(p.from, n, p.gen)
        BY <1>1, <2>1, <4>1 DEF Proper, Justified
      <4> QED BY <2>1, <4>1, <4>2, SwarmFacts DEF Proper, Packets, Route, Justified
    <3> QED BY <2>2, <3>1, <3>2 DEF Answers
  <2>3. packets' \subseteq packets \/ \E q \in Answers(n, p) : packets' \subseteq packets \cup {q}
    BY <1>6 DEF Serve
  <2> QED BY <1>1, <2>2, <2>3
<1>7. ASSUME NEW c \in Clients, NEW t \in Threads, Runs(c), ThreadActs(c, t),
             ~ReceiveGossip(c, t), ~Connect(c, t)
      PROVE  packets' \subseteq packets
  BY <1>2, <1>7, SwarmFacts
     DEF ThreadActs, Step, ListenGossip, PeriodicRequest, Accept, UpdateNeighbors, Timestamp, PushBack,
         TimeOut, ChooseGen, ChooseAddress, IncomingFileInfo, IncomingData, StoreBlock
<1>8. \A c \in Clients : /\ RunOutOfThreads(c) => packets' = packets
                         /\ \A i \in DOMAIN ct_neighbors[c] : Silence(c, i) => packets' = packets
  BY DEF RunOutOfThreads, Silence
<1> QED BY <1>3, <1>4, <1>5, <1>6, <1>7, <1>8 DEF Acts

\* A helpful block is one that a generation has room for.
LEMMA RankStep ==
    ASSUME IInv, NEW c \in Clients, NEW t \in Threads, ThreadActs(c, t), fault' = fault, Runs(c)
    PROVE  DOMAIN rank_vec' = Clients /\ \A d \in Clients : Ranks(rank_vec'[d])
<1>1. \A cause : cause # "none" => ~Fault(c, cause)
  BY FaultShows, SwarmFacts DEF IInv
<1>2. CASE UNCHANGED rank_vec
  BY <1>2 DEF IInv
<1>3. ASSUME NEW innovative \in BOOLEAN, StoreBlock(c, t, innovative), ~UNCHANGED rank_vec
      PROVE  DOMAIN rank_vec' = Clients /\ \A d \in Clients : Ranks(rank_vec'[d])
  <2> DEFINE g == job[c][t].gen
             ranks == [rank_vec[c] EXCEPT ![g] = @ + 1]
  <2>1. g \in Gens /\ rank_vec[c][g] # num_blocks_gen[g] /\ rank_vec' = [rank_vec EXCEPT ![c] = ranks]
    BY <1>3 DEF StoreBlock, Helpful, IInv, Working, Fits
  <2>2. Ranks(rank_vec[c]) /\ DOMAIN rank_vec = Clients
    BY DEF IInv
  <2>3. rank_vec[c][g] + 1 \in Nat /\ rank_vec[c][g] + 1 <= num_blocks_gen[g]
    <3>1. rank_vec[c][g] \in Nat /\ rank_vec[c][g] <= num_blocks_gen[g] /\ num_blocks_gen[g] \in Nat
      BY <2>1, <2>2, SwarmFacts DEF Ranks
    <3> HIDE DEF g
    <3> QED BY <2>1, <3>1
  <2>4. Ranks(ranks)
    <3>1. ranks \in [Gens -> Nat]
      BY <2>1, <2>2, <2>3 DEF Ranks
    <3>2. \A h \in Gens : ranks[h] = IF h = g THEN rank_vec[c][g] + 1 ELSE rank_vec[c][h]
      BY <2>1, <2>2 DEF Ranks
    <3> HIDE DEF ranks, g
    <3> QED BY <2>2, <2>3, <3>1, <3>2 DEF Ranks
  <2> HIDE DEF ranks
  <2> QED BY <2>1, <2>2, <2>4 DEF IInv
<1>4. UNCHANGED rank_vec \/ \E innovative \in BOOLEAN : StoreBlock(c, t, innovative)
  BY <1>1
     DEF ThreadActs, Step, ListenGossip, PeriodicRequest, Accept, ReceiveGossip, SendFileInfoRequest,
         UpdateNeighbors, Timestamp, PushBack, TimeOut, ChooseGen, ChooseAddress, Connect,
         IncomingFileInfo, IncomingData, store
<1> QED BY <1>2, <1>3, <1>4

LEMMA FlagStep ==
    ASSUME IInv, NEW c \in Clients, NEW t \in Threads, ThreadActs(c, t), fault' = fault, Runs(c)
    PROVE  /\ ct' \in [Nodes -> BOOLEAN] /\ server_mode' \in [Nodes -> BOOLEAN]
           /\ helpful_neighbors' \in [Clients -> BOOLEAN] /\ exhausted' \in [Clients -> BOOLEAN]
<1>1. \A cause : cause # "none" => ~Fault(c, cause)
  BY FaultShows, SwarmFacts DEF IInv
<1>2. /\ ct \in [Nodes -> BOOLEAN] /\ server_mode \in [Nodes -> BOOLEAN]
      /\ helpful_neighbors \in [Clients -> BOOLEAN] /\ exhausted \in [Clients -> BOOLEAN]
  BY DEF IInv, TypeOK
<1>3. CASE UNCHANGED <<ct, server_mode, helpful_neighbors, exhausted>>
  BY <1>2, <1>3
<1>4. ASSUME NEW innovative \in BOOLEAN, StoreBlock(c, t, innovative)
      PROVE  /\ server_mode' \in [Nodes -> BOOLEAN]
             /\ UNCHANGED <<ct, helpful_neighbors, exhausted>>
  <2>1. PICK done \in BOOLEAN :
           server_mode' = server_mode \/ server_mode' = [server_mode EXCEPT ![c] = done]
    <3> DEFINE d == server_mode[c]
                    \/ DownloadCompleted([rank_vec[c] EXCEPT ![job[c][t].gen] = @ + 1])
    <3>1. d \in BOOLEAN
      BY Zenon
    <3>2. server_mode' = server_mode \/ server_mode' = [server_mode EXCEPT ![c] = d]
      BY <1>4 DEF StoreBlock
    <3> QED BY <3>1, <3>2
  <2>2. server_mode' \in [Nodes -> BOOLEAN]
    BY <1>2, <2>1
  <2> QED BY <1>4, <2>2 DEF StoreBlock, table
<1>5. CASE TimeOut(c, t)
  <2>1. PICK some \in BOOLEAN : helpful_neighbors' = [helpful_neighbors EXCEPT ![c] = some]
    <3> DEFINE d == {i \in DOMAIN ct_neighbors[c] : ct_neighbors[c][i].recent} # {}
    <3>1. d \in BOOLEAN
      BY Zenon
    <3>2. helpful_neighbors' = [helpful_neighbors EXCEPT ![c] = d]
      BY <1>5 DEF TimeOut
    <3> QED BY <3>1, <3>2
  <2>2. helpful_neighbors' \in [Clients -> BOOLEAN]
    BY <1>2, <2>1
  <2> QED BY <1>2, <1>5, <2>2 DEF TimeOut, store
<1>6. CASE IncomingFileInfo(c, t)
  <2>1. ct' \in [Nodes -> BOOLEAN]
    BY <1>2, <1>6 DEF IncomingFileInfo
  <2> QED BY <1>2, <1>6, <2>1 DEF IncomingFileInfo, table
<1>7. \/ UNCHANGED <<ct, server_mode, helpful_neighbors, exhausted>>
      \/ TimeOut(c, t) \/ IncomingFileInfo(c, t)
      \/ \E innovative \in BOOLEAN : StoreBlock(c, t, innovative)
  BY <1>1
     DEF ThreadActs, Step, ListenGossip, PeriodicRequest, Accept, ReceiveGossip, SendFileInfoRequest,
         UpdateNeighbors, Timestamp, PushBack, ChooseGen, ChooseAddress, Connect,
         IncomingData, store, table
<1> QED BY <1>2, <1>3, <1>4, <1>5, <1>6, <1>7

-----------------------------------------------------------------------------
(* The invariant                                                           *)

\* A step without a fault, from what it does to each part.
LEMMA LiveStep ==
    ASSUME IInv, Acts, fault' = fault,
           /\ pc' \in [Clients -> [Threads -> Labels]] /\ job' \in [Clients -> [Threads -> Jobs]]
           /\ \A c \in Clients : \A t \in Threads :
                 /\ Working(c, t)'
                 /\ \/ pc'[c][t] = pc[c][t] /\ job'[c][t] = job[c][t]
                    \/ pc'[c][t] = "connect" /\ job'[c][t].gen \in Gens =>
                          Told(c, job'[c][t].node, job'[c][t].gen),
           \E c \in Clients : Learning(c),
           DOMAIN rank_vec' = Clients /\ \A c \in Clients : Ranks(rank_vec'[c]),
           /\ ct' \in [Nodes -> BOOLEAN] /\ server_mode' \in [Nodes -> BOOLEAN]
           /\ helpful_neighbors' \in [Clients -> BOOLEAN] /\ exhausted' \in [Clients -> BOOLEAN]
    PROVE  IInv'
<1>1. /\ ct_neighbors' \in [Clients -> Seq(Neighbors)]
      /\ \A c \in Clients : \A i \in DOMAIN ct_neighbors'[c] : ct_neighbors'[c][i].address \in Seeds
      /\ \A c \in Clients : \A n, g : Told(c, n, g) => Told(c, n, g)'
  BY ToldStays
<1>2. \A p \in packets' : Proper(p)
  BY PacketStep
<1>3. \A c \in Clients : \A g \in Gens : rank_vec'[c][g] \in 0..num_blocks_gen[g]
  BY SwarmFacts DEF Ranks
<1>4. TypeOK'
  <2>1. packets' \subseteq Packets
    BY <1>2 DEF Proper
  <2>2. DOMAIN fault' = Nodes
    BY DEF IInv, TypeOK
  <2> QED BY <1>1, <1>3, <2>1, <2>2, Zenon DEF TypeOK, Labels
<1>5. ASSUME NEW c \in Clients, NEW t \in Threads PROVE Connecting(c, t)'
  <2>1. pc'[c][t] = "connect" /\ job'[c][t].gen \in Gens =>
            Told(c, job'[c][t].node, job'[c][t].gen)
    BY DEF IInv, Connecting
  <2> QED BY <1>1, <2>1 DEF Connecting
<1>6. RequestsWereAnnounced'
  <2> SUFFICES ASSUME NEW p \in packets',
                      NEW c, c = IF p.type = "CT_REQUEST" THEN p.from ELSE p.to,
                      NEW n, n = IF p.type = "CT_REQUEST" THEN p.to ELSE p.from,
                      Runs(c)', p.gen \in Gens, p.type # "CT_FILEINFO"
               PROVE  Told(c, n, p.gen)'
    BY DEF RequestsWereAnnounced, Told
  <2>1. c \in Clients /\ Runs(c)
    BY <1>2 DEF Proper, Route, Runs
  <2>2. Told(c, n, p.gen)
    BY <1>2, <2>1 DEF Proper, Justified
  <2> QED BY <1>1, <2>1, <2>2
<1>7. \A p \in packets' : Route(p)
  BY <1>2 DEF Proper
<1> QED BY <1>1, <1>4, <1>5, <1>6, <1>7 DEF IInv

LEMMA InvNext == IInv /\ [Next]_vars => IInv'
<1> SUFFICES ASSUME IInv, [Next]_vars PROVE IInv'
  OBVIOUS
<1>1. ASSUME Acts, fault' # fault PROVE IInv'
  BY <1>1, Deaths, DeathStep
<1>2. /\ pc \in [Clients -> [Threads -> Labels]] /\ job \in [Clients -> [Threads -> Jobs]]
      /\ \A c \in Clients : \A t \in Threads : Working(c, t)
  BY DEF IInv, TypeOK, Labels
<1>3. ASSUME NEW c \in Clients, NEW t \in Threads, Runs(c), ThreadActs(c, t), fault' = fault
      PROVE  IInv'
  <2>1. PICK label \in Labels, j \in Jobs : Moves(c, t, label, j)
    BY <1>3, MovesStep DEF Moving
  <2>2. pc' \in [Clients -> [Threads -> Labels]] /\ job' \in [Clients -> [Threads -> Jobs]]
    BY <1>2, <2>1 DEF Moves
  <2>3. ASSUME NEW d \in Clients, NEW u \in Threads
        PROVE  /\ Working(d, u)'
               /\ \/ pc'[d][u] = pc[d][u] /\ job'[d][u] = job[d][u]
                  \/ pc'[d][u] = "connect" /\ job'[d][u].gen \in Gens =>
                        Told(d, job'[d][u].node, job'[d][u].gen)
    <3>1. CASE d = c /\ u = t
      <4>1. pc'[d][u] = label /\ job'[d][u] = j
        BY <1>2, <2>1, <3>1 DEF Moves
      <4> QED BY <2>1, <3>1, <4>1 DEF Moves, Working
    <3>2. CASE ~(d = c /\ u = t)
      <4>1. pc'[d][u] = pc[d][u] /\ job'[d][u] = job[d][u]
        BY <1>2, <2>1, <3>2 DEF Moves
      <4> QED BY <1>2, <4>1 DEF Working
    <3> QED BY <3>1, <3>2
  <2>4. Acts /\ Learning(c)
    BY <1>3, TableStep DEF Acts
  <2> QED BY <1>3, <2>2, <2>3, <2>4, RankStep, FlagStep, LiveStep
<1>4. ASSUME Acts, fault' = fault, UNCHANGED <<pc, job>>, \E c \in Clients : Learning(c),
             UNCHANGED <<ct, server_mode, rank_vec, helpful_neighbors>>,
             exhausted' \in [Clients -> BOOLEAN]
      PROVE  IInv'
  <2>1. \A c \in Clients : \A t \in Threads : Working(c, t)'
    BY <1>2, <1>4 DEF Working
  <2>2. DOMAIN rank_vec' = Clients /\ \A c \in Clients : Ranks(rank_vec'[c])
    BY <1>4 DEF IInv
  <2>3. /\ ct' \in [Nodes -> BOOLEAN] /\ server_mode' \in [Nodes -> BOOLEAN]
        /\ helpful_neighbors' \in [Clients -> BOOLEAN]
    BY <1>4 DEF IInv, TypeOK
  <2> QED BY <1>2, <1>4, <2>1, <2>2, <2>3, LiveStep
<1>5. exhausted \in [Clients -> BOOLEAN]
  BY DEF IInv, TypeOK
<1>6. ASSUME NEW c \in Clients, Runs(c), RunOutOfThreads(c) PROVE IInv'
  <2>1. /\ UNCHANGED <<pc, job, ct, server_mode, rank_vec, helpful_neighbors, ct_neighbors, fault>>
        /\ exhausted' = [exhausted EXCEPT ![c] = TRUE]
    BY <1>6 DEF RunOutOfThreads, threads, store, table
  <2>2. exhausted' \in [Clients -> BOOLEAN]
    BY <1>5, <2>1
  <2>3. Acts /\ Learning(c)
    BY <1>6, <2>1, TableKept DEF Acts
  <2> QED BY <1>4, <2>1, <2>2, <2>3
<1>7. ASSUME NEW c \in Clients, Runs(c), NEW i \in DOMAIN ct_neighbors[c], Silence(c, i) PROVE IInv'
  <2>1. /\ UNCHANGED <<pc, job, ct, server_mode, rank_vec, helpful_neighbors, exhausted, fault>>
    BY <1>7 DEF Silence, threads, store
  <2>2. Acts /\ Learning(c)
    BY <1>7, SilenceStep DEF Acts
  <2> QED BY <1>4, <1>5, <2>1, <2>2
<1>8. ASSUME NEW n \in Nodes, Runs(n), NEW p \in packets, Serve(n, p), fault' = fault PROVE IInv'
  <2>1. ~ \E cause : cause # "none" /\ Fault(n, cause)
    BY <1>8, FaultShows DEF IInv
  <2>2. UNCHANGED <<pc, job, ct, server_mode, rank_vec, helpful_neighbors, ct_neighbors, exhausted>>
    BY <1>8, <2>1 DEF Serve, threads, store, table
  <2>3. p.from \in Clients
    BY <1>8, ProperPackets DEF Proper, Route, Serve
  <2>4. Acts /\ Learning(p.from)
    BY <1>8, <2>2, <2>3, TableKept DEF Acts
  <2> QED BY <1>4, <1>5, <1>8, <2>2, <2>3, <2>4
<1>9. CASE Next
  <2>1. Acts
    BY <1>9, WhoActs
  <2>2. CASE fault' = fault
    BY <1>3, <1>6, <1>7, <1>8, <2>1, <2>2 DEF Acts
  <2> QED BY <1>1, <2>1, <2>2
<1>10. CASE UNCHANGED vars
  <2>1. UNCHANGED <<pc, job, ct, server_mode, rank_vec, ct_neighbors, helpful_neighbors, exhausted,
                    packets, fault>>
    BY <1>10 DEF vars, threads, store, table
  <2>2. TypeOK'
    BY <2>1, Zenon DEF IInv, TypeOK
  <2>3. \A c \in Clients : \A t \in Threads : Working(c, t)' /\ Connecting(c, t)'
    BY <2>1 DEF IInv, Working, Connecting, Told, Entries
  <2>4. RequestsWereAnnounced'
    BY <2>1 DEF IInv, RequestsWereAnnounced, Entries, Runs
  <2> QED BY <2>1, <2>2, <2>3, <2>4 DEF IInv
<1> QED BY <1>9, <1>10

LEMMA InvInit == Init => IInv
<1> SUFFICES ASSUME Init PROVE IInv
  OBVIOUS
<1>1. ASSUME NEW c \in Clients
      PROVE  /\ ct_neighbors[c] \in Seq(Neighbors) /\ DOMAIN ct_neighbors[c] = {}
             /\ rank_vec[c] = [g \in Gens |-> 0]
  <2>1. ct_neighbors[c] = <<>> /\ rank_vec[c] = [g \in Gens |-> 0]
    BY DEF Init
  <2>2. <<>> \in Seq(Neighbors)
    BY EmptySeq
  <2>3. DOMAIN <<>> = {}
    OBVIOUS
  <2> QED BY <2>1, <2>2, <2>3, Zenon
<1>2. \A c \in Clients : Ranks(rank_vec[c])
  <2>1. \A g \in Gens : 0 <= num_blocks_gen[g]
    BY SwarmFacts
  <2>2. Ranks([g \in Gens |-> 0])
    BY <2>1 DEF Ranks
  <2> QED BY <1>1, <2>2
<1>3. \A c \in Clients : \A g \in Gens : rank_vec[c][g] \in 0..num_blocks_gen[g]
  BY <1>2, SwarmFacts DEF Ranks
<1>4. /\ pc \in [Clients -> [Threads -> Labels]] /\ job \in [Clients -> [Threads -> Jobs]]
      /\ \A c \in Clients : \A t \in Threads : pc[c][t] = "exited"
  <2>1. "exited" \in Labels /\ NoJob \in Jobs
    BY DEF Labels, Jobs
  <2> QED BY <2>1 DEF Init
<1>5. /\ ct \in [Nodes -> BOOLEAN] /\ server_mode \in [Nodes -> BOOLEAN]
      /\ helpful_neighbors \in [Clients -> BOOLEAN] /\ exhausted \in [Clients -> BOOLEAN]
  <2>1. ct \in [Nodes -> BOOLEAN] /\ server_mode \in [Nodes -> BOOLEAN]
    <3> DEFINE seed == [n \in Nodes |-> n \in Seeds]
    <3>1. seed \in [Nodes -> BOOLEAN]
      OBVIOUS
    <3> QED BY <3>1 DEF Init
  <2> QED BY <2>1 DEF Init
<1>6. /\ ct_neighbors \in [Clients -> Seq(Neighbors)] /\ packets = {}
      /\ DOMAIN fault = Nodes /\ DOMAIN rank_vec = Clients
  BY <1>1 DEF Init
<1>7. TypeOK
  BY <1>3, <1>4, <1>5, <1>6, Zenon DEF TypeOK, Labels
<1>8. RequestsWereAnnounced
  BY <1>6 DEF RequestsWereAnnounced
<1>9. \A c \in Clients : \A t \in Threads : Working(c, t) /\ Connecting(c, t)
  BY <1>4 DEF Working, Fits, Connecting
<1> QED BY <1>1, <1>2, <1>6, <1>7, <1>8, <1>9 DEF IInv

LEMMA Invariant == Spec => []IInv
BY InvInit, InvNext, PTL DEF Spec

-----------------------------------------------------------------------------
(* The theorems                                                            *)

\* Whatever the file, the nodes and the threads: every variable ranges over what its
\* comment says, and no rank grows beyond its generation (main.cpp:485-515, 810-1190).
THEOREM TypeCorrect == Spec => []TypeOK
<1>1. IInv => TypeOK
  BY DEF IInv
<1> QED BY <1>1, Invariant, PTL

\* Whatever happens to the table while send_request works on it, a block is asked for,
\* and sent, only if the seed asked told this client that it has some of that
\* generation (main.cpp:810, 830, 1121, 1190, 485).
THEOREM AnnouncedFirst == Spec => []RequestsWereAnnounced
<1>1. IInv => RequestsWereAnnounced
  BY DEF IInv
<1> QED BY <1>1, Invariant, PTL

\* Since all clients have nodeId 1 and drop each other's gossip, a client knows no
\* other nodes than seeds: one that has the whole file is never asked for any of it
\* (main.cpp:755-757, 843-850).
ClientsAreNeverAsked == \A p \in packets : p.type = "CT_REQUEST" => p.to \in Seeds

THEOREM OnlySeedsServe == Spec => []ClientsAreNeverAsked
<1>1. IInv => ClientsAreNeverAsked
  BY DEF IInv, Route, ClientsAreNeverAsked
<1> QED BY <1>1, Invariant, PTL

\* Why the generation chosen is one that is wanted: a complete generation other than
\* the last one is at least as large as any, so one that is not complete has a lower
\* rank.
LEMMA LeastRankIsWanted ==
    ASSUME IInv, NEW c \in Clients, Wanted(c) # {}
    PROVE  /\ Has(c) # {} /\ RequestGen(c) \in Wanted(c)
           /\ \A g \in Wanted(c) : RankVec(c)[RequestGen(c)] <= RankVec(c)[g]
<1> DEFINE r == RequestGen(c)
           ranks == RankVec(c)
<1>1. Wanted(c) \subseteq Has(c)
  BY DEF Wanted, Has
<1>2. /\ r \in Has(c) /\ Has(c) \subseteq Gens
      /\ \A h \in Has(c) \ {r} : ranks[r] < ranks[h] \/ (ranks[r] = ranks[h] /\ r > h)
  BY <1>1, RequestGenFacts
<1>3. \A g \in Gens : /\ ranks[g] \in Nat /\ ranks[g] <= num_blocks_gen[g]
                      /\ num_blocks_gen[g] \in Nat /\ num_blocks_gen[g] <= per_gen
                      /\ g # num_gens - 1 => num_blocks_gen[g] = per_gen
  BY RankTypes, SwarmFacts
<1>4. per_gen \in Nat
  BY SwarmFacts
<1>5. \A g \in Has(c) : (g \in Wanted(c) <=> ranks[g] # num_blocks_gen[g])
                        /\ (g = num_gens - 1 => ranks[g] # num_blocks_gen[g])
  BY DEF Has, Wanted, Full
<1> HIDE DEF r, ranks
<1>6. ASSUME NEW g \in Has(c) PROVE ranks[r] <= ranks[g]
  <2>1. ranks[r] \in Nat /\ ranks[g] \in Nat
    BY <1>2, <1>3
  <2> QED BY <1>2, <2>1
<1>7. r \in Wanted(c)
  <2> SUFFICES ASSUME r \notin Wanted(c) PROVE FALSE
    OBVIOUS
  <2>1. ranks[r] = num_blocks_gen[r] /\ r # num_gens - 1 /\ num_blocks_gen[r] = per_gen
    BY <1>2, <1>3, <1>5
  <2>2. PICK w \in Wanted(c) : TRUE
    OBVIOUS
  <2>3. ranks[w] \in Nat /\ num_blocks_gen[w] \in Nat /\ ranks[w] <= num_blocks_gen[w]
        /\ ranks[w] # num_blocks_gen[w] /\ num_blocks_gen[w] <= per_gen
    BY <1>1, <1>2, <1>3, <1>5
  <2>4. per_gen <= ranks[w]
    BY <1>1, <1>6, <2>1
  <2> QED BY <1>4, <2>3, <2>4
<1> QED BY <1>1, <1>6, <1>7 DEF r, ranks

ChoosesWell(c, t) ==
    pc[c][t] = "choose gen" /\ pc'[c][t] # "choose gen" /\ Runs(c)
        /\ helpful_neighbors[c] /\ Wanted(c) # {} =>
    \/ fault'[c] \notin {"none", "unset request_gen"}
    \/ /\ pc'[c][t] = "choose address" /\ job'[c][t].gen \in Wanted(c)
       /\ \A g \in Wanted(c) : RankVec(c)[job'[c][t].gen] <= RankVec(c)[g]

LEMMA ChooseStep ==
    ASSUME IInv, [Next]_vars, NEW c \in Clients, NEW t \in Threads
    PROVE  ChoosesWell(c, t)
<1> SUFFICES ASSUME pc[c][t] = "choose gen", pc'[c][t] # "choose gen", Runs(c),
                    helpful_neighbors[c], Wanted(c) # {},
                    fault'[c] \in {"none", "unset request_gen"}
             PROVE  /\ pc'[c][t] = "choose address" /\ job'[c][t].gen \in Wanted(c)
                    /\ \A g \in Wanted(c) : RankVec(c)[job'[c][t].gen] <= RankVec(c)[g]
  BY DEF ChoosesWell
<1>1. /\ Has(c) # {} /\ RequestGen(c) \in Wanted(c)
      /\ \A g \in Wanted(c) : RankVec(c)[RequestGen(c)] <= RankVec(c)[g]
  BY LeastRankIsWanted
<1>2. TypeOK /\ c \in Nodes /\ c \notin Seeds
  BY SwarmFacts DEF IInv
<1>3. Acts
  <2>1. Next
    BY DEF vars, threads
  <2> QED BY <2>1, WhoActs
<1>4. ASSUME fault' # fault PROVE FALSE
  <2>1. PICK n \in Nodes : Dies(n)
    BY <1>3, <1>4, Deaths
  <2>2. CASE n = c
    <3>1. PICK cause \in Causes :
             /\ Fault(c, cause)
             /\ cause = "unset request_gen" =>
                   Has(c) = {} \/ \E p \in packets : p.to = c /\ p.type = "CT_REQUEST"
      BY <2>1, <2>2 DEF Dies
    <3>2. fault'[c] = cause
      BY <1>2, <3>1 DEF Fault, TypeOK
    <3>3. ~ \E p \in packets : p.to = c /\ p.type = "CT_REQUEST"
      BY <1>2 DEF IInv, Route
    <3> QED BY <1>1, <3>1, <3>2, <3>3 DEF Causes
  <2>3. CASE n # c
    <3>1. PICK cause \in Causes : Fault(n, cause)
      BY <2>1 DEF Dies
    <3>2. pc'[c] = pc[c]
      BY <1>2, <2>3, <3>1 DEF Fault, Reset, TypeOK
    <3> QED BY <3>2
  <2> QED BY <2>2, <2>3
<1>5. ASSUME NEW d \in Clients, NEW u \in Threads, Runs(d), ThreadActs(d, u)
      PROVE  d = c /\ u = t
  <2>1. PICK label, j : Moves(d, u, label, j)
    BY <1>4, <1>5, MovesStep DEF Moving
  <2> QED BY <1>2, <2>1 DEF Moves, TypeOK
<1>6. ~UNCHANGED pc
  OBVIOUS
<1>7. ThreadActs(c, t)
  <2>1. ASSUME NEW n \in Nodes, NEW p \in packets, Runs(n), Serve(n, p) PROVE UNCHANGED pc
    <3>1. ~ \E cause : cause # "none" /\ Fault(n, cause)
      BY <1>2, <1>4, <2>1, FaultShows
    <3> QED BY <2>1, <3>1 DEF Serve, threads
  <2> QED BY <1>3, <1>5, <1>6, <2>1 DEF Acts, RunOutOfThreads, Silence, threads
<1>8. ChooseGen(c, t)
  <2>1. ~ \E p \in packets : Accept(c, t, p)
    <3>1. ~Fault(c, "main returned")
      BY <1>2, <1>4, FaultShows
    <3> QED BY <3>1 DEF Accept, Begin
  <2> QED BY <1>7, <2>1
       DEF ThreadActs, Step, ListenGossip, Begin, PeriodicRequest, ReceiveGossip, UpdateNeighbors,
           Timestamp, PushBack, TimeOut, ChooseAddress, Connect, IncomingFileInfo, IncomingData,
           StoreBlock
<1> DEFINE r == RequestGen(c)
<1>9. Chosen(c, t, r) /\ r # Unset /\ ~Full(c, r)
  <2>1. Chosen(c, t, r)
    <3>1. ~Fault(c, "unset request_gen")
      BY <1>2, <1>4, FaultShows
    <3> QED BY <1>1, <1>8, <3>1 DEF ChooseGen
  <2>2. r \in Gens /\ ~Full(c, r)
    BY <1>1, TableFacts DEF Wanted
  <2> QED BY <2>1, <2>2, SwarmFacts
<1>10. pc'[c][t] = "choose address" /\ job' = [job EXCEPT ![c][t].gen = r]
  <2>1. At(c, t, "choose address") /\ job' = [job EXCEPT ![c][t].gen = r]
    <3> HIDE DEF r
    <3> QED BY <1>9 DEF Chosen
  <2> HIDE DEF r
  <2> QED BY <1>2, <2>1 DEF At, TypeOK
<1>11. job'[c][t].gen = r
  <2>1. job[c][t].type = "CT_REQUEST" /\ job[c][t] \in Jobs
    BY DEF IInv, Working, Fits, TypeOK
  <2>2. job'[c][t] = [job[c][t] EXCEPT !.gen = r]
    BY <1>2, <1>10 DEF TypeOK
  <2>3. r \in Gens
    BY <1>1, TableFacts DEF Wanted
  <2> HIDE DEF r
  <2>4. [job[c][t] EXCEPT !.gen = r].gen = r
    BY <2>1, <2>3, RequestGenJobs
  <2> QED BY <2>2, <2>4
<1> QED BY <1>1, <1>10, <1>11

\* While a helpful neighbour has announced a generation that is not complete here,
\* send_request does not give up, nor does it use request_gen unset: it asks for one
\* of those with the fewest blocks here, whatever the sizes of the generations
\* (main.cpp:1031, 1067-1092).
THEOREM LeastRankChosen == Spec => ChoosesLeastRank
<1> DEFINE Kept == \A c \in Clients : \A t \in RequestThreads : ChoosesWell(c, t)
<1>1. IInv /\ [Next]_vars => Kept
  BY ChooseStep DEF Threads
<1>2. Spec => [][Kept]_vars
  <2> HIDE DEF Kept
  <2> QED BY <1>1, Invariant, PTL DEF Spec
<1> QED BY <1>2 DEF Kept, ChoosesWell, ChoosesLeastRank
=============================================================================

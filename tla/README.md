# CodeTorrent in TLA+

Specifications of CodeTorrent, UCLA's network-coded file distribution for mobile
ad-hoc networks (`src/codetorrent/`, with a second copy used in a testbed,
`src/codetorrent-testbed/`). A seed cuts a file into blocks and the blocks into
generations; nodes gossip which generations they have something of, request
blocks of a generation, receive random linear combinations over GF(256), keep the
innovative ones in memory and temp files, pass on new combinations of what they
hold, and decode when every generation has full rank.

## The system

| part | source | state | operations |
|---|---|---|---|
| Galois field | `galois.cpp`, `galois.h` | tables `Log`, `ALog` | `Init`, `Add`, `Sub`, `Mul`, `Div` |
| Network coding | `nc.cpp`, `nc.h` | none between calls; works on the caller's buffers and matrices | `EncodeBlock`, `ReEncodeBlock`, `IsHelpful`, `Decode` (`IncrementalDecode`, `BackSubstitution`) |
| File layout and file I/O | `codetorrent.cpp` | `num_blocks_gen`, `data`, `gen_in_memory`, the shared file, `out_filename` | `LoadFileInfo`, client `Init`, `LoadFile`, `Encode`, `DecodeGen`/`WriteFile` |
| Block store | `codetorrent.cpp` | `identity`, `buf`, temp files, `m_helpful`, `rank_vec`, `rank_vec_in_buf`, `gen_completed`, `work_mutex` | `StoreBlock`, `FlushBuf`, `PushGenBuf`, `ReadGenBuf`, `ReEncode`, `Decode` |
| Node | `main.cpp` | `ct`, `server_mode`, `decoding` | accept loop, `incoming_packet` (one thread per packet), `store_block`, `reEncode`, `send_codedBlock`, `send_fileInfo` |
| Swarm | `main.cpp` | `ct_neighbors`, the network | `send_gossip`, `listen_gossip`, `receive_gossip`, `update_neighbors`, `send_request`, `periodic_request`, `send_fileInfo_request`, `pack` |
| Testbed variant | `codetorrent-testbed/*` | the same, plus request bookkeeping and a cache of coded blocks | the same library; its own `main.cpp` |
| Scripts | `simulate.py`, `*.sh`, Makefiles | none | start-up |

How they interact. The node's main thread accepts TCP connections one at a time
and starts a detached thread per packet; that thread calls the store, whose public
methods lock `work_mutex`. Three more threads run for ever: one broadcasts gossip
over UDP, one receives it (a thread per message), and on a client one starts a
`send_request` thread every period. `ct`, `server_mode`, `decoding` and
`ct_neighbors` are globals that no lock protects. The store calls the network
coding module under its lock, and writes temp files and the output file.

What makes each part correct, and what is hard about it:

* **Galois**: `Mul` and `Div` are the field's operations, and their table lookups,
  which have no modulus, stay inside the initialised entries.
* **NC**: a block is helpful exactly if it is linearly independent of those
  stored. The elimination depends on a matrix shape built up over many calls.
* **Layout, file I/O**: seed and client cut the file alike although the client is
  not told the seed's parameter; the file's end may fall anywhere; the encoder's
  one-generation cache never serves another generation.
* **Block store**: two counters per generation say where its blocks are, through
  random evictions; nothing stored is lost; completion is counted exactly; decoding
  gets the blocks it needs. A process may die and start again over old temp files.
* **Node**: check-then-act on unprotected globals, threads that wait for the lock
  while the node changes from client to server, return paths that do not unlock.
* **Swarm**: lost and repeated gossip, neighbours that time out, a table that every
  thread changes without a lock, requests for the rarest generation, eventual
  completion.
* **Testbed variant**: a cache of coded blocks filled by one thread and emptied by
  many; a chain of requests, each sent by the thread that stored the last block, that
  must not break for good.

`PROJECT.json` lists the hazards at their lines, with the properties that cover them.

## Modules

| module | models | corresponds to |
|---|---|---|
| `Layout` | blocks and generations of a file | the arithmetic shared by `LoadFileInfo` and the client `Init` |
| `FileIO` | the encoder's cache and the output file, byte by byte | `LoadFile`, `Encode`, `WriteFile`, `DecodeGen`; a byte is its offset in the file, so a wrong block is a wrong set of offsets |
| `Galois` | `Init` loop by loop; the operations | `Galois::Init` and the inline operations, for GF(256) |
| `NC` | encoding, re-encoding, helpfulness, decoding of a generation | every loop over a block's bytes treats bytes alike, so a block carries one symbol of payload |
| `CodeTorrent` | the block store, one action per public method | calls hold `work_mutex` throughout, so each is atomic; `Restart` is a new process over the old temp files |
| `Download` | abstract: per generation a growing subspace; relaying from it; finishing once; a restart that loses it and may spoil generations something was known of | what the store promises |
| `StoreCounters` | abstract: numbers of blocks in memory and on disk, the lock left held, the file written; one step per call | what callers that look at no block see of the store |
| `CodeTorrentRefinement` | two refinement mappings | to `Download`: `known` is the row space of `m_helpful`; `stale` are the generations whose temp file had records when the process started. To `StoreCounters`: the counters, and the lengths of temp files |
| `Node` | the packet threads, one action per access to something shared | `main`'s accept loop, `incoming_packet`, `store_block`, `reEncode`; the store reduced to its counters |
| `NodeRefinement` | the refinement mapping to `StoreCounters` | `work_mutex` counts as held once a method has returned without unlocking, not while the decoder writes |
| `Swarm` | nodes, gossip, the neighbour table, requests and answers; one action per pass over the table or shared access | `listen_gossip`, `receive_gossip`, `update_neighbors`, `periodic_request`, `send_request`, `send_fileInfo_request`, `send_fileInfo`, `send_codedBlock`, `pack`, and `incoming_packet` as far as it talks to others |
| `TestbedCache` | the testbed's cache of coded blocks, step by step through the unprotected `ct_coded_blocks`, `cb` and counters | `generateCodedBlock`, `popCodedBlock`, `reEncode`, `send_codedBlock`; the testbed's `StoreBlock`, `Encode`, `ReEncode`, `CopyCodedBlock` |
| `TestbedRequests` | the testbed's chain of requests and what mends it | its `listen_gossip`, `update_neighbors`, `send_request`, `send_fileInfo_request`, `listen_data`, `store_block`, `check_neighbors`, `release[]`, `re_timestamp` |
| `MCCodeTorrent` | a field of four elements, a file and arriving vectors for TLC | |
| `LayoutProofs`, `NCProofs`, `FileIOProofs`, `CodeTorrentProofs`, `NodeProofs`, `SwarmProofs`, `TestbedCacheProofs`, `TestbedRequestsProofs` | theorems | |

`NC` takes the field's operations as constants and assumes the laws of a field;
`Galois` shows that the code's obey them, and `MCCodeTorrent` gives TLC the field of four elements, the
smallest in which a weight can differ from 0 and 1. Operators whose comment calls
them a mutant are not part of the model: each is a plausible mistake in the
definition that follows it, and shows that a property would notice.

The modules divide the program; none contains another's state. `CodeTorrent` is the
store under its lock; `Node` has the same calls reduced to the counters they read and
write, and adds the threads of one process; `Swarm` has each client's store reduced
to its ranks and adds the network. `StoreCounters` is where the first two meet: both
implement it, so what `Node` takes the store to do is what `CodeTorrent` does, and the
several steps of a call in `Node` amount to one. That and what else `Node` shows (nothing needed is dropped, one
decode, server mode with the file) is what lets `Swarm` take storing and decoding as
one step; what `Swarm` shows (requests reach a seed for ever) is what lets `Node`
assume that blocks keep arriving.

Abstractions worth knowing. `buf` is one sequence per generation instead of one
vector, because every reader filters by generation. A temp file is the sequence of
its records. Random draws (coefficients, weights, the generation to evict) are
nondeterministic. The strlen of an unset buffer in `CleanTempFiles` is a choice
between removing all temp files and none. Reading beyond `data` in `Encode` yields
junk in `FileIO` and may end the process in `Node`. `is_sim` is FALSE and
`field_size` 8, as everywhere in `main.cpp`. In `Node` the object `ct` points to is
named by the thread that constructed it, and a thread's step extends to its next
shared access.

In `Swarm` a node is its address. `send_gossip` goes round the generations it has
blocks of; as any message may be lost or late, a held generation may be heard at any
time. A packet is a TCP connection of its own: it arrives if `connect` succeeded, in
any order. `helpful_neighbors` is kept as whether it is above 0, the only question
asked of it. Five seconds of silence may pass at any time at which one of the periodic
request threads is free, as many turns of `periodic_request` fit in. A fault
(`SIGPIPE`, an unset generation used as an index, a vector reallocated under an
iterator, `main` returning when `pthread_create` fails) ends the process and its
memory with it. A request for an unset generation does not count against
`MaxPackets`: it would only hide the others.

In `TestbedCache` a coded block's contents are the set of `ReEncode` calls whose terms
are in its two halves, so that a torn block is one whose halves differ; the history
variable `overlapped` says in which unprotected places threads have met. In
`TestbedRequests` packets of one kind between the same two nodes merge, and a lost
packet frees its place only when a thread is free to take the next one.

## Runs

| run | checks | result |
|---|---|---|
| `fileio` | all files of up to 9 bytes, blocks of up to 4 bytes, up to 4 blocks per generation; every order of encodes on seeds that always, sometimes or never can open the file | layouts agree, no short read, a block encoded from loaded data is of its generation, the output is a prefix of the file at every moment |
| `galois` | GF(256), every pair of symbols | the tables, the indices and the product are right, and the operations obey the laws `NC` assumes |
| `store` | 5 blocks in generations of 2, 2, 1; buffer of 4; one restart | counters, buffer bound, completion, decoding's supply, nothing lost, ranks right in every generation whose temp file is this process's own |
| `coding` | one generation of 3 over the field of four; one restart | the matrix's shape, helpfulness = independence for all 64 vectors, sound re-encoding with unequal weights, decoding gives the file |
| `refine` | the file of `store`, two vectors per generation, weight 2, one restart | `CodeTorrent` implements `Download` |
| `restart` | as `store` | violated: after a restart the gathered blocks are not independent, because old records come first in the temp file |
| `node` | three threads, data on all, requests on one, file info on one, peers that break off | one thread decodes, server mode implies the file, packets are dropped only when nothing is missing, the lock is kept for good only by a second `Decode` after the file is written, late stores change nothing, the shared store is the sequential one of `StoreCounters`, the node becomes a server |
| `node_init` | two file-info packets at once | violated: `ct` is replaced ("just init once") |
| `swarm` | a seed and a client, three blocks in generations of 2 and 1, connections that fail, threads that run out | only announced generations are asked for, the one asked for is incomplete and of least rank, the client completes unless a process ends or threads run out |
| `swarm_gossip` | a seed and two clients | violated: a client drops another client's gossip as its own, all having `nodeId` 1 |
| `testbed_cache` | a seed with two request threads or a client with one, a data thread, the generating thread | blocks are torn, handed out twice or missing, and the process dies, only after threads met in `cb`, in the vector or between the counters |
| `testbed_requests` | a client and a seed, two blocks, lost packets, unhelpful blocks, failing connections | gossip always mends the chain: the client gets the generation, and stops asking |

Why the bounds are enough. In `fileio` every residue of the file size by block and
generation size occurs, also files of one block and one generation. In `store` the
buffer holds fewer blocks than the file, so at least one eviction precedes
completion, and generations of one block and of several both occur. Three blocks
per generation are the fewest for which an elimination has to pass more than one
row; there the buffer never fills, which `store` and `refine` cover. In `refine` two vectors
per generation suffice for a new process to gather an old record and the same block again,
so that it relays a zero block or decodes that generation wrong, as `Download` admits. In `node` two
generations of one block make the buffer overflow at the last block, so `Decode`
and a late `ReEncode` read temp files; three threads are needed for a decoder, a
second `Decode` and a third thread that waits. In `swarm` the last generation is the
smaller one, so that it may be complete while its rank is below the others' (the case
`has` is filtered for), and one thread of each kind already lets a request's scan fall
between the two halves of `update_neighbors`; two update threads make some 9 million
states and two seeds more than 11 million, beyond what a run may take, so what several
threads and nodes do to the table is left to `SwarmProofs`. `swarm_gossip` needs one
block only. In `testbed_cache` the code's 1000 blocks kept ready on a seed (`Limit`)
and 2 on a client (`Keep`) are 2 and 0: the cache becomes full and empty within two
blocks, and the number of threads that meet matters, not the length. Two request
threads on the client give more than 25 million states; its generating thread is the
second thread there. `testbed_requests` replaces `release[]`'s 100000 by 1 (`MaxRelease`):
what counts is that it is reached before the generation is complete. Runs say `CHECK_DEADLOCK FALSE`
where a complete download, a lost lock or an ended process has no further step.

`node` restricts itself to one thread for file info and one for requests.
`node_init` shows what two file-info threads do. Two `ReEncode` calls at once race on
`cb`, which each copies after unlocking; `testbed_cache` explores it in the testbed's
copy, where the lock is given up even before the block is computed.

### Fairness

Three modules state fairness; all excuse the liveness property when the process ends.

* `Node`. Each thread is weakly fair: the operating system schedules it, and a lock
  that is free for good is handed over (the locked sections of a downloading node are
  single steps). Arrivals are strongly fair: the file info and, for each generation,
  an innovative block arrive again and again as long as the node takes packets;
  gossip and the periodic request repeat for ever. `BecomesServer` is also excused
  when the main thread is caught in `recv`.
* `Swarm`. Threads are weakly fair. What the program repeats for ever and chance may
  spoil (a gossip message heard, a turn of `periodic_request` while a neighbour is in
  reach, the draw of a neighbour, `connect`, an innovative answer) is strongly fair:
  it succeeds at some time if it can again and again. One assumption is about timing:
  that the first loop of `send_request` does not for ever fall between the two halves
  of `update_neighbors`, two adjacent statements that it would have to hit in every
  period.
* `TestbedRequests`. The same: threads weakly fair; hearing a peer, sending the file
  info request and blocks' requests, the peer's answer, arrival and an innovative
  block strongly fair. No timer is assumed ever to run out, and nothing periodic to
  ask: in this variant only gossip and answers lead to requests.

## What is proved

Checked by TLAPS, for every value of the constants:

* `LayoutProofs`: the number of generations, their sizes and that these add up to the
  file's blocks, for every number of blocks and blocks per generation; and the induction
  the other modules use.
* `FileIOProofs`: for all file, block and generation sizes, all safety properties of
  the run `fileio`: the client's layout equals the seed's (`ClientLayout`), every
  generation has between one block and as many as the first (`LargestFirst`), no read
  of `LoadFile` falls short (`ReadsComplete`), a block is encoded from its own
  generation (`EncoderCorrect`), and the output is a prefix of the file, in the end all
  of it (`OutputCorrect`).
* `NCProofs`: over any field, for generations of any size, a re-encoded block is sound
  (`ReEncodeSound`) and elimination followed by back substitution turns any n independent
  blocks into the data (`DecodeCorrect`).
* `CodeTorrentProofs`: for every layout, field, set of arriving vectors and number
  of restarts, all safety properties of the runs `store` and `coding`: the bookkeeping
  (`TypeCorrect`, `BookkeepingCorrect`, `BufferStaysBelow`, `CompletionCounted`,
  `DecodeSupplied`, the action property `NothingStoredIsLost`), and what the
  store knows (`MatrixTriangular`, `GetRankCorrect`, `HelpfulCorrect`,
  `ReEncodedCorrect`, `DecodedCorrect`); and that `CodeTorrent` implements `Download`
  (`StoreImplementsDownload`) and `StoreCounters` (`StoreImplementsCounters`; no
  run has `ImplementsCounters`, TLC confirms it when it is added to `store.cfg`).
* `NodeProofs`: for every layout and any number of data and request threads, but one
  thread that handles file infos, all the safety properties of the run `node`, the
  refinement of `StoreCounters` among them.
* `SwarmProofs`: for every layout, any number of seeds, clients and threads, and
  whatever fails, `RequestsWereAnnounced`, `ChoosesLeastRank`, and that no client is
  ever asked for anything.
* `TestbedCacheProofs`: for any generation size, cache limits and number of threads,
  the safety properties of `testbed_cache`.
* `TestbedRequestsProofs`: for any number of peers and threads, types, that no block
  comes before the client has its object (`ObjectFirst`), and that a thread finds its
  peer's entry when it comes back to it (`PeersKnown`).

`FileIOProofs` numbers the file's blocks: block i of generation g is block
`num_blocks_gen[0] * g + i`, because only the last generation may be smaller. So only
the file's last block reaches beyond its end, and the place where `DecodeGen` starts to
write is the sum of the sizes before. The loops over blocks and bytes are recursive
functions, whose values come by induction from `LayoutProofs`.

`NCProofs` argues about subspaces. A row operation adds a multiple of a row to another,
so a subspace that holds the rows before holds them after, and the other way round; and
the vectors that elimination clears to nothing are themselves a subspace. Hence what
`IsHelpful` clears is exactly the span of the rows of `m_helpful`.

The inductive invariant of the bookkeeping in `CodeTorrentProofs` is
`TypeOK /\ Accounting`. Neither half is inductive alone: that the counters stay natural numbers when an eviction
subtracts from them needs `rank_vec_in_buf = Len(buf)`, and that in turn needs to
know that `buf` holds sequences. The buffer bound is then an invariant on top of
it: a store adds one block to a buffer below its size, and the evicted generation
has at least one, since the draw takes only generations with blocks in memory and
the counter is the true number. Completion adds that the set of full generations
changes only when a rank reaches its size. `DecodeSupplied` follows from the
completion count: as many full generations as generations means all of them.
`NothingStoredIsLost` compares the gathered sets before and after an eviction,
which moves blocks from memory to the file's end.

What the store knows needs more, the invariant `CInv`: `m_helpful` is in echelon form
with `rank_vec` rows in use, and the coefficient vectors of the blocks in memory and in
the temp file are free, `rank_vec` many, and lie in the same subspaces as the rows. The
matrix alone says nothing of the blocks, nor the blocks of the matrix; `IsHelpful` reads
the one and decides about the others, which only the tie between them makes right. It speaks of the set of vectors, because eviction
reverses and moves blocks, and only of generations whose temp file this process alone
wrote: of others it is false (run `restart`).

The refinement maps `known` to the row space of the matrix; a stored block extends it by
itself, an eviction leaves it alone. Over an old temp file the blocks and the matrix part,
but three things remain: the matrix still says what was received, the blocks gathered are
still `rank_vec` many, and each was coded from the shared file. So what is passed on keeps its true payload, nothing is
passed on only if nothing is known, decoding yields a file of the right size, and
generations without old records come to no harm. That only a generation something was
known of can be stale needs one more invariant, `ProcessInv`: once `identity` is
`CT_SERVER`, when the counters no longer describe the temp files, every generation is full.

`NodeProofs`' invariant says where threads can be. Past the test of
`DownloadCompleted` a thread has seen every generation full, and full they stay,
because a full generation accepts nothing. `identity` becomes `CT_SERVER` in the step
that takes `work_mutex` to write the file; whoever finds it so with the mutex free
comes after the file is written. That gives one decode, server mode with the file, and
why the `Decode` that returns without unlocking does no harm to a download. One
file-info thread is assumed because with two `ct` may be replaced, and then none of
it holds as stated (run `node_init`); the theorems carry that as an assumption.

The two refinements of `StoreCounters` need no invariant beyond these. In `CodeTorrent`
the sum of `rank_vec_in_buf` is `buf.size()` by `Accounting`, and `DecodeSupplied` says
that what is decoded is everything. In `Node` the first `Decode` takes effect where it
has written the file; until then the decoder's hold on `work_mutex` is not shown to the
abstract store, which may be done because, by the invariant, nobody else can act on the store
meanwhile. A second `Decode`, or a `ReEncode` for want of a block, does show its hold.

`TestbedCacheProofs`' invariant is about the one thread that is alone in a place. As
long as `overlapped` does not name `cb`, the vector or the counters, the thread inside
finds exactly its own terms, the block it saw, or agreeing counters; a second thread
that enters makes `overlapped` name the place. So every failure the model contains
needs two threads to have met; a full cache or an empty buffer alone do not suffice.

In `TestbedRequestsProofs` the one bound is on `unhelpful_counter`, which any block may
raise and a look at it resets: there are always at least as many threads between
raising and looking as it counts.

`SwarmProofs` rests on the table of a running client only learning: no pass over it
removes an entry or a generation from one, so that what a request thread read there
still holds when it connects, whatever others did in between. From the seeds being
the only nodes not dropped it follows that the network is a star: clients ask seeds
and seeds answer. `ChoosesLeastRank` further needs that a complete generation other
than the last is at least as large as any, so that any incomplete one has a lower
rank; that follows from the layout (`LayoutProofs`), not from what `send_request` tests.
That there is a generation of least rank, the last of several, rests on the library's
theorems that `<` is well-founded on the naturals.

The proofs assume what the modules' ASSUMEs say, and TLC evaluates every one of them on
the runs. A file has at least one block, a generation at least one and at most all.
`FieldAssumption`, the laws of a field, is checked for the code's only field, GF(256), by
`FieldLaws` in the run `galois`: for all pairs of symbols, and the laws about three with
the third a power of 2, as the powers of 2 add up to every symbol and 2 multiplies up to
every one but 0. `CodingAssumption`: a block's vectors have as many symbols as the
generation has blocks, and weights are not 0, because `ReEncodeBlock` draws again when
they are. `TestbedRequests` assumes that threads are finitely many.

The prover takes no induction rule with an operator as parameter. Induction is had from
the library's theorem that `<` is well-founded on the naturals: a set of naturals has a
least element (`Least`), so one that holds 0 and with each number the next holds them all
(`Induction`), and a function given by its next value exists (`Recursion`, in
`LayoutProofs`). That is why the loops the proofs are about are recursive functions.

Only model-checked are liveness (`BecomesServer`, both `Completes`), on the small
instances above, and `Galois`, whose XOR is outside the prover's reach; there the run is
exhaustive over the code's field already, so a proof would add nothing. The restart
violation and the other two are counterexamples, and need no proof.

## Not modelled

* Allocation and freeing (`Alloc*`, `Free*`, `CopyCodedBlock`, destructor). Reading
  them, `CleanMHelpful` tests its pointer the wrong way round, `IsHelpful` leaks
  `new_vec` at full rank and `CleanBuffer` does nothing once `identity` is
  `CT_SERVER`; no property is about memory.
* The all-generations overloads of `NC::Decode` and its helpers, `PrintBlocks` and
  `NthSymbol` for fields other than 8 bits: nobody calls them.
* File names: `ext2` has room for two digits.
* Windows branches, `ap_detection` (always false), logging and timing output.
* Scripts, Makefiles, build logs, the unused `itoa` of `extra.h`; the `send_request`
  without parameters, which nobody calls.
* The testbed's library beyond what `TestbedCache` has: the same code but for
  formatting, the `srand` calls missing in its `nc.cpp`, and its output file, which
  has no suffix. What its `main.cpp` only prints (`request_seq`,
  `send_request_time`, summaries).
* A client that finished holds `filename.received` and cannot open `filename`: its
  `Encode` combines the last generation loaded, or none, under the requested label.
  `FileIO` contains it, but `EncodesItsGeneration` speaks only of nodes that can open
  the file and of generations that are in memory.
* Failover between seeds: `Swarm` and its proofs admit several seeds, but `swarm`
  has one, so `Completes` is not checked for a seed that dies while another lives.
* In `TestbedCache`, blocks popped and never freed, and a second generating thread;
  in `TestbedRequests`, a second entry of the same address, which no lookup finds,
  and files of several generations, of which the testbed requests only the first.

## Plan

1. Done: `Layout`, `FileIO`, `Galois`, `NC`, `CodeTorrent`, `Download`, their runs
   and the proofs about layout and bookkeeping; `Node`.
2. Done: `Swarm`, its runs and proofs; `NodeProofs`.
3. Done: `TestbedCache` with its proofs, `TestbedRequests`.
4. Done: `NCProofs`, the rest of `FileIOProofs`, what the store knows and its
   refinement of `Download`, `TestbedRequestsProofs`.
5. Done: the refinement of `Download` through restarts; `StoreCounters`, implemented by
   `CodeTorrent` and `Node`.

Left for another day: how often the testbed's chain may break between two blocks, as a
safety property; `Swarm`'s clients as `StoreCounters` with the buffer hidden.

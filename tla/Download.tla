------------------------------ MODULE Download ------------------------------
(***************************************************************************)
(* What the block store of a downloading node promises, without buffers,   *)
(* files, counters or matrices: for each generation it knows a subspace of *)
(* coefficient vectors, it can pass on anything in that subspace, and when *)
(* it knows everything it produces the file.  A restart loses what was     *)
(* known and may leave a generation stale: what the store passes on of it  *)
(* still carries its true payload, but need not be known, nor nonzero, and *)
(* what it produces of it may be anything.  Other generations suffer no    *)
(* harm.  CodeTorrent implements this (CodeTorrentRefinement).             *)
(***************************************************************************)
EXTENDS NC

CONSTANTS
    Gens,          \* the generations of the file
    Size(_),       \* their sizes in blocks
    Data           \* their contents

VARIABLES
    known,         \* per generation, the subspace spanned by what was received
    stale,         \* the generations mixed with what an earlier process received
    output,        \* the decoded file, <<>> before
    relayed        \* the block passed on last, NoBlock if there was none to give

vars == <<known, stale, output, relayed>>

NoBlock == [gen |-> -1]

Nothing(g) == {ZeroVector(Size(g))}
NothingKnown == [g \in Gens |-> Nothing(g)]

Init ==
    /\ known = NothingKnown
    /\ stale = {}
    /\ output = <<>>
    /\ relayed = NoBlock

\* An innovative block arrives.
Receive(g) ==
    \E v \in Vector(Size(g)) \ known[g] :
        /\ known' = [known EXCEPT ![g] = Extend(@, v, Size(g))]
        /\ UNCHANGED <<stale, output, relayed>>

\* A neighbour asks for a block of g.
Relay(g) ==
    /\ \/ /\ known[g] # Nothing(g)
          /\ \E v \in IF g \in stale THEN Vector(Size(g)) ELSE known[g] \ Nothing(g) :
                relayed' = [gen |-> g, coeffs |-> v, sums |-> Dot(Data[g], v, Size(g))]
       \/ /\ known[g] = Nothing(g)
          /\ relayed' = NoBlock
    /\ UNCHANGED <<known, stale, output>>

\* Everything is known: produce a file of the right size, once, wrong in stale
\* generations at most.
Finish ==
    /\ output = <<>>
    /\ \A g \in Gens : known[g] = Vector(Size(g))
    /\ DOMAIN output' = Gens
    /\ \A g \in Gens :
        /\ output'[g] \in Vector(Size(g))
        /\ g \notin stale => output'[g] = Data[g]
    /\ UNCHANGED <<known, stale, relayed>>

\* The process dies and another starts in its place.  Only what something was
\* known of, or what was stale already, can be stale.
Restart ==
    /\ known' = NothingKnown
    /\ stale' \subseteq stale \cup {g \in Gens : known[g] # Nothing(g)}
    /\ output' = <<>>
    /\ relayed' = NoBlock

Next ==
    \/ \E g \in Gens : Receive(g) \/ Relay(g)
    \/ Finish
    \/ Restart

Spec == Init /\ [][Next]_vars
=============================================================================

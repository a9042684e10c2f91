------------------------- MODULE CodeTorrentProofs -------------------------
(***************************************************************************)
(* The block store for every file layout, field and set of arriving        *)
(* blocks.                                                                 *)
(*                                                                         *)
(* First the bookkeeping: types, where blocks are, the bound on the memory *)
(* buffer, the meaning of gen_completed, and that no stored block is lost. *)
(* The inductive invariant is  TypeOK /\ Accounting : FlushBuf subtracts   *)
(* the number of evicted blocks from a counter, which stays a natural      *)
(* number only because the counter is that number.                         *)
(*                                                                         *)
(* Then the knowledge: what IsHelpful decides, that the number of blocks   *)
(* gathered is their rank, that what is re-encoded is sound and what is    *)
(* decoded is the file, and that CodeTorrent implements Download.  The     *)
(* inductive invariant, CInv, ties three things together: the triangular   *)
(* matrix m_helpful, the set of coefficient vectors of the blocks held in  *)
(* memory or on disk, and rank_vec.  The vectors are free, rank_vec many,  *)
(* and lie in the same subspaces as the matrix' rows, in each generation   *)
(* whose temp file holds no records of an earlier process.  It speaks of a *)
(* set because eviction reverses and moves blocks: their order means       *)
(* nothing.                                                                *)
(*                                                                         *)
(* Last, that CodeTorrent implements StoreCounters, which takes no more    *)
(* than the bookkeeping.                                                   *)
(***************************************************************************)
EXTENDS CodeTorrentRefinement, LayoutProofs, NCProofs, FiniteSetTheorems, SequenceTheorems

-----------------------------------------------------------------------------
(* The constants.                                                          *)

LEMMA LayoutFacts ==
    /\ num_gens \in Nat \ {0}
    /\ IsFiniteSet(Gens) /\ Cardinality(Gens) = num_gens
    /\ DOMAIN num_blocks_gen = Gens
    /\ \A g \in Gens : num_blocks_gen[g] \in 1..per_gen
    /\ per_gen \in Nat \ {0}
    /\ buffer_size \in Nat
<1>1. num_blocks \in Nat \ {0} /\ per_gen \in Nat \ {0}
  BY LayoutAssumption
<1>2. num_gens \in Nat \ {0}
  BY <1>1, GenerationCount DEF num_gens
<1>3. /\ DOMAIN num_blocks_gen = 0..NumGens(num_blocks, per_gen) - 1
      /\ \A g \in DOMAIN num_blocks_gen : num_blocks_gen[g] \in 1..per_gen
  BY <1>1, GenerationSizes DEF num_blocks_gen
<1>4. IsFiniteSet(Gens) /\ Cardinality(Gens) = num_gens
  BY <1>2, FS_Interval DEF Gens
<1> QED BY <1>1, <1>2, <1>3, <1>4 DEF Gens, num_gens, buffer_size

LEMMA ReverseProperties ==
    ASSUME NEW S, NEW s \in Seq(S)
    PROVE  /\ Reverse(s) \in Seq(S)
           /\ Len(Reverse(s)) = Len(s)
           /\ ToSet(Reverse(s)) = ToSet(s)
<1>1. Len(s) \in Nat /\ DOMAIN s = 1..Len(s)
  BY LenProperties
<1>2. \A i \in 1..Len(s) : (Len(s) - i) + 1 \in 1..Len(s)
  BY <1>1
<1>3. \A i \in 1..Len(s) : s[i] \in S
  BY ElementOfSeq
<1>4. Reverse(s) \in [1..Len(s) -> S]
  BY <1>2, <1>3 DEF Reverse
<1>5. Reverse(s) \in Seq(S)
  BY <1>1, <1>4, SeqDef
<1>6. Len(Reverse(s)) = Len(s)
  BY <1>1, <1>4, <1>5, LenProperties
<1>7. ASSUME NEW i \in 1..Len(s)
      PROVE  \E j \in 1..Len(s) : Reverse(s)[j] = s[i]
  <2>1. (Len(s) - i) + 1 \in 1..Len(s)
    BY <1>2
  <2>2. Reverse(s)[(Len(s) - i) + 1] = s[(Len(s) - ((Len(s) - i) + 1)) + 1]
    BY <2>1 DEF Reverse
  <2>3. (Len(s) - ((Len(s) - i) + 1)) + 1 = i
    BY <1>1
  <2> QED BY <2>1, <2>2, <2>3
<1>8. DOMAIN Reverse(s) = 1..Len(s)
  BY <1>4
<1>9. \A i \in 1..Len(s) : \E j \in 1..Len(s) : Reverse(s)[i] = s[j]
  BY <1>2 DEF Reverse
<1>10. ToSet(Reverse(s)) = ToSet(s)
  <2>1. \A x : x \in ToSet(s) <=> \E i \in 1..Len(s) : x = s[i]
    BY <1>1 DEF ToSet
  <2>2. \A x : x \in ToSet(Reverse(s)) <=> \E i \in 1..Len(s) : x = Reverse(s)[i]
    BY <1>8 DEF ToSet
  <2> QED BY <1>7, <1>9, <2>1, <2>2
<1> QED BY <1>5, <1>6, <1>10

LEMMA ConcatElements ==
    ASSUME NEW S, NEW s \in Seq(S), NEW t \in Seq(S)
    PROVE  ToSet(s \o t) = ToSet(s) \cup ToSet(t)
<1>1. /\ Len(s) \in Nat /\ DOMAIN s = 1..Len(s)
      /\ Len(t) \in Nat /\ DOMAIN t = 1..Len(t)
  BY LenProperties
<1>2. /\ s \o t \in Seq(S) /\ Len(s \o t) = Len(s) + Len(t)
      /\ \A i \in 1..Len(s) + Len(t) :
            (s \o t)[i] = IF i <= Len(s) THEN s[i] ELSE t[i - Len(s)]
  BY ConcatProperties
<1>3. DOMAIN (s \o t) = 1..Len(s) + Len(t)
  BY <1>2, LenProperties
<1>4. ASSUME NEW i \in 1..Len(s)
      PROVE  s[i] \in ToSet(s \o t)
  <2>1. i \in 1..Len(s) + Len(t) /\ (s \o t)[i] = s[i]
    BY <1>1, <1>2
  <2> QED BY <1>3, <2>1 DEF ToSet
<1>5. ASSUME NEW i \in 1..Len(t)
      PROVE  t[i] \in ToSet(s \o t)
  <2> DEFINE k == Len(s) + i
  <2>1. k \in 1..Len(s) + Len(t) /\ ~(k <= Len(s)) /\ k - Len(s) = i
    BY <1>1
  <2>2. (s \o t)[k] = t[i]
    BY <1>2, <2>1
  <2> QED BY <1>3, <2>1, <2>2 DEF ToSet
<1>6. ASSUME NEW i \in 1..Len(s) + Len(t)
      PROVE  (s \o t)[i] \in ToSet(s) \cup ToSet(t)
  <2>1. CASE i <= Len(s)
    <3>1. i \in 1..Len(s)
      BY <1>1, <2>1
    <3> QED BY <1>1, <1>2, <2>1, <3>1 DEF ToSet
  <2>2. CASE ~(i <= Len(s))
    <3>1. i - Len(s) \in 1..Len(t)
      BY <1>1, <2>2
    <3> QED BY <1>1, <1>2, <2>2, <3>1 DEF ToSet
  <2> QED BY <2>1, <2>2
<1> QED BY <1>1, <1>3, <1>4, <1>5, <1>6 DEF ToSet

LEMMA AppendElements ==
    ASSUME NEW S, NEW s \in Seq(S), NEW x \in S
    PROVE  ToSet(Append(s, x)) = ToSet(s) \cup {x}
<1>1. Len(s) \in Nat /\ DOMAIN s = 1..Len(s)
  BY LenProperties
<1>2. /\ Append(s, x) \in Seq(S) /\ Len(Append(s, x)) = Len(s) + 1
      /\ \A i \in 1..Len(s) : Append(s, x)[i] = s[i]
      /\ Append(s, x)[Len(s) + 1] = x
  BY AppendProperties
<1>3. DOMAIN Append(s, x) = 1..Len(s) + 1
  BY <1>2, LenProperties
<1>4. \A i : i \in 1..Len(s) + 1 <=> i \in 1..Len(s) \/ i = Len(s) + 1
  BY <1>1
<1>5. \A y : y \in ToSet(Append(s, x)) <=> \E i \in 1..Len(s) + 1 : y = Append(s, x)[i]
  BY <1>3 DEF ToSet
<1>6. \A y : y \in ToSet(s) <=> \E i \in 1..Len(s) : y = s[i]
  BY <1>1 DEF ToSet
<1> QED BY <1>2, <1>4, <1>5, <1>6

\* A temp file after PushGenBuf of the buffered blocks t to the blocks s in it.
LEMMA PushedFile ==
    ASSUME NEW S, NEW s \in Seq(S), NEW t \in Seq(S)
    PROVE  /\ s \o Reverse(t) \in Seq(S)
           /\ Len(s \o Reverse(t)) = Len(s) + Len(t)
           /\ ToSet(s \o Reverse(t)) = ToSet(s) \cup ToSet(t)
<1>1. /\ Reverse(t) \in Seq(S) /\ Len(Reverse(t)) = Len(t)
      /\ ToSet(Reverse(t)) = ToSet(t)
  BY ReverseProperties
<1>2. s \o Reverse(t) \in Seq(S) /\ Len(s \o Reverse(t)) = Len(s) + Len(Reverse(t))
  BY <1>1, ConcatProperties
<1>3. ToSet(s \o Reverse(t)) = ToSet(s) \cup ToSet(Reverse(t))
  BY <1>1, ConcatElements
<1> QED BY <1>1, <1>2, <1>3

-----------------------------------------------------------------------------
(* The memory buffer's size.                                               *)

\* buf as StoreBlock and FlushBuf build it: per generation a sequence of at
\* most per_gen blocks.
IsBuffer(b) ==
    /\ b = [g \in Gens |-> b[g]]
    /\ \A g \in Gens : b[g] \in Seq(CodedBlocks(g)) /\ Len(b[g]) <= per_gen

LEMMA SlotsFinite ==
    ASSUME NEW b, IsBuffer(b)
    PROVE  /\ IsFiniteSet(BufSlots(b))
           /\ BufSize(b) \in Nat
<1>1. IsFiniteSet(Gens \X (1..per_gen))
  <2>1. IsFiniteSet(1..per_gen)
    BY LayoutFacts, FS_Interval
  <2> QED BY <2>1, LayoutFacts, FS_Product
<1>2. BufSlots(b) \in SUBSET (Gens \X (1..per_gen))
  <2> SUFFICES ASSUME NEW g \in Gens, NEW i \in 1..Len(b[g])
               PROVE  i \in 1..per_gen
    BY DEF BufSlots
  <2>1. Len(b[g]) \in Nat /\ Len(b[g]) <= per_gen
    BY LenProperties DEF IsBuffer
  <2> QED BY <2>1, LayoutFacts
<1>3. IsFiniteSet(BufSlots(b))
  BY <1>1, <1>2, FS_Subset
<1> QED BY <1>3, FS_CardinalityType DEF BufSize

LEMMA SlotMember ==
    ASSUME NEW b, NEW s
    PROVE  s \in BufSlots(b) <=> \E g \in Gens : \E i \in 1..Len(b[g]) : s = <<g, i>>
<1>1. ASSUME s \in BufSlots(b)
      PROVE  \E g \in Gens : \E i \in 1..Len(b[g]) : s = <<g, i>>
  <2>1. PICK g \in Gens : s \in {g} \X (1..Len(b[g]))
    BY <1>1 DEF BufSlots
  <2> QED BY <2>1
<1>2. ASSUME NEW g \in Gens, NEW i \in 1..Len(b[g]), s = <<g, i>>
      PROVE  s \in BufSlots(b)
  <2>1. s \in {g} \X (1..Len(b[g]))
    BY <1>2
  <2> QED BY <2>1 DEF BufSlots
<1> QED BY <1>1, <1>2, Zenon

Stored(b, g, block) == [b EXCEPT ![g] = Append(@, block)]

\* Storing a block adds one slot.
LEMMA AppendSlot ==
    ASSUME NEW b, IsBuffer(b), NEW g \in Gens, NEW block \in CodedBlocks(g),
           Len(b[g]) < per_gen
    PROVE  LET b1 == Stored(b, g, block)
           IN  /\ IsBuffer(b1)
               /\ b1[g] = Append(b[g], block)
               /\ Len(b1[g]) = Len(b[g]) + 1
               /\ \A h \in Gens \ {g} : b1[h] = b[h]
               /\ BufSize(b1) = BufSize(b) + 1
<1> DEFINE b1 == Stored(b, g, block)
<1>1. /\ b[g] \in Seq(CodedBlocks(g))
      /\ Len(b[g]) \in Nat
  BY LenProperties DEF IsBuffer
<1>2. /\ b1[g] = Append(b[g], block)
      /\ \A h \in Gens \ {g} : b1[h] = b[h]
      /\ b1 = [h \in Gens |-> b1[h]]
  BY DEF IsBuffer, Stored
<1>3. /\ Append(b[g], block) \in Seq(CodedBlocks(g))
      /\ Len(Append(b[g], block)) = Len(b[g]) + 1
  BY <1>1, AppendProperties
<1> HIDE DEF b1
<1>4. IsBuffer(b1)
  <2>1. ASSUME NEW h \in Gens
        PROVE  b1[h] \in Seq(CodedBlocks(h)) /\ Len(b1[h]) <= per_gen
    <3>1. CASE h = g
      BY <1>1, <1>2, <1>3, <3>1, LayoutFacts
    <3>2. CASE h # g
      BY <1>2, <3>2 DEF IsBuffer
    <3> QED BY <3>1, <3>2
  <2> QED BY <1>2, <2>1 DEF IsBuffer
<1>5. BufSlots(b1) = BufSlots(b) \cup {<<g, Len(b[g]) + 1>>}
  <2>1. 1..Len(b1[g]) = (1..Len(b[g])) \cup {Len(b[g]) + 1}
    BY <1>1, <1>2, <1>3
  <2>2. ASSUME NEW h \in Gens, NEW i
        PROVE  i \in 1..Len(b1[h]) <=> i \in 1..Len(b[h]) \/ (h = g /\ i = Len(b[g]) + 1)
    BY <1>2, <2>1
  <2>3. ASSUME NEW s
        PROVE  s \in BufSlots(b1) <=> s \in BufSlots(b) \/ s = <<g, Len(b[g]) + 1>>
    <3>1. ASSUME s \in BufSlots(b1)
          PROVE  s \in BufSlots(b) \/ s = <<g, Len(b[g]) + 1>>
      <4>1. PICK h \in Gens : \E i \in 1..Len(b1[h]) : s = <<h, i>>
        BY <3>1, SlotMember
      <4>2. PICK i \in 1..Len(b1[h]) : s = <<h, i>>
        BY <4>1
      <4> QED BY <2>2, <4>2, SlotMember
    <3>2. ASSUME s \in BufSlots(b) \/ s = <<g, Len(b[g]) + 1>>
          PROVE  s \in BufSlots(b1)
      <4>1. \E h \in Gens : \E i \in 1..Len(b1[h]) : s = <<h, i>>
        BY <2>2, <3>2, SlotMember
      <4> QED BY <4>1, SlotMember
    <3> QED BY <3>1, <3>2
  <2> QED BY <2>3
<1>6. <<g, Len(b[g]) + 1>> \notin BufSlots(b)
  <2>1. Len(b[g]) + 1 \notin 1..Len(b[g])
    BY <1>1
  <2> QED BY <2>1 DEF BufSlots
<1>7. BufSize(b1) = BufSize(b) + 1
  BY <1>5, <1>6, SlotsFinite, FS_AddElement DEF BufSize
<1> QED BY <1>2, <1>3, <1>4, <1>7 DEF b1

Evicted(b, g) == [b EXCEPT ![g] = <<>>]

\* Evicting a generation that has blocks frees at least one slot.
LEMMA EvictSlots ==
    ASSUME NEW b, IsBuffer(b), NEW g \in Gens, Len(b[g]) > 0
    PROVE  LET b1 == Evicted(b, g)
           IN  /\ IsBuffer(b1)
               /\ Len(b1[g]) = 0
               /\ \A h \in Gens \ {g} : b1[h] = b[h]
               /\ BufSize(b1) < BufSize(b)
<1> DEFINE b1 == Evicted(b, g)
<1>1. Len(b[g]) \in Nat /\ 1 \in 1..Len(b[g])
  BY LenProperties DEF IsBuffer
<1>2. /\ b1[g] = <<>>
      /\ \A h \in Gens \ {g} : b1[h] = b[h]
      /\ b1 = [h \in Gens |-> b1[h]]
  BY DEF IsBuffer, Evicted
<1> HIDE DEF b1
<1>3. b1[g] \in Seq(CodedBlocks(g)) /\ Len(b1[g]) = 0
  <2>1. <<>> \in Seq(CodedBlocks(g)) /\ Len(<<>>) = 0
    BY EmptySeq
  <2> QED BY <1>2, <2>1
<1>4. IsBuffer(b1)
  <2>1. ASSUME NEW h \in Gens
        PROVE  b1[h] \in Seq(CodedBlocks(h)) /\ Len(b1[h]) <= per_gen
    <3>1. CASE h = g
      BY <1>3, <3>1, LayoutFacts
    <3>2. CASE h # g
      BY <1>2, <3>2 DEF IsBuffer
    <3> QED BY <3>1, <3>2
  <2> QED BY <1>2, <2>1 DEF IsBuffer
<1>5. BufSlots(b1) \subseteq BufSlots(b) \ {<<g, 1>>}
  <2>1. 1..Len(b1[g]) = {}
    BY <1>3
  <2>2. ASSUME NEW h \in Gens, NEW i \in 1..Len(b1[h])
        PROVE  <<h, i>> \in BufSlots(b) /\ <<h, i>> # <<g, 1>>
    <3>1. h # g /\ i \in 1..Len(b[h])
      BY <1>2, <2>1
    <3> QED BY <3>1, SlotMember
  <2>3. ASSUME NEW s \in BufSlots(b1)
        PROVE  s \in BufSlots(b) /\ s # <<g, 1>>
    <3>1. PICK h \in Gens : \E i \in 1..Len(b1[h]) : s = <<h, i>>
      BY SlotMember
    <3> QED BY <2>2, <3>1
  <2> QED BY <2>3
<1>6. <<g, 1>> \in BufSlots(b)
  BY <1>1 DEF BufSlots
<1>7. BufSize(b1) < BufSize(b)
  <2> DEFINE rest == BufSlots(b) \ {<<g, 1>>}
  <2>1. IsFiniteSet(rest) /\ Cardinality(rest) = BufSize(b) - 1
    BY <1>6, SlotsFinite, FS_RemoveElement DEF BufSize
  <2>2. BufSize(b1) <= Cardinality(rest)
    BY <1>5, <2>1, FS_Subset DEF BufSize
  <2> HIDE DEF rest
  <2> QED BY <1>4, <2>1, <2>2, SlotsFinite
<1> QED BY <1>2, <1>3, <1>4, <1>7 DEF b1

-----------------------------------------------------------------------------
(* The steps.                                                              *)

\* Blocks held in one of the two places.
Held(b, f, g) == ToSet(b[g]) \cup ToSet(f[g])

IsFile(f) ==
    /\ f = [g \in Gens |-> f[g]]
    /\ \A g \in Gens : f[g] \in Seq(CodedBlocks(g))

\* FlushBuf moves blocks and counts what it moves.
LEMMA FlushStep ==
    ASSUME NEW b, IsBuffer(b), IsFile(file),
           NEW in_buf \in [Gens -> Nat], \A g \in Gens : in_buf[g] = Len(b[g]),
           FlushBuf(b, in_buf)
    PROVE  /\ IsBuffer(buf') /\ IsFile(file')
           /\ rank_vec_in_buf' \in [Gens -> Nat]
           /\ \A g \in Gens :
                /\ rank_vec_in_buf'[g] = Len(buf'[g])
                /\ Len(buf'[g]) <= Len(b[g])
                /\ Len(file'[g]) + Len(buf'[g]) = Len(file[g]) + Len(b[g])
                /\ Held(buf, file, g)' = Held(b, file, g)
           /\ BufSize(b) <= buffer_size => BufSize(buf') < buffer_size
<1>1. CASE BufSize(b) < buffer_size /\ buf' = b /\ rank_vec_in_buf' = in_buf /\ UNCHANGED file
  <2>1. \A g \in Gens : Len(b[g]) \in Nat /\ Len(file[g]) \in Nat
    BY LenProperties DEF IsBuffer, IsFile
  <2> QED BY <1>1, <2>1 DEF IsFile, Held
<1>2. ASSUME NEW e \in Gens, in_buf[e] > 0,
             file' = [file EXCEPT ![e] = @ \o Reverse(b[e])],
             buf' = [b EXCEPT ![e] = <<>>],
             rank_vec_in_buf' = [in_buf EXCEPT ![e] = @ - Len(b[e])]
      PROVE  /\ IsBuffer(buf') /\ IsFile(file')
             /\ rank_vec_in_buf' \in [Gens -> Nat]
             /\ \A g \in Gens :
                  /\ rank_vec_in_buf'[g] = Len(buf'[g])
                  /\ Len(buf'[g]) <= Len(b[g])
                  /\ Len(file'[g]) + Len(buf'[g]) = Len(file[g]) + Len(b[g])
                  /\ Held(buf, file, g)' = Held(b, file, g)
             /\ BufSize(b) <= buffer_size => BufSize(buf') < buffer_size
  <2>1. \A g \in Gens :
            /\ b[g] \in Seq(CodedBlocks(g)) /\ file[g] \in Seq(CodedBlocks(g))
            /\ Len(b[g]) \in Nat /\ Len(file[g]) \in Nat
    BY LenProperties DEF IsBuffer, IsFile
  <2>2. /\ IsBuffer(buf')
        /\ Len(buf'[e]) = 0
        /\ \A g \in Gens \ {e} : buf'[g] = b[g]
        /\ BufSize(buf') < BufSize(b)
    <3>1. Len(b[e]) > 0 /\ buf' = Evicted(b, e)
      BY <1>2 DEF Evicted
    <3> QED BY <3>1, EvictSlots
  <2>4. /\ file[e] \o Reverse(b[e]) \in Seq(CodedBlocks(e))
        /\ Len(file[e] \o Reverse(b[e])) = Len(file[e]) + Len(b[e])
        /\ ToSet(file[e] \o Reverse(b[e])) = ToSet(file[e]) \cup ToSet(b[e])
    <3> DEFINE s == file[e]
               r == b[e]
    <3>1. s \in Seq(CodedBlocks(e)) /\ r \in Seq(CodedBlocks(e))
      BY <2>1
    <3> HIDE DEF s, r
    <3>2. /\ s \o Reverse(r) \in Seq(CodedBlocks(e))
          /\ Len(s \o Reverse(r)) = Len(s) + Len(r)
          /\ ToSet(s \o Reverse(r)) = ToSet(s) \cup ToSet(r)
      BY <3>1, PushedFile
    <3> QED BY <3>2 DEF s, r
  <2>5. /\ file'[e] = file[e] \o Reverse(b[e])
        /\ \A g \in Gens \ {e} : file'[g] = file[g]
        /\ file' = [g \in Gens |-> file'[g]]
    BY <1>2 DEF IsFile
  <2>6. /\ rank_vec_in_buf' \in [Gens -> Nat]
        /\ rank_vec_in_buf'[e] = 0
        /\ \A g \in Gens \ {e} : rank_vec_in_buf'[g] = Len(b[g])
    <3>1. in_buf[e] - Len(b[e]) = 0
      BY <2>1
    <3> QED BY <1>2, <3>1
  <2>7. IsFile(file')
    <3>1. ASSUME NEW g \in Gens PROVE file'[g] \in Seq(CodedBlocks(g))
      BY <2>1, <2>4, <2>5
    <3> QED BY <2>5, <3>1 DEF IsFile
  <2>8. ASSUME NEW g \in Gens
        PROVE  /\ rank_vec_in_buf'[g] = Len(buf'[g])
               /\ Len(buf'[g]) <= Len(b[g])
               /\ Len(file'[g]) + Len(buf'[g]) = Len(file[g]) + Len(b[g])
    <3>1. CASE g = e
      <4>1. Len(file'[e]) = Len(file[e]) + Len(b[e])
        BY <2>4, <2>5
      <4>2. Len(b[e]) \in Nat /\ Len(file[e]) \in Nat
        BY <2>1
      <4>3. Len(buf'[e]) = 0 /\ rank_vec_in_buf'[e] = 0
        BY <2>2, <2>6
      <4> QED BY <3>1, <4>1, <4>2, <4>3
    <3>2. CASE g # e
      <4>1. buf'[g] = b[g] /\ file'[g] = file[g] /\ rank_vec_in_buf'[g] = Len(b[g])
        BY <2>2, <2>5, <2>6, <3>2
      <4>2. Len(b[g]) \in Nat /\ Len(file[g]) \in Nat
        BY <2>1
      <4> QED BY <4>1, <4>2
    <3> QED BY <3>1, <3>2
  <2>9. ASSUME NEW g \in Gens
        PROVE  Held(buf, file, g)' = Held(b, file, g)
    <3>1. CASE g # e
      BY <2>2, <2>5, <3>1 DEF Held
    <3>2. CASE g = e
      <4>1. buf'[e] = <<>>
        BY <1>2, <3>2 DEF IsBuffer
      <4>2. ToSet(<<>>) = {}
        BY DEF ToSet
      <4> QED BY <2>4, <2>5, <3>2, <4>1, <4>2 DEF Held
    <3> QED BY <3>1, <3>2
  <2>10. BufSize(b) <= buffer_size => BufSize(buf') < buffer_size
    BY <2>2, SlotsFinite, LayoutFacts
  <2> QED BY <2>2, <2>6, <2>7, <2>8, <2>9, <2>10
<1> QED BY <1>1, <1>2 DEF FlushBuf, Flushed

IInv == TypeOK /\ Accounting

LEMMA BufferOfInv ==
    ASSUME IInv
    PROVE  IsBuffer(buf) /\ IsFile(file)
<1>1. /\ buf = [g \in Gens |-> buf[g]] /\ file = [g \in Gens |-> file[g]]
      /\ \A g \in Gens : buf[g] \in Seq(CodedBlocks(g)) /\ file[g] \in Seq(CodedBlocks(g))
  BY DEF IInv, TypeOK
<1>2. ASSUME NEW g \in Gens
      PROVE  Len(buf[g]) <= per_gen
  <2>1. Len(buf[g]) <= rank_vec[g] /\ rank_vec[g] <= num_blocks_gen[g]
    BY DEF IInv, Accounting
  <2>2. rank_vec[g] \in Nat /\ num_blocks_gen[g] \in 1..per_gen /\ Len(buf[g]) \in Nat
    BY <1>1, LayoutFacts, LenProperties DEF IInv, TypeOK
  <2> QED BY <2>1, <2>2, LayoutFacts
<1> QED BY <1>1, <1>2 DEF IsBuffer, IsFile

\* What a StoreBlock that stores does to the bookkeeping.
Stores(g, coeffs) ==
    /\ rank_vec[g] # num_blocks_gen[g]
    /\ rank_vec' = [rank_vec EXCEPT ![g] = @ + 1]
    /\ FlushBuf([buf EXCEPT ![g] = Append(@, Arriving(g, coeffs))],
                [rank_vec_in_buf EXCEPT ![g] = @ + 1])

LEMMA StoreStep ==
    ASSUME IInv, NEW g \in Gens, NEW coeffs \in Incoming(g), Stores(g, coeffs)
    PROVE  /\ IsBuffer(buf') /\ IsFile(file')
           /\ rank_vec' \in [Gens -> Nat] /\ rank_vec_in_buf' \in [Gens -> Nat]
           /\ \A h \in Gens :
                /\ rank_vec_in_buf'[h] = Len(buf'[h])
                /\ rank_vec_in_buf'[h] <= rank_vec'[h]
                /\ rank_vec'[h] <= num_blocks_gen[h]
                /\ Len(file'[h]) + Len(buf'[h]) + rank_vec[h]
                        = Len(file[h]) + Len(buf[h]) + rank_vec'[h]
                /\ Held(buf, file, h)' = Held(buf, file, h) \cup
                                          {block \in {Arriving(g, coeffs)} : h = g}
           /\ BufSize(buf) < buffer_size => BufSize(buf') < buffer_size
<1> DEFINE block == Arriving(g, coeffs)
           b == Stored(buf, g, block)
           in_buf == [rank_vec_in_buf EXCEPT ![g] = @ + 1]
<1>1. block \in CodedBlocks(g)
  BY DEF CodedBlocks
<1>2. IsBuffer(buf) /\ IsFile(file)
  BY BufferOfInv
<1>3. ASSUME NEW h \in Gens
      PROVE  /\ rank_vec[h] \in Nat /\ rank_vec_in_buf[h] \in Nat
             /\ Len(buf[h]) \in Nat /\ buf[h] \in Seq(CodedBlocks(h))
             /\ num_blocks_gen[h] \in Nat /\ num_blocks_gen[h] <= per_gen
             /\ rank_vec_in_buf[h] = Len(buf[h])
             /\ rank_vec_in_buf[h] <= rank_vec[h] /\ rank_vec[h] <= num_blocks_gen[h]
  BY <1>2, LayoutFacts, LenProperties DEF IInv, TypeOK, Accounting, IsBuffer
<1>4. Len(buf[g]) < per_gen
  BY <1>3, LayoutFacts DEF Stores
<1>5. FlushBuf(b, in_buf)
  BY DEF Stored, Stores
<1> HIDE DEF block, b
<1>6. /\ IsBuffer(b)
      /\ b[g] = Append(buf[g], block)
      /\ Len(b[g]) = Len(buf[g]) + 1
      /\ \A h \in Gens \ {g} : b[h] = buf[h]
      /\ BufSize(b) = BufSize(buf) + 1
  BY <1>1, <1>2, <1>4, AppendSlot DEF b
<1>7. /\ in_buf \in [Gens -> Nat] /\ rank_vec' \in [Gens -> Nat]
      /\ in_buf[g] = rank_vec_in_buf[g] + 1 /\ rank_vec'[g] = rank_vec[g] + 1
      /\ \A h \in Gens \ {g} : in_buf[h] = rank_vec_in_buf[h] /\ rank_vec'[h] = rank_vec[h]
  <2>1. rank_vec \in [Gens -> Nat] /\ rank_vec_in_buf \in [Gens -> Nat]
    BY DEF IInv, TypeOK
  <2> QED BY <2>1 DEF Stores
<1> HIDE DEF in_buf
<1>8. \A h \in Gens : in_buf[h] = Len(b[h])
  BY <1>3, <1>6, <1>7
<1>9. /\ IsBuffer(buf') /\ IsFile(file')
      /\ rank_vec_in_buf' \in [Gens -> Nat]
      /\ \A h \in Gens :
            /\ rank_vec_in_buf'[h] = Len(buf'[h])
            /\ Len(buf'[h]) <= Len(b[h])
            /\ Len(file'[h]) + Len(buf'[h]) = Len(file[h]) + Len(b[h])
            /\ Held(buf, file, h)' = Held(b, file, h)
      /\ BufSize(b) <= buffer_size => BufSize(buf') < buffer_size
  BY <1>2, <1>5, <1>6, <1>7, <1>8, FlushStep
<1>10. ASSUME NEW h \in Gens
       PROVE  /\ rank_vec_in_buf'[h] <= rank_vec'[h]
              /\ rank_vec'[h] <= num_blocks_gen[h]
              /\ Len(file'[h]) + Len(buf'[h]) + rank_vec[h]
                        = Len(file[h]) + Len(buf[h]) + rank_vec'[h]
  <2>1. /\ rank_vec_in_buf'[h] = Len(buf'[h]) /\ Len(buf'[h]) <= Len(b[h])
        /\ Len(file'[h]) + Len(buf'[h]) = Len(file[h]) + Len(b[h])
        /\ Len(buf'[h]) \in Nat /\ Len(file'[h]) \in Nat /\ Len(file[h]) \in Nat
    BY <1>2, <1>9, LenProperties DEF IsBuffer, IsFile
  <2>2. /\ rank_vec[h] \in Nat /\ Len(buf[h]) \in Nat /\ num_blocks_gen[h] \in Nat
        /\ Len(buf[h]) <= rank_vec[h] /\ rank_vec[h] <= num_blocks_gen[h]
    BY <1>3
  <2>3. \/ Len(b[h]) = Len(buf[h]) + 1 /\ rank_vec'[h] = rank_vec[h] + 1
               /\ rank_vec[h] # num_blocks_gen[h]
        \/ Len(b[h]) = Len(buf[h]) /\ rank_vec'[h] = rank_vec[h]
    <3>1. CASE h = g
      BY <1>6, <1>7, <3>1 DEF Stores
    <3>2. CASE h # g
      BY <1>6, <1>7, <3>2
    <3> QED BY <3>1, <3>2
  <2> DEFINE held0 == Len(buf[h])
             held == Len(buf'[h])
             stored == Len(b[h])
             filed0 == Len(file[h])
             filed == Len(file'[h])
             rank0 == rank_vec[h]
             rank == rank_vec'[h]
             n == num_blocks_gen[h]
  <2> HIDE DEF held0, held, stored, filed0, filed, rank0, rank, n
  <2> SUFFICES /\ held <= rank /\ rank <= n
               /\ filed + held + rank0 = filed0 + held0 + rank
    BY <2>1 DEF held0, held, filed0, filed, rank0, rank, n
  <2>4. /\ held <= stored /\ filed + held = filed0 + stored
        /\ held \in Nat /\ filed \in Nat /\ filed0 \in Nat
        /\ rank0 \in Nat /\ held0 \in Nat /\ n \in Nat
        /\ held0 <= rank0 /\ rank0 <= n
    BY <2>1, <2>2 DEF held0, held, stored, filed0, filed, rank0, n
  <2>5. \/ stored = held0 + 1 /\ rank = rank0 + 1 /\ rank0 # n
        \/ stored = held0 /\ rank = rank0
    BY <2>3 DEF held0, stored, rank0, rank, n
  <2> QED BY <2>4, <2>5
<1>11. ASSUME NEW h \in Gens
       PROVE  Held(b, file, h) = Held(buf, file, h) \cup {x \in {block} : h = g}
  <2>1. CASE h = g
    <3>1. ToSet(Append(buf[g], block)) = ToSet(buf[g]) \cup {block}
      BY <1>1, <1>3, AppendElements
    <3> QED BY <1>6, <2>1, <3>1 DEF Held
  <2>2. CASE h # g
    BY <1>6, <2>2 DEF Held
  <2> QED BY <2>1, <2>2
<1>12. BufSize(buf) < buffer_size => BufSize(b) <= buffer_size
  BY <1>2, <1>6, SlotsFinite, LayoutFacts
<1>13. \A h \in Gens : Held(buf, file, h)' = Held(buf, file, h) \cup {x \in {block} : h = g}
  BY <1>9, <1>11
<1> QED BY <1>7, <1>9, <1>10, <1>12, <1>13 DEF block

-----------------------------------------------------------------------------
(* Types and bookkeeping.                                                  *)

LEMMA InvInit == Init => IInv
<1> SUFFICES ASSUME Init PROVE IInv
  OBVIOUS
<1>1. \A g \in Gens : <<>> \in Seq(CodedBlocks(g)) /\ Len(<<>>) = 0
  BY EmptySeq
<1>2. /\ buf = [g \in Gens |-> <<>>] /\ file = [g \in Gens |-> <<>>]
      /\ rank_vec = [g \in Gens |-> 0] /\ rank_vec_in_buf = [g \in Gens |-> 0]
      /\ leftover = [g \in Gens |-> 0]
  BY DEF Init, EmptyBuf, NoRank
<1>3. TypeOK
  <2>1. \A g \in Gens : buf[g] \in Seq(CodedBlocks(g)) /\ file[g] \in Seq(CodedBlocks(g))
    BY <1>1, <1>2
  <2>2. m_helpful = [g \in Gens |-> m_helpful[g]]
    BY DEF Init, EmptyHelpful
  <2>3. reencoded.gen = -1
    BY DEF Init, Null
  <2>4. restarts \in 0..MaxRestarts
    BY BoundAssumption DEF Init
  <2> QED BY <1>2, <2>1, <2>2, <2>3, <2>4 DEF Init, TypeOK
<1>4. Accounting
  <2>1. ASSUME NEW g \in Gens
        PROVE  /\ Len(buf[g]) = 0 /\ Len(file[g]) = 0
               /\ rank_vec[g] = 0 /\ rank_vec_in_buf[g] = 0 /\ leftover[g] = 0
               /\ num_blocks_gen[g] \in Nat
    BY <1>1, <1>2, LayoutFacts
  <2> QED BY <2>1 DEF Accounting
<1> QED BY <1>3, <1>4 DEF IInv

\* Nothing but the bookkeeping's variables matters to it.
LEMMA InvStutter ==
    ASSUME IInv, UNCHANGED <<memory, file, leftover, restarts>>,
           identity' \in {CT_CLIENT, CT_SERVER}, identity' = CT_CLIENT => identity = CT_CLIENT,
           work_mutex' \in {"free", "held"},
           out_file' = <<>> \/ DOMAIN out_file' = Gens,
           reencoded'.gen \in Gens \cup {-1}
    PROVE  IInv'
<1>1. /\ buf' = buf /\ m_helpful' = m_helpful /\ rank_vec' = rank_vec
      /\ rank_vec_in_buf' = rank_vec_in_buf /\ gen_completed' = gen_completed
      /\ file' = file /\ leftover' = leftover /\ restarts' = restarts
  BY DEF memory
<1>2. TypeOK'
  BY <1>1 DEF IInv, TypeOK
<1>3. Accounting'
  BY <1>1 DEF IInv, Accounting
<1> QED BY <1>2, <1>3 DEF IInv

LEMMA InvStoreBlock ==
    ASSUME IInv, NEW g \in Gens, NEW coeffs \in Incoming(g), StoreBlock(g, coeffs)
    PROVE  IInv'
<1>1. UNCHANGED <<identity, work_mutex, out_file, reencoded, leftover, restarts>>
  BY DEF StoreBlock
<1>2. CASE UNCHANGED <<memory, file>>
  BY <1>1, <1>2, InvStutter DEF IInv, TypeOK
<1>3. CASE /\ Stores(g, coeffs)
           /\ m_helpful' = [m_helpful EXCEPT
                    ![g] = InsertRow(@, coeffs, num_blocks_gen[g])]
           /\ gen_completed' = IF rank_vec'[g] = num_blocks_gen[g]
                               THEN gen_completed + 1 ELSE gen_completed
  <2>1. /\ IsBuffer(buf') /\ IsFile(file')
        /\ rank_vec' \in [Gens -> Nat] /\ rank_vec_in_buf' \in [Gens -> Nat]
        /\ \A h \in Gens :
            /\ rank_vec_in_buf'[h] = Len(buf'[h])
            /\ rank_vec_in_buf'[h] <= rank_vec'[h]
            /\ rank_vec'[h] <= num_blocks_gen[h]
            /\ Len(file'[h]) + Len(buf'[h]) + rank_vec[h]
                    = Len(file[h]) + Len(buf[h]) + rank_vec'[h]
    BY <1>3, StoreStep
  <2>2. TypeOK'
    <3>1. m_helpful' = [h \in Gens |-> m_helpful'[h]]
      BY <1>3 DEF IInv, TypeOK
    <3>2. gen_completed' \in Nat
      BY <1>3 DEF IInv, TypeOK
    <3> QED BY <1>1, <2>1, <3>1, <3>2 DEF IInv, TypeOK, IsBuffer, IsFile
  <2>3. ASSUME NEW h \in Gens, identity = CT_CLIENT
        PROVE  Len(file'[h]) = leftover[h] + rank_vec'[h] - rank_vec_in_buf'[h]
    <3>1. /\ Len(file[h]) \in Nat /\ Len(buf[h]) \in Nat
          /\ Len(file'[h]) \in Nat /\ Len(buf'[h]) \in Nat
      BY <2>1, BufferOfInv, LenProperties DEF IsBuffer, IsFile
    <3>2. /\ rank_vec[h] \in Nat /\ leftover[h] \in Nat /\ rank_vec'[h] \in Nat
          /\ Len(file[h]) = leftover[h] + rank_vec[h] - rank_vec_in_buf[h]
          /\ rank_vec_in_buf[h] = Len(buf[h])
      BY <2>1, <2>3 DEF IInv, TypeOK, Accounting
    <3>3. /\ rank_vec_in_buf'[h] = Len(buf'[h])
          /\ Len(file'[h]) + Len(buf'[h]) + rank_vec[h]
                    = Len(file[h]) + Len(buf[h]) + rank_vec'[h]
      BY <2>1
    <3> DEFINE held0 == Len(buf[h])
               held == Len(buf'[h])
               filed0 == Len(file[h])
               filed == Len(file'[h])
               rank0 == rank_vec[h]
               rank == rank_vec'[h]
               old == leftover[h]
    <3> HIDE DEF held0, held, filed0, filed, rank0, rank, old
    <3>4. /\ held0 \in Nat /\ held \in Nat /\ filed0 \in Nat /\ filed \in Nat
          /\ rank0 \in Nat /\ rank \in Nat /\ old \in Nat
          /\ filed0 = old + rank0 - held0
          /\ filed + held + rank0 = filed0 + held0 + rank
      BY <3>1, <3>2, <3>3 DEF held0, held, filed0, filed, rank0, rank, old
    <3>5. filed = old + rank - held
      BY <3>4
    <3> QED BY <3>3, <3>5 DEF held, filed, rank, old
  <2>4. Accounting'
    BY <1>1, <2>1, <2>3 DEF Accounting
  <2> QED BY <2>2, <2>4 DEF IInv
<1> QED BY <1>2, <1>3 DEF StoreBlock, IsHelpful, IncrementGenCompleted, Stores

LEMMA InvReEncode ==
    ASSUME IInv, NEW g \in Gens, ReEncode(g)
    PROVE  IInv'
<1>1. UNCHANGED <<identity, memory, disk, leftover, restarts>>
  BY DEF ReEncode
<1>2. work_mutex' \in {"free", "held"} /\ reencoded'.gen \in Gens \cup {-1}
  <2>1. CASE reencoded' = Null /\ work_mutex' = "held"
    BY <2>1 DEF Null
  <2>2. CASE /\ \E rand \in [1..Len(TempBuf(g)) -> Weights] :
                    LET block == ReEncodeBlock(TempBuf(g), rand, num_blocks_gen[g])
                    IN  reencoded' = [gen |-> g, coeffs |-> block.coeffs, sums |-> block.sums]
             /\ UNCHANGED work_mutex
    BY <2>2 DEF IInv, TypeOK
  <2> QED BY <2>1, <2>2 DEF ReEncode
<1>3. /\ identity \in {CT_CLIENT, CT_SERVER}
      /\ out_file = <<>> \/ DOMAIN out_file = Gens
  BY DEF IInv, TypeOK
<1> QED BY <1>1, <1>2, <1>3, InvStutter DEF disk

LEMMA InvDecode ==
    ASSUME IInv, Decode
    PROVE  IInv'
<1>1. UNCHANGED <<reencoded, leftover, restarts>>
  BY DEF Decode
<1>2. CASE identity # CT_CLIENT /\ work_mutex' = "held" /\ UNCHANGED <<identity, memory, disk>>
  <2>1. /\ identity \in {CT_CLIENT, CT_SERVER}
        /\ out_file = <<>> \/ DOMAIN out_file = Gens
        /\ reencoded.gen \in Gens \cup {-1}
    BY DEF IInv, TypeOK
  <2> QED BY <1>1, <1>2, <2>1, InvStutter DEF disk
<1>3. CASE /\ identity = CT_CLIENT
           /\ identity' = CT_SERVER
           /\ out_file' = [g \in Gens |-> DecodeBuffer(TempBuf(g), num_blocks_gen[g])]
           /\ CleanBuffer
           /\ CleanTempFiles
           /\ UNCHANGED <<work_mutex, m_helpful, rank_vec, gen_completed>>
  <2>1. identity' # CT_CLIENT /\ identity' \in {CT_CLIENT, CT_SERVER}
    BY <1>3 DEF CT_CLIENT, CT_SERVER
  <2>2. file' = [g \in Gens |-> file'[g]] /\ \A g \in Gens : file'[g] \in Seq(CodedBlocks(g))
    <3>1. CASE UNCHANGED file
      BY <3>1 DEF IInv, TypeOK
    <3>2. CASE file' = [g \in Gens |-> <<>>]
      BY <3>2, EmptySeq
    <3> QED BY <1>3, <3>1, <3>2 DEF CleanTempFiles
  <2>3. TypeOK'
    BY <1>1, <1>3, <2>1, <2>2 DEF IInv, TypeOK, CleanBuffer
  <2>4. Accounting'
    BY <1>1, <1>3, <2>1 DEF IInv, Accounting, CleanBuffer
  <2> QED BY <2>3, <2>4 DEF IInv
<1> QED BY <1>2, <1>3 DEF Decode

LEMMA InvRestart ==
    ASSUME IInv, Restart
    PROVE  IInv'
<1>1. \A g \in Gens : /\ <<>> \in Seq(CodedBlocks(g)) /\ Len(<<>>) = 0
                      /\ file[g] \in Seq(CodedBlocks(g)) /\ Len(file[g]) \in Nat
  BY EmptySeq, LenProperties DEF IInv, TypeOK
<1>2. /\ buf' = [g \in Gens |-> <<>>] /\ file' = file
      /\ rank_vec' = [g \in Gens |-> 0] /\ rank_vec_in_buf' = [g \in Gens |-> 0]
      /\ leftover' = [g \in Gens |-> Len(file[g])]
  BY DEF Restart, EmptyBuf, NoRank
<1>3. TypeOK'
  <2>1. \A g \in Gens : buf'[g] \in Seq(CodedBlocks(g)) /\ leftover'[g] \in Nat
    BY <1>1, <1>2
  <2>2. m_helpful' = [g \in Gens |-> m_helpful'[g]]
    BY DEF Restart, EmptyHelpful
  <2>3. reencoded'.gen = -1
    BY DEF Restart, Null
  <2>4. restarts' \in 0..MaxRestarts
    BY BoundAssumption DEF Restart, IInv, TypeOK
  <2>5. /\ file' = [g \in Gens |-> file'[g]]
        /\ \A g \in Gens : file'[g] \in Seq(CodedBlocks(g))
    BY <1>2 DEF IInv, TypeOK
  <2>6. leftover' \in [Gens -> Nat]
    BY <1>2, <2>1
  <2> QED BY <1>2, <2>1, <2>2, <2>3, <2>4, <2>5, <2>6 DEF Restart, TypeOK
<1>4. Accounting'
  <2>1. ASSUME NEW g \in Gens
        PROVE  /\ Len(buf'[g]) = 0 /\ Len(file'[g]) = leftover'[g] /\ leftover'[g] \in Nat
               /\ rank_vec'[g] = 0 /\ rank_vec_in_buf'[g] = 0
               /\ num_blocks_gen[g] \in Nat
    BY <1>1, <1>2, LayoutFacts
  <2> QED BY <2>1 DEF Accounting
<1> QED BY <1>3, <1>4 DEF IInv

LEMMA InvNext == IInv /\ [Next]_vars => IInv'
<1> SUFFICES ASSUME IInv, [Next]_vars PROVE IInv'
  OBVIOUS
<1>1. ASSUME NEW g \in Gens, NEW coeffs \in Incoming(g), StoreBlock(g, coeffs)
      PROVE  IInv'
  BY <1>1, InvStoreBlock
<1>2. ASSUME NEW g \in Gens, ReEncode(g) PROVE IInv'
  BY <1>2, InvReEncode
<1>3. CASE Decode
  BY <1>3, InvDecode
<1>4. CASE Restart
  BY <1>4, InvRestart
<1>5. CASE UNCHANGED vars
  BY <1>5, InvStutter DEF vars, disk, IInv, TypeOK
<1> QED BY <1>1, <1>2, <1>3, <1>4, <1>5 DEF Next

LEMMA Invariance == Spec => []IInv
  BY InvInit, InvNext, PTL DEF Spec

\* The variables keep their types, and every block kept in memory or on disk is
\* one that arrived for its generation.
THEOREM TypeCorrect == Spec => []TypeOK
<1>1. IInv => TypeOK
  BY DEF IInv
<1> QED BY <1>1, Invariance, PTL

\* rank_vec_in_buf and rank_vec say where a generation's blocks are, whatever
\* was evicted when: ReadGenBuf is never asked for a block its file has not.
THEOREM BookkeepingCorrect == Spec => []Accounting
<1>1. IInv => Accounting
  BY DEF IInv
<1> QED BY <1>1, Invariance, PTL

\* ReEncode and DecodeGen gather as many blocks as rank_vec says, and while no
\* older process left any, all there are.
LEMMA TempBufLength ==
    ASSUME IInv, identity = CT_CLIENT, NEW g \in Gens
    PROVE  /\ TempBuf(g) \in Seq(CodedBlocks(g)) /\ Len(TempBuf(g)) = rank_vec[g]
           /\ leftover[g] = 0 => TempBuf(g) = buf[g] \o file[g]
<1> DEFINE m == rank_vec[g] - rank_vec_in_buf[g]
           S == CodedBlocks(g)
           f == file[g]
           s == buf[g]
<1>1. /\ s \in Seq(S) /\ f \in Seq(S) /\ Len(s) \in Nat /\ Len(f) \in Nat
      /\ \A i \in 1..Len(f) : f[i] \in S
  BY LenProperties, ElementOfSeq DEF IInv, TypeOK
<1>2. /\ rank_vec[g] \in Nat /\ leftover[g] \in Nat
      /\ rank_vec_in_buf[g] = Len(s) /\ Len(s) <= rank_vec[g]
      /\ Len(f) = leftover[g] + rank_vec[g] - rank_vec_in_buf[g]
  BY DEF IInv, TypeOK, Accounting
<1> HIDE DEF S, f, s
<1>3. m \in Nat /\ m <= Len(f) /\ Len(f) = leftover[g] + m /\ Len(s) + m = rank_vec[g]
  BY <1>1, <1>2
<1> HIDE DEF m
<1>4. SubSeq(f, 1, m) \in Seq(S) /\ Len(SubSeq(f, 1, m)) = m
  <2>1. \A i \in 1..m : f[i] \in S
    BY <1>1, <1>3
  <2>2. IF 1 <= m THEN m - 1 + 1 = m ELSE m = 0
    BY <1>3
  <2> QED BY <1>3, <2>1, <2>2, SubSeqProperties
<1>5. s \o SubSeq(f, 1, m) \in Seq(S) /\ Len(s \o SubSeq(f, 1, m)) = Len(s) + m
  BY <1>1, <1>4, ConcatProperties
<1>6. ASSUME leftover[g] = 0
      PROVE  SubSeq(f, 1, m) = f
  <2>1. m = Len(f)
    BY <1>1, <1>3, <1>6
  <2> QED BY <1>1, <2>1, SubSeqFull
<1>7. TempBuf(g) = s \o SubSeq(f, 1, m)
  BY DEF TempBuf, s, f, m
<1> QED BY <1>3, <1>5, <1>6, <1>7 DEF S, s, f

-----------------------------------------------------------------------------
(* The memory buffer and the completion counter.                           *)

\* The memory buffer never reaches its size between calls: the eviction after a
\* store always frees a block, so FlushBuf needs no second draw.
THEOREM BufferStaysBelow == Spec => []BufferBound
<1>1. Init => BufferBound
  <2> SUFFICES ASSUME Init PROVE BufferBound
    OBVIOUS
  <2>1. Len(<<>>) = 0
    BY EmptySeq
  <2>2. \A g \in Gens : 1..Len(buf[g]) = {}
    BY <2>1 DEF Init, EmptyBuf
  <2>3. BufSlots(buf) = {}
    <3>1. ASSUME NEW s \in BufSlots(buf) PROVE FALSE
      BY <2>2, SlotMember
    <3> QED BY <3>1
  <2>4. 0 < buffer_size
    BY LayoutFacts DEF buffer_size
  <2> QED BY <2>3, <2>4, FS_EmptySet DEF BufferBound, BufSize
<1>2. IInv /\ BufferBound /\ [Next]_vars => BufferBound'
  <2> SUFFICES ASSUME IInv, BufferBound, [Next]_vars PROVE BufferBound'
    OBVIOUS
  <2>1. ASSUME NEW g \in Gens, NEW coeffs \in Incoming(g), StoreBlock(g, coeffs)
        PROVE  BufferBound'
    <3>1. CASE Stores(g, coeffs)
      BY <3>1, StoreStep DEF BufferBound
    <3>2. CASE UNCHANGED memory
      BY <3>2 DEF BufferBound, memory
    <3> QED BY <2>1, <3>1, <3>2 DEF StoreBlock, IsHelpful, IncrementGenCompleted, Stores
  <2>2. ASSUME NEW g \in Gens, ReEncode(g) PROVE BufferBound'
    BY <2>2 DEF BufferBound, ReEncode, memory
  <2>3. CASE Decode
    BY <2>3 DEF BufferBound, Decode, CleanBuffer, memory
  <2>4. CASE Restart
    <3>1. Len(<<>>) = 0
      BY EmptySeq
    <3>2. \A g \in Gens : 1..Len(buf'[g]) = {}
      BY <2>4, <3>1 DEF Restart, EmptyBuf
    <3>3. BufSlots(buf') = {}
      <4>1. ASSUME NEW s \in BufSlots(buf') PROVE FALSE
        BY <3>2, SlotMember
      <4> QED BY <4>1
    <3>4. 0 < buffer_size
      BY LayoutFacts DEF buffer_size
    <3> QED BY <3>3, <3>4, FS_EmptySet DEF BufferBound, BufSize
  <2>5. CASE UNCHANGED vars
    BY <2>5 DEF BufferBound, vars, memory
  <2> QED BY <2>1, <2>2, <2>3, <2>4, <2>5 DEF Next
<1> QED BY <1>1, <1>2, Invariance, PTL DEF Spec

Complete(g) == rank_vec[g] = num_blocks_gen[g]
FullRank == {g \in Gens : Complete(g)}

LEMMA FullRankFinite == IsFiniteSet(FullRank) /\ Cardinality(FullRank) \in Nat
<1>1. FullRank \in SUBSET Gens
  BY DEF FullRank
<1>2. IsFiniteSet(FullRank)
  BY <1>1, LayoutFacts, FS_Subset
<1> QED BY <1>2, FS_CardinalityType

\* A generation is counted when its rank becomes full, once.
LEMMA CompletionStep ==
    ASSUME IInv, CompletionCount, NEW g \in Gens,
           rank_vec[g] # num_blocks_gen[g],
           rank_vec' = [rank_vec EXCEPT ![g] = @ + 1],
           gen_completed' = IF rank_vec'[g] = num_blocks_gen[g]
                            THEN gen_completed + 1 ELSE gen_completed
    PROVE  CompletionCount'
<1>1. \A h \in Gens \ {g} : Complete(h)' <=> Complete(h)
  BY DEF Complete, IInv, TypeOK
<1>2. ~Complete(g) /\ (Complete(g)' <=> rank_vec'[g] = num_blocks_gen[g])
  BY DEF Complete
<1>3. gen_completed = Cardinality(FullRank)
  BY DEF CompletionCount, FullRank, Complete
<1>4. CASE Complete(g)'
  <2>1. FullRank' = FullRank \cup {g}
    BY <1>1, <1>2, <1>4 DEF FullRank
  <2>2. g \notin FullRank
    BY <1>2 DEF FullRank
  <2>3. Cardinality(FullRank') = Cardinality(FullRank) + 1
    BY <2>1, <2>2, FullRankFinite, FS_AddElement
  <2> QED BY <1>2, <1>3, <1>4, <2>3 DEF CompletionCount, FullRank, Complete
<1>5. CASE ~Complete(g)'
  <2>1. FullRank' = FullRank
    BY <1>1, <1>2, <1>5 DEF FullRank
  <2> QED BY <1>2, <1>3, <1>5, <2>1 DEF CompletionCount, FullRank, Complete
<1> QED BY <1>4, <1>5

\* gen_completed is the number of generations of full rank.
THEOREM CompletionCounted == Spec => []CompletionCount
<1>1. Init => CompletionCount
  <2> SUFFICES ASSUME Init PROVE CompletionCount
    OBVIOUS
  <2>1. \A g \in Gens : rank_vec[g] = 0 /\ num_blocks_gen[g] \in 1..per_gen
    BY LayoutFacts DEF Init, NoRank
  <2>2. {g \in Gens : rank_vec[g] = num_blocks_gen[g]} = {}
    BY <2>1, LayoutFacts
  <2> QED BY <2>2, FS_EmptySet DEF CompletionCount, Init
<1>2. IInv /\ CompletionCount /\ [Next]_vars => CompletionCount'
  <2> SUFFICES ASSUME IInv, CompletionCount, [Next]_vars PROVE CompletionCount'
    OBVIOUS
  <2>1. ASSUME NEW g \in Gens, NEW coeffs \in Incoming(g), StoreBlock(g, coeffs)
        PROVE  CompletionCount'
    <3>1. CASE UNCHANGED memory
      BY <3>1 DEF CompletionCount, memory
    <3>2. CASE ~UNCHANGED memory
      BY <2>1, <3>2, CompletionStep DEF StoreBlock, IsHelpful, IncrementGenCompleted
    <3> QED BY <3>1, <3>2
  <2>2. ASSUME NEW g \in Gens, ReEncode(g) PROVE CompletionCount'
    BY <2>2 DEF CompletionCount, ReEncode, memory
  <2>3. CASE Decode
    BY <2>3 DEF CompletionCount, Decode, memory
  <2>4. CASE Restart
    <3>1. \A g \in Gens : rank_vec'[g] = 0 /\ num_blocks_gen[g] \in 1..per_gen
      BY <2>4, LayoutFacts DEF Restart, NoRank
    <3>2. {g \in Gens : rank_vec'[g] = num_blocks_gen[g]} = {}
      BY <3>1, LayoutFacts
    <3> QED BY <2>4, <3>2, FS_EmptySet DEF CompletionCount, Restart
  <2>5. CASE UNCHANGED vars
    BY <2>5 DEF CompletionCount, vars, memory
  <2> QED BY <2>1, <2>2, <2>3, <2>4, <2>5 DEF Next
<1> QED BY <1>1, <1>2, Invariance, PTL DEF Spec

\* What Decode gathers is as many blocks as BackSubstitution insists on, for
\* every generation: counting generations is as good as looking at each.
THEOREM DecodeSupplied == Spec => []DecodeHasAllBlocks
<1>1. IInv /\ CompletionCount => DecodeHasAllBlocks
  <2> SUFFICES ASSUME IInv, CompletionCount, identity = CT_CLIENT, DownloadCompleted,
                      NEW g \in Gens
               PROVE  Len(TempBuf(g)) = num_blocks_gen[g]
    BY DEF DecodeHasAllBlocks
  <2>1. Cardinality(FullRank) = Cardinality(Gens)
    BY LayoutFacts
       DEF DownloadCompleted, CompletionCount, FullRank, Complete, CT_CLIENT, CT_SERVER
  <2>2. FullRank = Gens
    <3>1. FullRank \in SUBSET Gens
      BY DEF FullRank
    <3> QED BY <2>1, <3>1, LayoutFacts, FS_Subset
  <2>3. rank_vec[g] = num_blocks_gen[g]
    BY <2>2 DEF FullRank, Complete
  <2>4. Len(TempBuf(g)) = rank_vec[g]
    BY TempBufLength
  <2> QED BY <2>3, <2>4
<1> QED BY <1>1, Invariance, CompletionCounted, PTL

-----------------------------------------------------------------------------
(* No stored block is lost.                                                *)

GathersAll ==
    \A g \in Gens : identity = CT_CLIENT /\ leftover[g] = 0 => TempBuf(g) = buf[g] \o file[g]

Typed == \A g \in Gens : buf[g] \in Seq(CodedBlocks(g)) /\ file[g] \in Seq(CodedBlocks(g))

\* Whatever is evicted, what was gathered before is gathered afterwards, until
\* the download is decoded or the process dies.
THEOREM NothingStoredIsLost == Spec => StoredStaysGathered
<1> DEFINE Kept == identity' = CT_CLIENT /\ restarts' = restarts
                    => \A g \in Gens : Fresh(g) => ToSet(TempBuf(g)) \subseteq ToSet(TempBuf(g)')
<1>1. IInv => GathersAll /\ Typed
  BY TempBufLength DEF GathersAll, Typed, IInv, TypeOK
<1>2. IInv /\ GathersAll /\ Typed /\ GathersAll' /\ Typed' /\ [Next]_vars => [Kept]_vars
  <2> SUFFICES ASSUME IInv, GathersAll, Typed, GathersAll', Typed', Next,
                      identity' = CT_CLIENT, restarts' = restarts,
                      NEW g \in Gens, Fresh(g)
               PROVE  ToSet(TempBuf(g)) \subseteq ToSet(TempBuf(g)')
    OBVIOUS
  <2>1. identity = CT_CLIENT /\ leftover' = leftover /\ Held(buf, file, g) \subseteq Held(buf, file, g)'
    <3>1. ASSUME NEW h \in Gens, NEW coeffs \in Incoming(h), StoreBlock(h, coeffs)
          PROVE  /\ identity = CT_CLIENT /\ leftover' = leftover
                 /\ Held(buf, file, g) \subseteq Held(buf, file, g)'
      <4>1. CASE UNCHANGED <<memory, file>>
        BY <3>1, <4>1 DEF StoreBlock, memory, Held
      <4>2. CASE Stores(h, coeffs)
        BY <3>1, <4>2, StoreStep DEF StoreBlock
      <4> QED BY <3>1, <4>1, <4>2 DEF StoreBlock, IsHelpful, IncrementGenCompleted, Stores
    <3>2. ASSUME NEW h \in Gens, ReEncode(h)
          PROVE  /\ identity = CT_CLIENT /\ leftover' = leftover
                 /\ Held(buf, file, g) \subseteq Held(buf, file, g)'
      BY <3>2 DEF ReEncode, memory, disk, Held
    <3>3. ~Decode
      BY DEF Decode, CT_CLIENT, CT_SERVER
    <3>4. ~Restart
      <4>1. restarts \in Nat
        BY BoundAssumption DEF IInv, TypeOK
      <4> QED BY <4>1 DEF Restart
    <3> QED BY <3>1, <3>2, <3>3, <3>4 DEF Next
  <2>2. leftover[g] = 0 /\ leftover'[g] = 0
    BY <2>1 DEF Fresh
  <2>3. TempBuf(g) = buf[g] \o file[g] /\ TempBuf(g)' = buf'[g] \o file'[g]
    BY <2>1, <2>2 DEF GathersAll
  <2>4. ToSet(TempBuf(g)) = ToSet(buf[g]) \cup ToSet(file[g])
    BY <2>3, ConcatElements DEF Typed
  <2>5. ToSet(TempBuf(g)') = ToSet(buf'[g]) \cup ToSet(file'[g])
    <3>1. buf'[g] \in Seq(CodedBlocks(g)) /\ file'[g] \in Seq(CodedBlocks(g))
      BY DEF Typed
    <3> QED BY <2>3, <3>1, ConcatElements
  <2> QED BY <2>1, <2>4, <2>5 DEF Held
<1> QED BY <1>1, <1>2, Invariance, PTL DEF Spec, StoredStaysGathered

-----------------------------------------------------------------------------
(* What is stored, as vectors.                                             *)

LEMMA CodingFacts ==
    ASSUME NEW g \in Gens
    PROVE  /\ num_blocks_gen[g] \in Nat
           /\ Data[g] \in Vector(num_blocks_gen[g])
           /\ Entries(Data[g], num_blocks_gen[g])
           /\ Incoming(g) \subseteq Vector(num_blocks_gen[g])
<1>1. num_blocks_gen[g] \in Nat
  BY LayoutFacts
<1>2. Data[g] \in Vector(num_blocks_gen[g]) /\ Incoming(g) \subseteq Vector(num_blocks_gen[g])
  BY CodingAssumption, Zenon
<1>3. Entries(Data[g], num_blocks_gen[g])
  BY <1>2 DEF Entries, Vector
<1> QED BY <1>1, <1>2, <1>3

\* A block that arrives carries what its coefficients announce, and there is
\* one for each coefficient vector.
LEMMA ArrivingIs ==
    ASSUME NEW g \in Gens
    PROVE  /\ \A coeffs \in Incoming(g) :
                Arriving(g, coeffs) \in CodedBlocks(g) /\ Arriving(g, coeffs).coeffs = coeffs
           /\ \A b \in CodedBlocks(g) :
                /\ Block(b, num_blocks_gen[g])
                /\ Consistent(b, Data[g], num_blocks_gen[g])
                /\ b = Arriving(g, b.coeffs)
<1> DEFINE n == num_blocks_gen[g]
<1>1. /\ n \in Nat /\ Entries(Data[g], n)
      /\ \A coeffs \in Incoming(g) : coeffs \in Vector(n)
  BY CodingFacts
<1>2. ASSUME NEW coeffs
      PROVE  Arriving(g, coeffs) = [coeffs |-> coeffs, sums |-> Dot(Data[g], coeffs, n)]
  BY DEF Arriving, EncodeBlock
<1> HIDE DEF n
<1>3. ASSUME NEW b \in CodedBlocks(g)
      PROVE  Block(b, n) /\ Consistent(b, Data[g], n) /\ b = Arriving(g, b.coeffs)
  <2>1. PICK coeffs \in Incoming(g) : b = Arriving(g, coeffs)
    BY DEF CodedBlocks
  <2>2. b.coeffs = coeffs /\ b.sums = Dot(Data[g], coeffs, n) /\ coeffs \in Vector(n)
    BY <1>1, <1>2, <2>1
  <2>3. Entries(coeffs, n)
    BY <2>2 DEF Entries, Vector
  <2>4. Dot(Data[g], coeffs, n) \in Symbol
    BY <1>1, <2>3, DotSame
  <2> QED BY <2>1, <2>2, <2>4 DEF Block, Consistent
<1>4. \A coeffs \in Incoming(g) :
        Arriving(g, coeffs) \in CodedBlocks(g) /\ Arriving(g, coeffs).coeffs = coeffs
  BY <1>2 DEF CodedBlocks
<1> QED BY <1>3, <1>4 DEF n

-----------------------------------------------------------------------------
(* The inductive invariant of what the store knows.                        *)

\* The coefficient vectors of the blocks held in memory and on disk.
Received(g) == {block.coeffs : block \in Held(buf, file, g)}

RowsInv ==
    \A g \in Gens :
        /\ Echelon(m_helpful[g], num_blocks_gen[g], num_blocks_gen[g])
        /\ Cardinality(Diagonal(m_helpful[g], num_blocks_gen[g])) = rank_vec[g]

Knows(g) ==
    /\ Free(Received(g), num_blocks_gen[g])
    /\ IsFiniteSet(Received(g)) /\ Cardinality(Received(g)) = rank_vec[g]
    /\ \A W : IsSubspace(W, num_blocks_gen[g]) =>
            ((\A i \in Index(num_blocks_gen[g]) : m_helpful[g][i] \in W) <=> Received(g) \subseteq W)

KnowsInv == identity = CT_CLIENT => \A g \in Gens : Fresh(g) => Knows(g)

CInv == IInv /\ RowsInv /\ KnowsInv

\* A store that has nothing.
LEMMA NothingKnown ==
    ASSUME NEW m, NEW g \in Gens, m = EmptyHelpful[g]
    PROVE  LET n == num_blocks_gen[g]
           IN  /\ Echelon(m, n, n) /\ Cardinality(Diagonal(m, n)) = 0
               /\ \A W : IsSubspace(W, n) => \A i \in Index(n) : m[i] \in W
<1> DEFINE n == num_blocks_gen[g]
<1>1. n \in Nat /\ n <= n
  BY LayoutFacts
<1>2. m = [i \in Index(n) |-> ZeroVector(n)]
  BY DEF EmptyHelpful, ZeroMatrix
<1> HIDE DEF n
<1>3. Echelon(m, n, n) /\ Diagonal(m, n) = {}
  BY <1>1, <1>2, ZeroRows
<1>4. \A W : IsSubspace(W, n) => \A i \in Index(n) : m[i] \in W
  BY <1>2 DEF IsSubspace
<1> QED BY <1>3, <1>4, FS_EmptySet DEF n

LEMMA NothingReceived ==
    ASSUME NEW T, T = {}, NEW d
    PROVE  Free(T, d) /\ IsFiniteSet(T) /\ Cardinality(T) = 0 /\ \A W : T \subseteq W
  BY FS_EmptySet DEF Free

LEMMA CInit == Init => CInv
<1> SUFFICES ASSUME Init PROVE CInv
  OBVIOUS
<1>1. /\ buf = [g \in Gens |-> <<>>] /\ file = [g \in Gens |-> <<>>]
      /\ rank_vec = [g \in Gens |-> 0] /\ m_helpful = EmptyHelpful
  BY DEF Init, EmptyBuf, NoRank
<1>2. ASSUME NEW g \in Gens
      PROVE  /\ m_helpful[g] = EmptyHelpful[g] /\ rank_vec[g] = 0
             /\ Received(g) = {}
  <2>1. ToSet(<<>>) = {}
    BY DEF ToSet
  <2> QED BY <1>1, <2>1 DEF Received, Held
<1>3. RowsInv
  BY <1>2, NothingKnown DEF RowsInv
<1>4. ASSUME NEW g \in Gens
      PROVE  Knows(g)
  <2> DEFINE n == num_blocks_gen[g]
  <2>1. /\ Free(Received(g), n) /\ IsFiniteSet(Received(g)) /\ Cardinality(Received(g)) = 0
        /\ \A W : Received(g) \subseteq W
    BY <1>2, NothingReceived
  <2>2. \A W : IsSubspace(W, n) => \A i \in Index(n) : m_helpful[g][i] \in W
    BY <1>2, NothingKnown
  <2> QED BY <1>2, <2>1, <2>2 DEF Knows
<1> QED BY <1>3, <1>4, InvInit DEF CInv, KnowsInv

\* Nothing but the blocks, the matrix and the rank matters to it.
LEMMA KnowsStutter ==
    ASSUME CInv, UNCHANGED <<m_helpful, rank_vec>>,
           \/ identity' # CT_CLIENT
           \/ UNCHANGED <<buf, file, leftover, identity>>
    PROVE  RowsInv' /\ KnowsInv'
<1>1. RowsInv'
  BY DEF CInv, RowsInv
<1>2. CASE identity' # CT_CLIENT
  BY <1>1, <1>2 DEF KnowsInv
<1>3. CASE UNCHANGED <<buf, file, leftover, identity>>
  <2>1. \A g \in Gens : Received(g)' = Received(g)
    BY <1>3 DEF Received, Held
  <2>2. \A g \in Gens : Knows(g) => Knows(g)'
    BY <2>1 DEF Knows
  <2> QED BY <1>1, <1>3, <2>2 DEF CInv, KnowsInv, Fresh
<1> QED BY <1>2, <1>3

-----------------------------------------------------------------------------
LEMMA StoredHeld ==
    ASSUME IInv, NEW g \in Gens, NEW coeffs \in Incoming(g), Stores(g, coeffs), NEW h \in Gens
    PROVE  Held(buf, file, h)' = Held(buf, file, h) \cup {block \in {Arriving(g, coeffs)} : h = g}
  BY StoreStep, Zenon

\* A helpful block extends what is known by itself.
LEMMA KnowsStoreBlock ==
    ASSUME CInv, NEW g \in Gens, NEW coeffs \in Incoming(g), StoreBlock(g, coeffs)
    PROVE  RowsInv' /\ KnowsInv'
<1> DEFINE n == num_blocks_gen[g]
           m == m_helpful[g]
<1>1. UNCHANGED <<identity, leftover>>
  BY DEF StoreBlock
<1>2. CASE UNCHANGED <<memory, file>>
  BY <1>1, <1>2, KnowsStutter DEF memory
<1>3. CASE /\ Stores(g, coeffs) /\ Innovative(m, coeffs, n)
           /\ m_helpful' = [m_helpful EXCEPT ![g] = InsertRow(@, coeffs, n)]
  <2> DEFINE m1 == InsertRow(m, coeffs, n)
  <2>1. /\ m_helpful'[g] = m1 /\ rank_vec'[g] = rank_vec[g] + 1 /\ rank_vec[g] \in Nat
        /\ \A h \in Gens \ {g} : m_helpful'[h] = m_helpful[h] /\ rank_vec'[h] = rank_vec[h]
    <3>1. rank_vec \in [Gens -> Nat] /\ m_helpful = [h \in Gens |-> m_helpful[h]]
      BY DEF CInv, IInv, TypeOK
    <3> QED BY <1>3, <3>1 DEF Stores
  <2>2. /\ coeffs \in Vector(n) /\ n \in Nat
        /\ Arriving(g, coeffs) \in CodedBlocks(g) /\ Arriving(g, coeffs).coeffs = coeffs
    BY CodingFacts, ArrivingIs
  <2>3. Echelon(m, n, n) /\ Cardinality(Diagonal(m, n)) = rank_vec[g]
    BY DEF CInv, RowsInv
  <2>4. \A h \in Gens : Received(h)' = Received(h) \cup {x \in {coeffs} : h = g}
    <3>1. \A h \in Gens : Held(buf, file, h)'
                = Held(buf, file, h) \cup {block \in {Arriving(g, coeffs)} : h = g}
      <4>1. IInv /\ Stores(g, coeffs)
        BY <1>3 DEF CInv
      <4> QED BY <4>1, StoredHeld
    <3> QED BY <2>2, <3>1 DEF Received
  <2> HIDE DEF m
  <2>5. /\ Echelon(m1, n, n)
        /\ Cardinality(Diagonal(m1, n)) = Cardinality(Diagonal(m, n)) + 1
        /\ \A W : IsSubspace(W, n) =>
             ((\A i \in Index(n) : m1[i] \in W) <=> (\A i \in Index(n) : m[i] \in W) /\ coeffs \in W)
    <3> HIDE DEF n
    <3> QED BY <1>3, <2>2, <2>3, InsertIs
  <2> HIDE DEF m1
  <2>6. RowsInv'
    <3>1. ASSUME NEW h \in Gens
          PROVE  /\ Echelon(m_helpful'[h], num_blocks_gen[h], num_blocks_gen[h])
                 /\ Cardinality(Diagonal(m_helpful'[h], num_blocks_gen[h])) = rank_vec'[h]
      <4>1. CASE h = g
        BY <2>1, <2>3, <2>5, <4>1
      <4>2. CASE h # g
        BY <2>1, <4>2 DEF CInv, RowsInv
      <4> QED BY <4>1, <4>2
    <3> QED BY <3>1 DEF RowsInv
  <2>7. ASSUME identity = CT_CLIENT, NEW h \in Gens, Fresh(h)
        PROVE  Knows(h)'
    <3>1. Knows(h)
      BY <2>7 DEF CInv, KnowsInv
    <3>2. CASE h # g
      <4>1. Received(h)' = Received(h) /\ m_helpful'[h] = m_helpful[h] /\ rank_vec'[h] = rank_vec[h]
        BY <2>1, <2>4, <3>2
      <4> QED BY <3>1, <4>1 DEF Knows
    <3>3. CASE h = g
      <4> DEFINE T == Received(g)
                 S == RowSpace(m, n)
      <4>1. /\ Free(T, n) /\ IsFiniteSet(T) /\ Cardinality(T) = rank_vec[g]
            /\ \A W : IsSubspace(W, n) => ((\A i \in Index(n) : m[i] \in W) <=> T \subseteq W)
        BY <3>1, <3>3 DEF Knows, m
      <4>2. Received(g)' = T \cup {coeffs}
        BY <2>4
      <4> HIDE DEF T
      <4>3. IsSubspace(S, n) /\ T \subseteq S /\ coeffs \notin S
        <5> HIDE DEF n
        <5>1. IsSubspace(S, n) /\ \A i \in Index(n) : m[i] \in S
          BY <2>3, RowSpaceIs
        <5>2. coeffs \notin S
          BY <1>3, <2>2, <2>3, InnovativeIs
        <5> QED BY <4>1, <5>1, <5>2
      <4> HIDE DEF S
      <4>4. Free(T \cup {coeffs}, n)
        <5> HIDE DEF n
        <5> QED BY <2>2, <4>1, <4>3, FreeAdd
      <4>5. IsFiniteSet(T \cup {coeffs}) /\ Cardinality(T \cup {coeffs}) = Cardinality(T) + 1
        BY <4>1, <4>3, FS_AddElement
      <4>6. ASSUME NEW W, IsSubspace(W, n)
            PROVE  (\A i \in Index(n) : m1[i] \in W) <=> T \cup {coeffs} \subseteq W
        <5>1. (\A i \in Index(n) : m[i] \in W) <=> T \subseteq W
          BY <4>1, <4>6
        <5>2. (\A i \in Index(n) : m1[i] \in W) <=> (\A i \in Index(n) : m[i] \in W) /\ coeffs \in W
          BY <2>5, <4>6
        <5> QED BY <5>1, <5>2
      <4> QED BY <2>1, <3>3, <4>1, <4>2, <4>4, <4>5, <4>6 DEF Knows
    <3> QED BY <3>2, <3>3
  <2>8. KnowsInv'
    BY <1>1, <2>7 DEF KnowsInv, Fresh
  <2> QED BY <2>6, <2>8
<1> QED BY <1>2, <1>3 DEF StoreBlock, IsHelpful, IncrementGenCompleted, Stores

LEMMA KnowsRestart ==
    ASSUME CInv, Restart
    PROVE  RowsInv' /\ KnowsInv'
<1>1. /\ buf' = [g \in Gens |-> <<>>] /\ file' = file
      /\ rank_vec' = [g \in Gens |-> 0] /\ m_helpful' = EmptyHelpful
      /\ leftover' = [g \in Gens |-> Len(file[g])]
  BY DEF Restart, EmptyBuf, NoRank
<1>2. \A g \in Gens : m_helpful'[g] = EmptyHelpful[g] /\ rank_vec'[g] = 0
  BY <1>1
<1>3. RowsInv'
  BY <1>2, NothingKnown DEF RowsInv
<1>4. ASSUME NEW g \in Gens, Fresh(g)'
      PROVE  Knows(g)'
  <2> DEFINE n == num_blocks_gen[g]
  <2>1. Received(g)' = {}
    <3>1. Len(file[g]) = 0 /\ file[g] \in Seq(CodedBlocks(g))
      BY <1>1, <1>4 DEF Fresh, CInv, IInv, TypeOK
    <3>2. file[g] = <<>>
      BY <3>1, EmptySeq
    <3>3. ToSet(<<>>) = {}
      BY DEF ToSet
    <3> QED BY <1>1, <3>2, <3>3 DEF Received, Held
  <2>2. /\ Free(Received(g)', n) /\ IsFiniteSet(Received(g)') /\ Cardinality(Received(g)') = 0
        /\ \A W : Received(g)' \subseteq W
    BY <2>1, NothingReceived
  <2>3. \A W : IsSubspace(W, n) => \A i \in Index(n) : m_helpful'[g][i] \in W
    BY <1>2, NothingKnown
  <2> QED BY <1>2, <2>2, <2>3 DEF Knows
<1> QED BY <1>3, <1>4 DEF KnowsInv

LEMMA CNext == CInv /\ [Next]_vars => CInv'
<1> SUFFICES ASSUME CInv, [Next]_vars PROVE CInv'
  OBVIOUS
<1>1. IInv'
  BY InvNext DEF CInv
<1> SUFFICES RowsInv' /\ KnowsInv'
  BY <1>1 DEF CInv
<1>2. ASSUME NEW g \in Gens, NEW coeffs \in Incoming(g), StoreBlock(g, coeffs)
      PROVE  RowsInv' /\ KnowsInv'
  BY <1>2, KnowsStoreBlock
<1>3. ASSUME NEW g \in Gens, ReEncode(g)
      PROVE  RowsInv' /\ KnowsInv'
  BY <1>3, KnowsStutter DEF ReEncode, memory, disk
<1>4. CASE Decode
  <2>1. CASE identity # CT_CLIENT /\ UNCHANGED <<identity, memory, disk>> /\ UNCHANGED leftover
    BY <2>1, KnowsStutter DEF memory, disk
  <2>2. CASE identity' = CT_SERVER /\ UNCHANGED <<m_helpful, rank_vec>>
    <3>1. identity' # CT_CLIENT
      BY <2>2 DEF CT_CLIENT, CT_SERVER
    <3> QED BY <2>2, <3>1, KnowsStutter
  <2> QED BY <1>4, <2>1, <2>2 DEF Decode
<1>5. CASE Restart
  BY <1>5, KnowsRestart
<1>6. CASE UNCHANGED vars
  BY <1>6, KnowsStutter DEF vars, memory, disk
<1> QED BY <1>2, <1>3, <1>4, <1>5, <1>6 DEF Next

LEMMA CInvariance == Spec => []CInv
  BY CInit, CNext, PTL DEF Spec
-----------------------------------------------------------------------------
(* What ReEncode and DecodeGen gather.                                     *)

LEMMA SegmentSize ==
    ASSUME NEW k \in Nat
    PROVE  IsFiniteSet(1..k) /\ Cardinality(1..k) = k
<1>1. 1 \in Int /\ k \in Int
  OBVIOUS
<1>2. IsFiniteSet(1..k) /\ Cardinality(1..k) = IF 1 > k THEN 0 ELSE k - 1 + 1
  BY <1>1, FS_Interval
<1> QED BY <1>2

LEMMA FunctionSeq ==
    ASSUME NEW T, NEW k \in Nat, NEW c \in [1..k -> T]
    PROVE  c \in Seq(T) /\ Len(c) = k
  OBVIOUS

LEMMA HeldSeq ==
    ASSUME NEW S, NEW s \in Seq(S), NEW T, T = {s[i].coeffs : i \in 1..Len(s)},
           NEW n \in Nat, Cardinality(T) = Len(s), T \subseteq Vector(n), Free(T, n)
    PROVE  Independent(Coeffs(s), n)
<1> DEFINE c == Coeffs(s)
<1>1. Len(s) \in Nat
  BY LenProperties
<1>2. c = [i \in 1..Len(s) |-> s[i].coeffs]
  BY DEF Coeffs
<1> HIDE DEF c
<1>3. c \in [1..Len(s) -> T]
  BY <1>2
<1>4. c \in Seq(T) /\ Len(c) = Len(s)
  BY <1>1, <1>3, FunctionSeq
<1>5. c \in Surjection(1..Len(s), T)
  <2>1. \A t \in T : \E i \in 1..Len(s) : c[i] = t
    BY <1>2
  <2> QED BY <1>3, <2>1 DEF Surjection
<1>6. IsFiniteSet(1..Len(s)) /\ Cardinality(1..Len(s)) = Len(s)
  BY <1>1, SegmentSize
<1>7. c \in Injection(1..Len(s), T)
  BY <1>5, <1>6, FS_Surjection
<1>8. \A i, j \in 1..Len(c) : c[i] = c[j] => i = j
  BY <1>3, <1>4, <1>7 DEF Injection, IsInjective
<1>9. Independent(c, n)
  BY <1>4, <1>8, FreeIndependent
<1> QED BY <1>9 DEF c

\* Whichever process received them, the gathered blocks are rank_vec many, and
\* coded from the shared file.
LEMMA GatheredBlocks ==
    ASSUME CInv, identity = CT_CLIENT, NEW g \in Gens
    PROVE  LET s == TempBuf(g)
               n == num_blocks_gen[g]
           IN  /\ s \in Seq(CodedBlocks(g)) /\ Len(s) \in Nat /\ Len(s) = rank_vec[g]
               /\ \A i \in 1..Len(s) : s[i] \in CodedBlocks(g)
               /\ Blocks(s, n) /\ \A i \in 1..Len(s) : Consistent(s[i], Data[g], n)
<1> DEFINE n == num_blocks_gen[g]
           s == TempBuf(g)
<1>1. s \in Seq(CodedBlocks(g)) /\ Len(s) = rank_vec[g]
  BY TempBufLength DEF CInv
<1> HIDE DEF n, s
<1>2. Len(s) \in Nat /\ \A i \in 1..Len(s) : s[i] \in CodedBlocks(g)
  BY <1>1, LenProperties, ElementOfSeq
<1>3. ASSUME NEW i \in 1..Len(s)
      PROVE  Block(s[i], n) /\ Consistent(s[i], Data[g], n)
  BY <1>2, ArrivingIs DEF n
<1>4. Blocks(s, n)
  BY <1>2, <1>3 DEF Blocks
<1> QED BY <1>1, <1>2, <1>3, <1>4 DEF n, s

LEMMA GatheredIs ==
    ASSUME CInv, identity = CT_CLIENT, NEW g \in Gens, Fresh(g)
    PROVE  LET s == TempBuf(g)
               n == num_blocks_gen[g]
           IN  /\ s \in Seq(CodedBlocks(g)) /\ Len(s) = rank_vec[g]
               /\ Received(g) = {s[i].coeffs : i \in 1..Len(s)}
               /\ Gathered(g) = Coeffs(s) /\ Independent(Coeffs(s), n)
               /\ Vectors(Coeffs(s), n)
               /\ Blocks(s, n) /\ \A i \in 1..Len(s) : Consistent(s[i], Data[g], n)
<1> DEFINE n == num_blocks_gen[g]
           s == TempBuf(g)
           T == Received(g)
<1>1. IInv /\ leftover[g] = 0 /\ CInv
  BY DEF CInv, Fresh
<1>2. Len(s) = rank_vec[g] /\ s = buf[g] \o file[g]
  BY <1>1, TempBufLength
<1>3. buf[g] \in Seq(CodedBlocks(g)) /\ file[g] \in Seq(CodedBlocks(g))
  BY <1>1 DEF IInv, TypeOK
<1>4. s \in Seq(CodedBlocks(g)) /\ ToSet(s) = Held(buf, file, g)
  BY <1>2, <1>3, ConcatElements, ConcatProperties DEF Held
<1>5. n \in Nat
  BY CodingFacts
<1>6. Gathered(g) = Coeffs(s)
  BY DEF Gathered, Coeffs
<1>7. T = {block.coeffs : block \in Held(buf, file, g)}
  BY DEF Received
<1>8. Free(T, n) /\ Cardinality(T) = rank_vec[g]
  BY DEF CInv, KnowsInv, Knows
<1> HIDE DEF n, s, T
<1>9. /\ DOMAIN s = 1..Len(s) /\ Len(s) \in Nat
      /\ \A i \in 1..Len(s) : s[i] \in CodedBlocks(g)
      /\ Blocks(s, n) /\ \A i \in 1..Len(s) : Consistent(s[i], Data[g], n)
  BY <1>1, <1>4, LenProperties, GatheredBlocks DEF n, s
<1>10. T = {s[i].coeffs : i \in 1..Len(s)}
  BY <1>4, <1>7, <1>9 DEF ToSet
<1>11. \A i \in 1..Len(s) : Block(s[i], n)
  BY <1>9 DEF Blocks
<1>12. T \subseteq Vector(n)
  BY <1>10, <1>11 DEF Block
<1>13. Independent(Coeffs(s), n)
  BY <1>2, <1>4, <1>5, <1>8, <1>10, <1>12, HeldSeq
<1>14. Vectors(Coeffs(s), n)
  <2>1. Coeffs(s) = [i \in 1..Len(s) |-> s[i].coeffs]
    BY DEF Coeffs
  <2>2. Coeffs(s) \in Seq(Vector(n)) /\ Len(Coeffs(s)) = Len(s)
    BY <1>9, <1>11, <2>1 DEF Block
  <2> QED BY <1>9, <1>11, <2>1, <2>2 DEF Vectors, Block
<1> QED BY <1>2, <1>4, <1>6, <1>9, <1>10, <1>13, <1>14 DEF n, s, T

-----------------------------------------------------------------------------
(* The matrix, the rank and the helpfulness test.                          *)

\* Whatever blocks arrive, in whatever order and through however many
\* evictions, each generation's m_helpful keeps its triangular shape and has as
\* many rows in use as rank_vec counts (nc.cpp:91-206).
THEOREM MatrixTriangular == Spec => []EchelonForm
<1>1. CInv => EchelonForm
  <2> SUFFICES ASSUME CInv, NEW g \in Gens
               PROVE  LET m == m_helpful[g]
                          Rows == Index(num_blocks_gen[g])
                      IN  /\ \A i, k \in Rows : k < i => m[i][k] = 0
                          /\ \A i \in Rows : m[i][i] = 0 => \A k \in Rows : m[i][k] = 0
                          /\ Cardinality({i \in Rows : m[i][i] # 0}) = rank_vec[g]
    BY DEF EchelonForm
  <2> DEFINE m == m_helpful[g]
             n == num_blocks_gen[g]
  <2>1. Echelon(m, n, n) /\ Cardinality(Diagonal(m, n)) = rank_vec[g]
    BY DEF CInv, RowsInv
  <2> HIDE DEF m, n
  <2>2. \A i, k \in Index(n) : k < i => m[i][k] = 0
    BY <2>1 DEF Echelon
  <2>3. \A i \in Index(n) : m[i][i] = 0 => \A k \in Index(n) : m[i][k] = 0
    BY <2>1, EchelonRows, ZeroEntries
  <2>4. Cardinality({i \in Index(n) : m[i][i] # 0}) = rank_vec[g]
    BY <2>1 DEF Diagonal
  <2> QED BY <2>2, <2>3, <2>4 DEF m, n
<1> QED BY <1>1, CInvariance, PTL

\* The number of blocks ReEncode and DecodeGen gather is the rank of their
\* coefficients, as GetRank takes it to be, for each generation whose temp file
\* holds only what this process put there (nc.h:95-97, codetorrent.cpp:656-660,
\* 780-784).
THEOREM GetRankCorrect == Spec => []GetRankIsRankWhenFresh
<1>1. CInv => GetRankIsRankWhenFresh
  BY GatheredIs DEF GetRankIsRankWhenFresh, RankIsGathered
<1> QED BY <1>1, CInvariance, PTL

\* What the gathered blocks span is what the rows of m_helpful span.
LEMMA GatheredSpan ==
    ASSUME CInv, identity = CT_CLIENT, NEW g \in Gens, Fresh(g)
    PROVE  SpanSeq(Gathered(g), num_blocks_gen[g]) = RowSpace(m_helpful[g], num_blocks_gen[g])
<1> DEFINE n == num_blocks_gen[g]
           m == m_helpful[g]
           s == TempBuf(g)
           c == Coeffs(s)
           T == Received(g)
<1>1. Gathered(g) = c /\ T = {s[i].coeffs : i \in 1..Len(s)} /\ Vectors(c, n)
  BY GatheredIs
<1>2. \A W : IsSubspace(W, n) => ((\A i \in Index(n) : m[i] \in W) <=> T \subseteq W)
  BY DEF CInv, KnowsInv, Knows
<1>3. Echelon(m, n, n)
  BY DEF CInv, RowsInv
<1>4. s \in Seq(CodedBlocks(g))
  BY GatheredIs
<1> HIDE DEF n, m, s, T
<1>5. Len(c) = Len(s) /\ \A i \in 1..Len(s) : c[i] = s[i].coeffs
  <2>1. Len(s) \in Nat
    BY <1>4, LenProperties
  <2> QED BY <2>1 DEF Coeffs
<1> HIDE DEF c
<1>6. /\ IsSubspace(SpanSeq(c, n), n) /\ \A i \in 1..Len(c) : c[i] \in SpanSeq(c, n)
      /\ \A V : IsSubspace(V, n) /\ (\A i \in 1..Len(c) : c[i] \in V) => SpanSeq(c, n) \subseteq V
  BY <1>1, SpanIs
<1>7. /\ IsSubspace(RowSpace(m, n), n) /\ \A i \in Index(n) : m[i] \in RowSpace(m, n)
      /\ \A V : IsSubspace(V, n) /\ (\A i \in Index(n) : m[i] \in V) => RowSpace(m, n) \subseteq V
  BY <1>3, RowSpaceIs
<1>8. T \subseteq SpanSeq(c, n)
  BY <1>1, <1>5, <1>6
<1>9. RowSpace(m, n) \subseteq SpanSeq(c, n)
  BY <1>2, <1>6, <1>7, <1>8
<1>10. T \subseteq RowSpace(m, n)
  BY <1>2, <1>7
<1>11. SpanSeq(c, n) \subseteq RowSpace(m, n)
  BY <1>1, <1>5, <1>6, <1>7, <1>10
<1>12. SpanSeq(c, n) = RowSpace(m, n)
  BY <1>9, <1>11
<1> QED BY <1>1, <1>12 DEF n, m

\* IsHelpful answers yes exactly to the blocks that are no combination of those
\* stored, although it looks at m_helpful and never at the blocks
\* (nc.cpp:91-206).
THEOREM HelpfulCorrect == Spec => []HelpfulIffInnovative
<1>1. CInv => HelpfulIffInnovative
  <2> SUFFICES ASSUME CInv, identity = CT_CLIENT, NEW g \in Gens, Fresh(g),
                      NEW x \in Vector(num_blocks_gen[g])
               PROVE  IsHelpful(rank_vec[g], m_helpful[g], x, num_blocks_gen[g])
                        <=> x \notin SpanSeq(Gathered(g), num_blocks_gen[g])
    BY DEF HelpfulIffInnovative
  <2> DEFINE n == num_blocks_gen[g]
             m == m_helpful[g]
  <2>1. Echelon(m, n, n) /\ Cardinality(Diagonal(m, n)) = rank_vec[g] /\ n \in Nat
    BY CodingFacts DEF CInv, RowsInv
  <2>2. SpanSeq(Gathered(g), n) = RowSpace(m, n)
    BY GatheredSpan
  <2> HIDE DEF n, m
  <2>3. Innovative(m, x, n) <=> x \notin RowSpace(m, n)
    BY <2>1, InnovativeIs DEF n
  <2>4. rank_vec[g] = n => ~Innovative(m, x, n)
    BY <2>1, FullNotInnovative
  <2>5. IsHelpful(rank_vec[g], m, x, n) <=> x \notin SpanSeq(Gathered(g), n)
    BY <2>2, <2>3, <2>4 DEF IsHelpful
  <2> QED BY <2>5 DEF n, m
<1> QED BY <1>1, CInvariance, PTL
-----------------------------------------------------------------------------
(* What is passed on.                                                      *)

LEMMA RowsContainGathered ==
    ASSUME CInv, identity = CT_CLIENT, NEW g \in Gens, Fresh(g)
    PROVE  LET S == RowSpace(m_helpful[g], num_blocks_gen[g])
               s == TempBuf(g)
           IN  /\ IsSubspace(S, num_blocks_gen[g])
               /\ \A i \in 1..Len(s) : s[i].coeffs \in S
               /\ \A W : /\ IsSubspace(W, num_blocks_gen[g])
                         /\ \A i \in 1..Len(s) : s[i].coeffs \in W
                         => S \subseteq W
<1> DEFINE n == num_blocks_gen[g]
           m == m_helpful[g]
           s == TempBuf(g)
           T == Received(g)
           S == RowSpace(m, n)
<1>1. T = {s[i].coeffs : i \in 1..Len(s)}
  BY GatheredIs
<1>2. \A W : IsSubspace(W, n) => ((\A i \in Index(n) : m[i] \in W) <=> T \subseteq W)
  BY DEF CInv, KnowsInv, Knows
<1>3. Echelon(m, n, n)
  BY DEF CInv, RowsInv
<1> HIDE DEF n, m, s, T
<1>4. /\ IsSubspace(S, n) /\ \A i \in Index(n) : m[i] \in S
      /\ \A V : IsSubspace(V, n) /\ (\A i \in Index(n) : m[i] \in V) => S \subseteq V
  BY <1>3, RowSpaceIs
<1> HIDE DEF S
<1>5. T \subseteq S
  BY <1>2, <1>4
<1>6. \A i \in 1..Len(s) : s[i].coeffs \in S
  BY <1>1, <1>5
<1>7. ASSUME NEW W, IsSubspace(W, n), \A i \in 1..Len(s) : s[i].coeffs \in W
      PROVE  S \subseteq W
  <2>1. T \subseteq W
    BY <1>1, <1>7
  <2> QED BY <1>2, <1>4, <1>7, <2>1
<1> QED BY <1>4, <1>6, <1>7 DEF n, m, s, S

LEMMA OnlyZero ==
    ASSUME NEW d
    PROVE  IsSubspace({ZeroVector(d)}, d)
<1>1. ZeroVector(d) \in Vector(d)
  BY ZeroEntries
<1>2. \A a \in Symbol : Comb(ZeroVector(d), a, ZeroVector(d), d) = ZeroVector(d)
  BY <1>1, CombZero
<1> QED BY <1>1, <1>2 DEF IsSubspace

\* Nothing is known of a generation exactly when its rank is 0.
LEMMA RankOfKnown ==
    ASSUME CInv, NEW g \in Gens
    PROVE  LET n == num_blocks_gen[g]
           IN  RowSpace(m_helpful[g], n) = {ZeroVector(n)} <=> rank_vec[g] = 0
<1> DEFINE n == num_blocks_gen[g]
           m == m_helpful[g]
           S == RowSpace(m, n)
<1>1. Echelon(m, n, n) /\ Cardinality(Diagonal(m, n)) = rank_vec[g] /\ n \in Nat
  BY CodingFacts DEF CInv, RowsInv
<1> HIDE DEF n, m
<1>2. /\ IsSubspace(S, n) /\ \A i \in Index(n) : m[i] \in S
      /\ \A W : IsSubspace(W, n) /\ (\A i \in Index(n) : m[i] \in W) => S \subseteq W
  BY <1>1, RowSpaceIs
<1>3. IsFiniteSet(Diagonal(m, n))
  BY <1>1, DiagonalIs
<1> HIDE DEF S
<1>4. CASE Diagonal(m, n) = {}
  <2>1. \A i \in Index(n) : m[i] = ZeroVector(n)
    BY <1>1, <1>4, EchelonRows DEF Diagonal
  <2>2. S \subseteq {ZeroVector(n)}
    BY <1>2, <2>1, OnlyZero
  <2>3. S = {ZeroVector(n)}
    BY <1>2, <2>2 DEF IsSubspace
  <2> QED BY <1>1, <1>4, <2>3, FS_EmptySet DEF n, m, S
<1>5. CASE Diagonal(m, n) # {}
  <2>1. PICK i \in Index(n) : m[i][i] # 0
    BY <1>5 DEF Diagonal
  <2>2. m[i] # ZeroVector(n)
    BY <2>1, ZeroEntries
  <2>3. S # {ZeroVector(n)}
    BY <1>2, <2>2
  <2>4. rank_vec[g] # 0
    BY <1>1, <1>3, <1>5, FS_EmptySet
  <2> QED BY <2>3, <2>4 DEF n, m, S
<1> QED BY <1>4, <1>5

\* ReEncode returns nothing if nothing is known, otherwise a block with its true
\* payload: a nonzero one of the known subspace, if this process received all
\* that is in the temp file.
LEMMA Relayed ==
    ASSUME CInv, NEW g \in Gens, ReEncode(g)
    PROVE  LET n == num_blocks_gen[g]
               S == RowSpace(m_helpful[g], n)
           IN  \/ S = {ZeroVector(n)} /\ reencoded' = Null
               \/ /\ S # {ZeroVector(n)}
                  /\ \E v \in Vector(n) :
                        /\ Fresh(g) => v \in S \ {ZeroVector(n)}
                        /\ reencoded' = [gen |-> g, coeffs |-> v, sums |-> Dot(Data[g], v, n)]
<1> DEFINE n == num_blocks_gen[g]
           s == TempBuf(g)
           S == RowSpace(m_helpful[g], n)
<1>1. identity = CT_CLIENT
  BY DEF ReEncode
<1>2. /\ s \in Seq(CodedBlocks(g)) /\ Len(s) \in Nat /\ Len(s) = rank_vec[g]
      /\ Blocks(s, n) /\ \A i \in 1..Len(s) : Consistent(s[i], Data[g], n)
  BY <1>1, GatheredBlocks
<1>3. S = {ZeroVector(n)} <=> rank_vec[g] = 0
  BY RankOfKnown
<1>4. n \in Nat /\ Entries(Data[g], n) /\ Weights \subseteq NonZero
  BY CodingFacts, CodingAssumption
<1>5. ASSUME Fresh(g)
      PROVE  /\ Independent(Coeffs(s), n)
             /\ IsSubspace(S, n) /\ \A i \in 1..Len(s) : s[i].coeffs \in S
  BY <1>1, <1>5, GatheredIs, RowsContainGathered
<1>6. CASE ~CanReEncode(s) /\ reencoded' = Null
  <2> HIDE DEF n, s, S
  <2>1. S = {ZeroVector(n)}
    BY <1>2, <1>3, <1>6 DEF CanReEncode
  <2> QED BY <1>6, <2>1 DEF n, S
<1>7. ASSUME CanReEncode(s), NEW rand \in [1..Len(s) -> Weights],
             LET block == ReEncodeBlock(s, rand, n)
             IN  reencoded' = [gen |-> g, coeffs |-> block.coeffs, sums |-> block.sums]
      PROVE  /\ S # {ZeroVector(n)}
             /\ \E v \in Vector(n) :
                   /\ Fresh(g) => v \in S \ {ZeroVector(n)}
                   /\ reencoded' = [gen |-> g, coeffs |-> v, sums |-> Dot(Data[g], v, n)]
  <2> DEFINE block == ReEncodeBlock(s, rand, n)
             data == Data[g]
  <2>1. reencoded' = [gen |-> g, coeffs |-> block.coeffs, sums |-> block.sums]
    BY <1>7
  <2>2. \A i \in 1..Len(s) : rand[i] \in Symbol /\ rand[i] # 0
    BY <1>4 DEF NonZero
  <2>3. Rands(s, rand)
    BY <2>2 DEF Rands
  <2>4. Entries(data, n)
    BY <1>4
  <2> HIDE DEF n, s, S, data
  <2>5. /\ block.coeffs \in Vector(n)
        /\ \A w : Entries(w, n) /\ (\A i \in 1..Len(s) : Consistent(s[i], w, n))
                    => Consistent(block, w, n)
        /\ \A W : IsSubspace(W, n) /\ (\A i \in 1..Len(s) : s[i].coeffs \in W)
                    => block.coeffs \in W
        /\ Independent(Coeffs(s), n) => block.coeffs # ZeroVector(n)
    BY <1>2, <1>4, <1>7, <2>2, <2>3, ReEncodeSound
  <2> HIDE DEF block
  <2>6. Consistent(block, data, n)
    BY <1>2, <2>4, <2>5 DEF data
  <2>7. Fresh(g) => block.coeffs \in S \ {ZeroVector(n)}
    BY <1>5, <2>5
  <2>8. block.sums = Dot(data, block.coeffs, n)
    BY <2>6 DEF Consistent
  <2>9. S # {ZeroVector(n)}
    BY <1>2, <1>3, <1>7 DEF CanReEncode
  <2> QED BY <2>1, <2>5, <2>7, <2>8, <2>9 DEF data
<1> QED BY <1>6, <1>7 DEF ReEncode

\* Wherever the blocks it combines were kept, and whichever weights it drew,
\* what ReEncode returns carries the payload its coefficients announce, even
\* over an earlier process's temp file; and it is not zero, if there was none
\* (codetorrent.cpp:635-689, nc.cpp:98-160).
THEOREM ReEncodedCorrect == Spec => []ReEncodedSound
<1>1. Init => ReEncodedSound
  BY DEF Init, ReEncodedSound
<1>2. CInv /\ ReEncodedSound /\ [Next]_vars => ReEncodedSound'
  <2> SUFFICES ASSUME CInv, ReEncodedSound, [Next]_vars, reencoded' # Null
               PROVE  LET n == num_blocks_gen[reencoded'.gen]
                      IN  /\ Consistent(reencoded', Data[reencoded'.gen], n)
                          /\ Fresh(reencoded.gen)' => reencoded'.coeffs # ZeroVector(n)
    BY DEF ReEncodedSound
  <2>1. CASE UNCHANGED <<reencoded, leftover>>
    BY <2>1 DEF ReEncodedSound, Fresh
  <2>2. ASSUME NEW g \in Gens, ReEncode(g)
        PROVE  LET n == num_blocks_gen[reencoded'.gen]
               IN  /\ Consistent(reencoded', Data[reencoded'.gen], n)
                   /\ Fresh(reencoded.gen)' => reencoded'.coeffs # ZeroVector(n)
    <3> DEFINE n == num_blocks_gen[g]
    <3>1. leftover' = leftover
      BY <2>2 DEF ReEncode
    <3>2. PICK v \in Vector(n) :
            /\ Fresh(g) => v # ZeroVector(n)
            /\ reencoded' = [gen |-> g, coeffs |-> v, sums |-> Dot(Data[g], v, n)]
      BY <2>2, Relayed
    <3>3. /\ reencoded'.gen = g /\ reencoded'.coeffs = v
          /\ reencoded'.sums = Dot(Data[g], v, n) /\ (Fresh(g) => v # ZeroVector(n))
      BY <3>2
    <3> QED BY <3>1, <3>3 DEF Consistent, Fresh
  <2>3. ASSUME NEW g \in Gens, NEW coeffs \in Incoming(g), StoreBlock(g, coeffs)
        PROVE  UNCHANGED <<reencoded, leftover>>
    BY <2>3 DEF StoreBlock
  <2>4. CASE Decode
    BY <2>1, <2>4 DEF Decode
  <2>5. ~Restart
    BY DEF Restart
  <2>6. CASE UNCHANGED vars
    BY <2>1, <2>6 DEF vars
  <2> QED BY <2>1, <2>2, <2>3, <2>4, <2>5, <2>6 DEF Next
<1> QED BY <1>1, <1>2, CInvariance, PTL DEF Spec
-----------------------------------------------------------------------------
(* What is decoded.                                                        *)

\* The one Decode that does the work solves every generation for its data, but
\* for those mixed with an earlier process's blocks.
LEMMA Decoded ==
    ASSUME CInv, DecodeHasAllBlocks, identity = CT_CLIENT, Decode
    PROVE  /\ UNCHANGED m_helpful /\ DOMAIN out_file' = Gens
           /\ \A g \in Gens :
                /\ RowSpace(m_helpful[g], num_blocks_gen[g]) = Vector(num_blocks_gen[g])
                /\ out_file'[g] \in Vector(num_blocks_gen[g])
                /\ Fresh(g) => out_file'[g] = Data[g]
<1>1. /\ out_file' = [g \in Gens |-> DecodeBuffer(TempBuf(g), num_blocks_gen[g])]
      /\ UNCHANGED m_helpful /\ DownloadCompleted
  BY DEF Decode
<1>2. ASSUME NEW g \in Gens
      PROVE  /\ RowSpace(m_helpful[g], num_blocks_gen[g]) = Vector(num_blocks_gen[g])
             /\ DecodeBuffer(TempBuf(g), num_blocks_gen[g]) \in Vector(num_blocks_gen[g])
             /\ Fresh(g) => DecodeBuffer(TempBuf(g), num_blocks_gen[g]) = Data[g]
  <2> DEFINE n == num_blocks_gen[g]
             m == m_helpful[g]
             s == TempBuf(g)
             data == Data[g]
  <2>1. /\ Len(s) = rank_vec[g]
        /\ Blocks(s, n) /\ \A i \in 1..Len(s) : Consistent(s[i], data, n)
    BY GatheredBlocks
  <2>2. Len(s) = n
    BY <1>1 DEF DecodeHasAllBlocks
  <2>3. n \in Nat /\ data \in Vector(n)
    BY CodingFacts
  <2>4. Echelon(m, n, n) /\ Cardinality(Diagonal(m, n)) = rank_vec[g]
    BY DEF CInv, RowsInv
  <2>5. Fresh(g) => Independent(Coeffs(s), n)
    BY GatheredIs
  <2> HIDE DEF n, m, s, data
  <2>6. DecodeBuffer(s, n) \in Vector(n)
    BY <2>1, <2>3, DecodeTyped
  <2>7. Fresh(g) => DecodeBuffer(s, n) = data
    BY <2>1, <2>2, <2>3, <2>5, DecodeCorrect
  <2>8. \A x \in Vector(n) : x \in RowSpace(m, n)
    BY <2>1, <2>2, <2>3, <2>4, InnovativeIs, FullNotInnovative
  <2>9. RowSpace(m, n) \subseteq Vector(n)
    BY <2>4, RowSpaceIs DEF IsSubspace
  <2>10. RowSpace(m, n) = Vector(n)
    BY <2>8, <2>9
  <2> QED BY <2>6, <2>7, <2>10 DEF n, m, s, data
<1> QED BY <1>1, <1>2

\* When the download completes, what Decode writes is the shared file,
\* whichever blocks were received, in whatever order, and whichever went
\* through a temp file, in every generation of which an earlier process left
\* none (codetorrent.cpp:724-797, nc.cpp:264-306, 457-520).
THEOREM DecodedCorrect == Spec => []DecodedIsFile
<1>1. Init => DecodedIsFile
  BY DEF Init, DecodedIsFile, CT_CLIENT, CT_SERVER
<1>2. CInv /\ DecodeHasAllBlocks /\ DecodedIsFile /\ [Next]_vars => DecodedIsFile'
  <2> SUFFICES ASSUME CInv, DecodeHasAllBlocks, DecodedIsFile, [Next]_vars,
                      identity' = CT_SERVER, NEW g \in Gens, Fresh(g)'
               PROVE  out_file'[g] = Data[g]
    BY DEF DecodedIsFile
  <2>1. CASE UNCHANGED <<identity, out_file, leftover>>
    BY <2>1 DEF DecodedIsFile, Fresh
  <2>2. ASSUME NEW h \in Gens, NEW coeffs \in Incoming(h), StoreBlock(h, coeffs)
        PROVE  UNCHANGED <<identity, out_file, leftover>>
    BY <2>2 DEF StoreBlock
  <2>3. ASSUME NEW h \in Gens, ReEncode(h)
        PROVE  UNCHANGED <<identity, out_file, leftover>>
    BY <2>3 DEF ReEncode, disk
  <2>4. CASE Decode
    <3>1. UNCHANGED leftover
      BY <2>4 DEF Decode
    <3>2. CASE UNCHANGED <<identity, disk>>
      BY <2>1, <3>1, <3>2 DEF disk
    <3>3. CASE identity = CT_CLIENT
      <4>1. Fresh(g)
        BY <3>1 DEF Fresh
      <4> QED BY <2>4, <3>3, <4>1, Decoded
    <3> QED BY <2>4, <3>2, <3>3 DEF Decode
  <2>5. ~Restart
    BY DEF Restart, CT_CLIENT, CT_SERVER
  <2>6. CASE UNCHANGED vars
    BY <2>1, <2>6 DEF vars, disk
  <2> QED BY <2>1, <2>2, <2>3, <2>4, <2>5, <2>6 DEF Next
<1> QED BY <1>1, <1>2, CInvariance, DecodeSupplied, PTL DEF Spec

-----------------------------------------------------------------------------
(* CodeTorrent implements Download.                                        *)

\* There is no output before Decode, and afterwards every generation is full: so
\* a temp file that has records belongs to a generation of which something is
\* known, or to one of which a process before left some.
ProcessInv ==
    /\ identity = CT_CLIENT => out_file = <<>>
    /\ identity # CT_CLIENT => \A g \in Gens : rank_vec[g] # 0

LEMMA ProcessInit == Init => ProcessInv
  BY DEF Init, ProcessInv

LEMMA ProcessNext ==
    ASSUME CInv, DecodeHasAllBlocks, ProcessInv, [Next]_vars
    PROVE  ProcessInv'
<1>1. CASE UNCHANGED <<identity, out_file, rank_vec>>
  BY <1>1 DEF ProcessInv
<1>2. ASSUME NEW g \in Gens, NEW coeffs \in Incoming(g), StoreBlock(g, coeffs)
      PROVE  ProcessInv'
  <2>1. UNCHANGED <<identity, out_file>>
    BY <1>2 DEF StoreBlock
  <2>2. CASE UNCHANGED memory
    BY <1>1, <2>1, <2>2 DEF memory
  <2>3. CASE rank_vec' = [rank_vec EXCEPT ![g] = @ + 1]
    <3>1. rank_vec \in [Gens -> Nat]
      BY DEF CInv, IInv, TypeOK
    <3>2. \A h \in Gens : rank_vec[h] # 0 => rank_vec'[h] # 0
      BY <2>3, <3>1
    <3> QED BY <2>1, <3>2 DEF ProcessInv
  <2> QED BY <1>2, <2>2, <2>3 DEF StoreBlock
<1>3. ASSUME NEW g \in Gens, ReEncode(g)
      PROVE  UNCHANGED <<identity, out_file, rank_vec>>
  BY <1>3 DEF ReEncode, memory, disk
<1>4. CASE Decode
  <2>1. CASE UNCHANGED <<identity, memory, disk>>
    BY <1>1, <2>1 DEF memory, disk
  <2>2. CASE identity = CT_CLIENT /\ identity' = CT_SERVER /\ UNCHANGED rank_vec
    <3>1. DownloadCompleted
      BY <1>4 DEF Decode
    <3>2. ASSUME NEW g \in Gens
          PROVE  rank_vec[g] # 0
      <4>1. Len(TempBuf(g)) = rank_vec[g] /\ Len(TempBuf(g)) = num_blocks_gen[g]
        BY <2>2, <3>1, TempBufLength DEF CInv, DecodeHasAllBlocks
      <4> QED BY <4>1, LayoutFacts
    <3> QED BY <2>2, <3>2 DEF ProcessInv, CT_CLIENT, CT_SERVER
  <2> QED BY <1>4, <2>1, <2>2 DEF Decode
<1>5. CASE Restart
  BY <1>5 DEF Restart, ProcessInv
<1>6. CASE UNCHANGED vars
  BY <1>1, <1>6 DEF vars, memory, disk
<1> QED BY <1>1, <1>2, <1>3, <1>4, <1>5, <1>6 DEF Next

\* Only a generation that was stale, or of which something is known, can be
\* stale in the next process.
LEMMA StaleExplained ==
    ASSUME CInv, ProcessInv, Restart, NEW g \in Gens, ~Fresh(g)'
    PROVE  \/ ~Fresh(g)
           \/ RowSpace(m_helpful[g], num_blocks_gen[g]) # {ZeroVector(num_blocks_gen[g])}
<1>1. leftover'[g] = Len(file[g]) /\ leftover'[g] # 0
  BY DEF Restart, Fresh
<1>2. SUFFICES ASSUME Fresh(g), rank_vec[g] = 0 PROVE FALSE
  BY RankOfKnown
<1>3. identity = CT_CLIENT
  BY <1>2 DEF ProcessInv
<1>4. /\ Len(file[g]) = leftover[g] + rank_vec[g] - rank_vec_in_buf[g]
      /\ rank_vec_in_buf[g] <= rank_vec[g] /\ rank_vec_in_buf[g] \in Nat
  BY <1>3 DEF CInv, IInv, TypeOK, Accounting
<1> QED BY <1>1, <1>2, <1>4 DEF Fresh

\* The vectors of Download are those of the store.
LEMMA SameNotions ==
    /\ \A n : Abstract!Vector(n) = Vector(n) /\ Abstract!ZeroVector(n) = ZeroVector(n)
    /\ \A S, v, n : Abstract!Extend(S, v, n) = Extend(S, v, n)
    /\ \A x, y, n : Abstract!Dot(x, y, n) = Dot(x, y, n)
<1>1. \A n : Abstract!Vector(n) = Vector(n)
  BY Zenon DEF Abstract!Vector, Vector, Abstract!Index, Index
<1>2. \A n : Abstract!ZeroVector(n) = ZeroVector(n)
  BY Zenon DEF Abstract!ZeroVector, ZeroVector, Abstract!Index, Index
<1>3. \A S, v, n : Abstract!Extend(S, v, n) = Extend(S, v, n)
  <2>1. \A a, x, n : Abstract!Scale(a, x, n) = Scale(a, x, n)
    BY Zenon DEF Abstract!Scale, Scale, Abstract!Index, Index
  <2>2. \A x, y, n : Abstract!Plus(x, y, n) = Plus(x, y, n)
    BY Zenon DEF Abstract!Plus, Plus, Abstract!Index, Index
  <2> QED BY <2>1, <2>2 DEF Abstract!Extend, Extend
<1>4. \A x, y, n : Abstract!Dot(x, y, n) = Dot(x, y, n)
  BY Zenon DEF Abstract!Dot, Dot
<1> QED BY <1>1, <1>2, <1>3, <1>4

Known == [g \in Gens |-> RowSpace(m_helpful[g], num_blocks_gen[g])]
Stale == {g \in Gens : ~Fresh(g)}

\* A process that starts knows nothing.
LEMMA KnowsNothing ==
    ASSUME NEW matrices, matrices = EmptyHelpful
    PROVE  [g \in Gens |-> RowSpace(matrices[g], num_blocks_gen[g])] = Abstract!NothingKnown
<1>1. ASSUME NEW g \in Gens
      PROVE  RowSpace(matrices[g], num_blocks_gen[g]) = {ZeroVector(num_blocks_gen[g])}
  <2> DEFINE m == matrices[g]
             n == num_blocks_gen[g]
  <2>1. m = EmptyHelpful[g] /\ m = [i \in Index(n) |-> ZeroVector(n)]
    BY DEF EmptyHelpful, ZeroMatrix
  <2>2. Echelon(m, n, n)
    BY <2>1, NothingKnown
  <2> HIDE DEF m, n
  <2>3. /\ IsSubspace(RowSpace(m, n), n)
        /\ \A V : IsSubspace(V, n) /\ (\A i \in Index(n) : m[i] \in V) => RowSpace(m, n) \subseteq V
    BY <2>2, RowSpaceIs
  <2>4. RowSpace(m, n) \subseteq {ZeroVector(n)}
    BY <2>1, <2>3, OnlyZero
  <2>5. ZeroVector(n) \in RowSpace(m, n)
    BY <2>3 DEF IsSubspace
  <2>6. RowSpace(m, n) = {ZeroVector(n)}
    BY <2>4, <2>5
  <2> QED BY <2>6 DEF m, n
<1> QED BY <1>1, SameNotions DEF Abstract!NothingKnown, Abstract!Nothing

LEMMA RefinesInit == Init => Abstract!Init
<1> SUFFICES ASSUME Init PROVE Abstract!Init
  OBVIOUS
<1>1. Known = Abstract!NothingKnown
  BY KnowsNothing DEF Init, Known
<1>2. Stale = {}
  BY DEF Init, Stale, Fresh, NoRank
<1> QED BY <1>1, <1>2 DEF Abstract!Init, Init, Known, Stale, Null, Abstract!NoBlock

LEMMA RefinesNext ==
    ASSUME CInv, DecodeHasAllBlocks, ProcessInv, [Next]_vars
    PROVE  [Abstract!Next]_Abstract!vars
<1> SUFFICES \/ Abstract!Next
             \/ UNCHANGED <<m_helpful, leftover, out_file, reencoded>>
  BY DEF Abstract!vars, Fresh
<1>1. ASSUME NEW g \in Gens, NEW coeffs \in Incoming(g), StoreBlock(g, coeffs)
      PROVE  Abstract!Receive(g) \/ UNCHANGED <<m_helpful, leftover, out_file, reencoded>>
  <2> DEFINE n == num_blocks_gen[g]
             m == m_helpful[g]
  <2>1. UNCHANGED <<leftover, out_file, reencoded>>
    BY <1>1 DEF StoreBlock
  <2>2. CASE UNCHANGED memory
    BY <2>1, <2>2 DEF memory
  <2>3. CASE /\ Innovative(m, coeffs, n)
             /\ m_helpful' = [m_helpful EXCEPT ![g] = InsertRow(@, coeffs, n)]
    <3>1. coeffs \in Vector(n)
      BY CodingFacts
    <3>2. Echelon(m, n, n)
      BY DEF CInv, RowsInv
    <3>3. m_helpful = [h \in Gens |-> m_helpful[h]]
      BY DEF CInv, IInv, TypeOK
    <3>4. /\ m_helpful'[g] = InsertRow(m, coeffs, n)
          /\ \A h \in Gens \ {g} : m_helpful'[h] = m_helpful[h]
      BY <2>3, <3>3
    <3>5. RowSpace(m_helpful'[g], n) = Extend(RowSpace(m, n), coeffs, n)
      <4> HIDE DEF m, n
      <4> QED BY <2>3, <3>1, <3>2, <3>4, InsertRowSpace
    <3>6. coeffs \notin RowSpace(m, n)
      <4> HIDE DEF m, n
      <4> QED BY <2>3, <3>1, <3>2, InnovativeIs
    <3>7. Known' = [Known EXCEPT ![g] = Extend(@, coeffs, n)]
      BY <3>4, <3>5 DEF Known
    <3>8. coeffs \in Vector(n) \ Known[g]
      BY <3>1, <3>6 DEF Known
    <3>9. UNCHANGED Stale
      BY <2>1 DEF Stale, Fresh
    <3> QED BY <2>1, <3>7, <3>8, <3>9, SameNotions DEF Abstract!Receive, Known, Stale
  <2> QED BY <1>1, <2>2, <2>3 DEF StoreBlock, IsHelpful, memory
<1>2. ASSUME NEW g \in Gens, ReEncode(g)
      PROVE  Abstract!Relay(g)
  <2> DEFINE n == num_blocks_gen[g]
  <2>1. UNCHANGED <<m_helpful, leftover, out_file>>
    BY <1>2 DEF ReEncode, memory, disk
  <2>2. \/ Known[g] = {ZeroVector(n)} /\ reencoded' = Null
        \/ /\ Known[g] # {ZeroVector(n)}
           /\ \E v \in IF g \in Stale THEN Vector(n) ELSE Known[g] \ {ZeroVector(n)} :
                reencoded' = [gen |-> g, coeffs |-> v, sums |-> Dot(Data[g], v, n)]
    BY <1>2, Relayed DEF Known, Stale
  <2>3. UNCHANGED Known /\ UNCHANGED Stale
    BY <2>1 DEF Known, Stale, Fresh
  <2> QED BY <2>1, <2>2, <2>3, SameNotions
          DEF Abstract!Relay, Abstract!Nothing, Known, Stale, Null, Abstract!NoBlock
<1>3. CASE Decode
  <2>1. UNCHANGED <<leftover, reencoded>>
    BY <1>3 DEF Decode
  <2>2. CASE UNCHANGED <<memory, disk>>
    BY <2>1, <2>2 DEF memory, disk
  <2>3. CASE identity = CT_CLIENT
    <3>1. out_file = <<>>
      BY <2>3 DEF ProcessInv
    <3>2. /\ UNCHANGED m_helpful /\ DOMAIN out_file' = Gens
          /\ \A g \in Gens :
               /\ RowSpace(m_helpful[g], num_blocks_gen[g]) = Vector(num_blocks_gen[g])
               /\ out_file'[g] \in Vector(num_blocks_gen[g])
               /\ Fresh(g) => out_file'[g] = Data[g]
      BY <1>3, <2>3, Decoded
    <3>3. \A g \in Gens : Known[g] = Vector(num_blocks_gen[g])
      BY <3>2 DEF Known
    <3>4. \A g \in Gens : g \notin Stale => out_file'[g] = Data[g]
      BY <3>2 DEF Stale
    <3>5. UNCHANGED Known /\ UNCHANGED Stale
      BY <2>1, <3>2 DEF Known, Stale, Fresh
    <3>6. Abstract!Finish
      BY <2>1, <3>1, <3>2, <3>3, <3>4, <3>5, SameNotions DEF Abstract!Finish, Known, Stale
    <3> QED BY <3>6 DEF Abstract!Next
  <2> QED BY <1>3, <2>2, <2>3 DEF Decode
<1>4. CASE Restart
  <2>1. Known' = Abstract!NothingKnown
    <3>1. m_helpful' = EmptyHelpful
      BY <1>4 DEF Restart
    <3> QED BY <3>1, KnowsNothing DEF Known
  <2>2. Stale' \subseteq Stale \cup {g \in Gens : Known[g] # {ZeroVector(num_blocks_gen[g])}}
    BY <1>4, StaleExplained DEF Stale, Known
  <2>3. out_file' = <<>> /\ reencoded' = Null
    BY <1>4 DEF Restart
  <2>4. Abstract!Restart
    BY <2>1, <2>2, <2>3, SameNotions
       DEF Abstract!Restart, Abstract!Nothing, Known, Stale, Null, Abstract!NoBlock
  <2> QED BY <2>4 DEF Abstract!Next
<1>5. CASE UNCHANGED vars
  BY <1>5 DEF vars, memory, disk
<1> QED BY <1>1, <1>2, <1>3, <1>4, <1>5 DEF Next, Abstract!Next

\* The store, through buffering, eviction to disk, row reduction and any number
\* of restarts, is the abstract download: for every file, field and set of
\* arriving blocks, each accepted block extends what is known by itself, whatever
\* is passed on has its true payload and, of a generation no earlier process left
\* records of, is a nonzero block of the known subspace, and decoding yields the
\* file, but for the generations an earlier process left records of
\* (codetorrent.cpp:635-797, 904-941; nc.cpp:91-206, 264-306).
THEOREM StoreImplementsDownload == Spec => ImplementsDownload
<1>1. CInv /\ DecodeHasAllBlocks /\ ProcessInv /\ [Next]_vars => ProcessInv'
  BY ProcessNext
<1>2. CInv /\ DecodeHasAllBlocks /\ ProcessInv /\ [Next]_vars => [Abstract!Next]_Abstract!vars
  BY RefinesNext
<1> QED BY <1>1, <1>2, RefinesInit, ProcessInit, CInvariance, DecodeSupplied,
           PTL DEF Spec, ImplementsDownload, Abstract!Spec

-----------------------------------------------------------------------------
(* The same store by its numbers only.                                     *)

InFile(f) == [g \in Gens |-> Len(f[g])]

LEMMA CountsInit == Init => Counts!Init
<1> SUFFICES ASSUME Init PROVE Counts!Init
  OBVIOUS
<1>1. Len(<<>>) = 0
  BY EmptySeq
<1>2. InFile(file) = [g \in Gens |-> 0]
  BY <1>1 DEF Init, EmptyBuf, InFile
<1> QED BY <1>2 DEF Init, NoRank, InFile, Counts!Init, Counts!None, CT_CLIENT, CT_SERVER

\* buf.size() is the sum of rank_vec_in_buf.
LEMMA CountsBufSize ==
    ASSUME NEW b, NEW held, \A g \in Gens : held[g] = Len(b[g])
    PROVE  BufSize(b) = Counts!BufSize(held)
<1>1. \A g \in Gens : {g} \X (1..Len(b[g])) = {g} \X (1..held[g])
  OBVIOUS
<1>2. BufSlots(b) = UNION {{g} \X (1..held[g]) : g \in Gens}
  BY <1>1 DEF BufSlots
<1> QED BY <1>2 DEF BufSize, Counts!BufSize, Cardinality, Counts!Cardinality

LEMMA CountsPlace ==
    ASSUME NEW b, IsBuffer(b), IsFile(file),
           NEW held \in [Gens -> Nat], \A g \in Gens : held[g] = Len(b[g]),
           FlushBuf(b, held)
    PROVE  Counts!Place(held)
<1>1. BufSize(b) = Counts!BufSize(held)
  BY CountsBufSize
<1>2. CASE BufSize(b) < buffer_size /\ Flushed(b, held, file)
  <2>1. rank_vec_in_buf' = held /\ UNCHANGED [g \in Gens |-> Len(file[g])]
    BY <1>2 DEF Flushed
  <2> QED BY <1>1, <1>2, <2>1 DEF Counts!Place
<1>3. CASE /\ BufSize(b) >= buffer_size
           /\ \E e \in {g \in Gens : held[g] > 0} :
                Flushed([b EXCEPT ![e] = <<>>], [held EXCEPT ![e] = @ - Len(b[e])],
                        [file EXCEPT ![e] = @ \o Reverse(b[e])])
  <2>1. PICK e \in {g \in Gens : held[g] > 0} :
            /\ rank_vec_in_buf' = [held EXCEPT ![e] = @ - Len(b[e])]
            /\ file' = [file EXCEPT ![e] = @ \o Reverse(b[e])]
    BY <1>3 DEF Flushed
  <2>2. held[e] - Len(b[e]) = 0
    OBVIOUS
  <2>3. rank_vec_in_buf' = [held EXCEPT ![e] = 0]
    BY <2>1, <2>2
  <2>4. Len(file[e] \o Reverse(b[e])) = Len(file[e]) + held[e]
    <3> DEFINE s == file[e]
               r == b[e]
    <3>1. s \in Seq(CodedBlocks(e)) /\ r \in Seq(CodedBlocks(e))
      BY DEF IsBuffer, IsFile
    <3> HIDE DEF s, r
    <3>2. Len(s \o Reverse(r)) = Len(s) + Len(r)
      BY <3>1, PushedFile
    <3> QED BY <3>2 DEF s, r
  <2>5. \A g \in Gens : file'[g] = IF g = e THEN file[e] \o Reverse(b[e]) ELSE file[g]
    BY <2>1 DEF IsFile
  <2>6. InFile(file') = [InFile(file) EXCEPT ![e] = @ + held[e]]
    BY <2>4, <2>5 DEF InFile
  <2> QED BY <1>1, <1>3, <2>3, <2>6 DEF Counts!Place, InFile
<1> QED BY <1>2, <1>3 DEF FlushBuf

LEMMA CountsStore ==
    ASSUME IInv, NEW g \in Gens, NEW coeffs \in Incoming(g), Stores(g, coeffs),
           work_mutex = "free", UNCHANGED <<identity, work_mutex>>
    PROVE  Counts!Store(g)
<1> DEFINE block == Arriving(g, coeffs)
           b == Stored(buf, g, block)
<1>1. block \in CodedBlocks(g)
  BY DEF CodedBlocks
<1>2. IsBuffer(buf) /\ IsFile(file)
  BY BufferOfInv
<1>3. ASSUME NEW h \in Gens
      PROVE  /\ Len(buf[h]) \in Nat /\ rank_vec[h] \in Nat /\ rank_vec_in_buf[h] = Len(buf[h])
             /\ rank_vec_in_buf[h] <= rank_vec[h] /\ rank_vec[h] <= num_blocks_gen[h]
             /\ num_blocks_gen[h] \in Nat /\ num_blocks_gen[h] <= per_gen
  BY <1>2, LayoutFacts, LenProperties DEF IInv, TypeOK, Accounting, IsBuffer
<1> PICK held : held = [rank_vec_in_buf EXCEPT ![g] = @ + 1]
  OBVIOUS
<1>4. Len(buf[g]) < per_gen
  BY <1>3, LayoutFacts DEF Stores
<1>5. FlushBuf(b, held)
  BY DEF Stored, Stores
<1> HIDE DEF block, b
<1>6. /\ IsBuffer(b)
      /\ Len(b[g]) = Len(buf[g]) + 1
      /\ \A h \in Gens \ {g} : b[h] = buf[h]
  BY <1>1, <1>2, <1>4, AppendSlot DEF b
<1>7. /\ held \in [Gens -> Nat] /\ held[g] = rank_vec_in_buf[g] + 1
      /\ \A h \in Gens \ {g} : held[h] = rank_vec_in_buf[h]
  BY DEF IInv, TypeOK
<1>8. \A h \in Gens : held[h] = Len(b[h])
  BY <1>3, <1>6, <1>7
<1>9. Counts!Place(held)
  BY <1>2, <1>5, <1>6, <1>7, <1>8, CountsPlace
<1> QED BY <1>9 DEF Counts!Store, Counts!Place, Stores

\* The numbers say when the file can be decoded and what a request finds.
LEMMA CountsReEncode ==
    ASSUME IInv, NEW g \in Gens, ReEncode(g)
    PROVE  [Counts!Next]_Counts!vars
<1>1. /\ work_mutex = "free" /\ identity = CT_CLIENT /\ UNCHANGED <<identity, memory, disk>>
      /\ identity # CT_SERVER
  BY DEF ReEncode, CT_CLIENT, CT_SERVER
<1>2. Len(TempBuf(g)) = rank_vec[g] /\ rank_vec[g] \in Nat
  BY <1>1, TempBufLength DEF IInv, TypeOK
<1>3. UNCHANGED <<rank_vec, rank_vec_in_buf, file, [h \in Gens |-> Len(file[h])]>>
  BY <1>1 DEF memory, disk
<1>4. CASE ~CanReEncode(TempBuf(g)) /\ work_mutex' = "held"
  <2>1. rank_vec[g] = 0
    BY <1>2, <1>4 DEF CanReEncode
  <2>2. Counts!Refuse(g)
    BY <1>1, <1>3, <1>4, <2>1 DEF Counts!Refuse
  <2> QED BY <2>2 DEF Counts!Next
<1>5. CASE UNCHANGED work_mutex
  BY <1>1, <1>3, <1>5 DEF Counts!vars
<1> QED BY <1>4, <1>5 DEF ReEncode

LEMMA CountsDecode ==
    ASSUME IInv, DecodeHasAllBlocks, Decode
    PROVE  [Counts!Next]_Counts!vars
<1>1. work_mutex = "free" /\ CT_CLIENT # CT_SERVER /\ identity \in {CT_CLIENT, CT_SERVER}
  BY DEF Decode, IInv, TypeOK, CT_CLIENT, CT_SERVER
<1>2. CASE identity # CT_CLIENT /\ work_mutex' = "held" /\ UNCHANGED <<identity, memory, disk>>
  <2>1. UNCHANGED <<rank_vec, rank_vec_in_buf, [g \in Gens |-> Len(file[g])]>>
    BY <1>2 DEF memory, disk
  <2>2. Counts!DecodeAgain
    BY <1>1, <1>2, <2>1 DEF Counts!DecodeAgain
  <2> QED BY <2>2 DEF Counts!Next
<1>3. CASE /\ identity = CT_CLIENT /\ identity' = CT_SERVER
           /\ CleanBuffer /\ CleanTempFiles
           /\ UNCHANGED <<work_mutex, rank_vec>>
  <2>1. ASSUME NEW g \in Gens PROVE rank_vec[g] = num_blocks_gen[g]
    <3>1. Len(TempBuf(g)) = rank_vec[g]
      BY <1>3, TempBufLength
    <3>2. Len(TempBuf(g)) = num_blocks_gen[g]
      BY <1>3 DEF DecodeHasAllBlocks, Decode
    <3> QED BY <3>1, <3>2
  <2>2. InFile(file') \in {InFile(file), [g \in Gens |-> 0]}
    <3>1. CASE UNCHANGED file
      BY <3>1
    <3>2. CASE file' = [g \in Gens |-> <<>>]
      <4>1. Len(<<>>) = 0
        BY EmptySeq
      <4> QED BY <3>2, <4>1 DEF InFile
    <3> QED BY <1>3, <3>1, <3>2 DEF CleanTempFiles
  <2>3. Counts!Decode
    BY <1>1, <1>3, <2>1, <2>2 DEF Counts!Decode, Counts!Full, Counts!None, InFile, CleanBuffer
  <2> QED BY <2>3 DEF Counts!Next
<1> QED BY <1>2, <1>3 DEF Decode

LEMMA CountsNext == IInv /\ DecodeHasAllBlocks /\ [Next]_vars => [Counts!Next]_Counts!vars
<1> SUFFICES ASSUME IInv, DecodeHasAllBlocks, [Next]_vars PROVE [Counts!Next]_Counts!vars
  OBVIOUS
<1>1. ASSUME NEW g \in Gens, NEW coeffs \in Incoming(g), StoreBlock(g, coeffs)
      PROVE  [Counts!Next]_Counts!vars
  <2>1. CASE UNCHANGED <<memory, file>>
    BY <1>1, <2>1 DEF StoreBlock, memory, Counts!vars
  <2>2. CASE Stores(g, coeffs)
    <3>1. Counts!Store(g)
      BY <1>1, <2>2, CountsStore DEF StoreBlock
    <3> QED BY <3>1 DEF Counts!Next
  <2> QED BY <1>1, <2>1, <2>2 DEF StoreBlock, IsHelpful, Stores
<1>2. ASSUME NEW g \in Gens, ReEncode(g) PROVE [Counts!Next]_Counts!vars
  BY <1>2, CountsReEncode
<1>3. CASE Decode
  BY <1>3, CountsDecode
<1>4. CASE Restart
  <2>1. Counts!Restart
    BY <1>4 DEF Restart, NoRank, Counts!Restart, Counts!None, CT_CLIENT, CT_SERVER
  <2> QED BY <2>1 DEF Counts!Next
<1>5. CASE UNCHANGED vars
  BY <1>5 DEF vars, memory, disk, Counts!vars
<1> QED BY <1>1, <1>2, <1>3, <1>4, <1>5 DEF Next

\* What the store does to its lock, its buffer and its temp files depends on
\* numbers of blocks alone, whatever the blocks are: the store of module Node, for
\* every file, field and set of arriving blocks (codetorrent.cpp:635-744, 904-941).
THEOREM StoreImplementsCounters == Spec => ImplementsCounters
<1>1. IInv /\ DecodeHasAllBlocks /\ [Next]_vars => [Counts!Next]_Counts!vars
  BY CountsNext
<1> QED BY <1>1, CountsInit, Invariance, DecodeSupplied,
           PTL DEF Spec, ImplementsCounters, Counts!Spec
=============================================================================

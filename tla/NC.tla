-------------------------------- MODULE NC --------------------------------
(***************************************************************************)
(* The network coding module: encoding, re-encoding, the helpfulness test  *)
(* and decoding of one generation of n blocks.                             *)
(*                                                                         *)
(* Every loop over a block's bytes does the same to each byte, so a block  *)
(* carries one symbol of payload: a source block is a Symbol, data a       *)
(* vector of n Symbols, a coded block a record of n coefficients and one   *)
(* sum.  Vectors and matrices are indexed from 0, as in the code.          *)
(***************************************************************************)
EXTENDS Integers, Sequences

CONSTANTS
    Symbol,                                    \* the field, with the operations
    Add(_, _), Sub(_, _), Mul(_, _), Div(_, _) \* of module Galois

\* What module Galois builds: a field, Sub and Div undoing Add and Mul.
ASSUME FieldAssumption ==
    /\ {0, 1} \subseteq Symbol
    /\ \A x, y \in Symbol :
        /\ {Add(x, y), Sub(x, y), Mul(x, y), Div(x, y)} \subseteq Symbol
        /\ Add(x, y) = Add(y, x) /\ Mul(x, y) = Mul(y, x)
        /\ Add(x, 0) = x /\ Mul(x, 1) = x
        /\ Add(Sub(x, y), y) = x
        /\ y # 0 => Mul(Div(x, y), y) = x
        /\ \A z \in Symbol :
            /\ Add(Add(x, y), z) = Add(x, Add(y, z))
            /\ Mul(Mul(x, y), z) = Mul(x, Mul(y, z))
            /\ Mul(x, Add(y, z)) = Add(Mul(x, y), Mul(x, z))

NonZero == Symbol \ {0}

Index(n) == 0..n - 1
Vector(n) == [Index(n) -> Symbol]
ZeroVector(n) == [i \in Index(n) |-> 0]
ZeroMatrix(n) == [i \in Index(n) |-> ZeroVector(n)]

\* The loop  acc = Add(Mul(x[i], y[i]), acc)  over i < n.
Dot(x, y, n) ==
    LET acc[i \in 0..n] == IF i = 0 THEN 0 ELSE Add(Mul(x[i - 1], y[i - 1]), acc[i - 1])
    IN  acc[n]

\* A coded block as one vector, the payload after the coefficients.
Augmented(block, n) == [k \in 0..n |-> IF k < n THEN block.coeffs[k] ELSE block.sums]

-----------------------------------------------------------------------------
\* EncodeBlock, for the coefficients the random draw gave.  The draw repeats
\* while it yields 0, so each is in NonZero.
EncodeBlock(data, coeffs, n) == [coeffs |-> coeffs, sums |-> Dot(data, coeffs, n)]

\* ReEncodeBlock: the combination of the buffered blocks with the weights rand
\* (a sequence over NonZero as long as the buffer).  It fails on an empty one.
\* (Mutant: off by one.)
CanReEncode_MoreThanOne(buffer) == Len(buffer) > 1
CanReEncode(buffer) == Len(buffer) > 0

\* Mutant: the weights are not applied to the payload.
ReEncodeBlock_PlainSums(buffer, rand, n) ==
    LET column(k, weight(_)) ==
            LET acc[i \in 0..Len(buffer)] ==
                    IF i = 0 THEN 0
                    ELSE Add(Mul(Augmented(buffer[i], n)[k], weight(i)), acc[i - 1])
            IN  acc[Len(buffer)]
    IN  [coeffs |-> [k \in Index(n) |-> column(k, LAMBDA i : rand[i])],
         sums |-> column(n, LAMBDA i : 1)]

ReEncodeBlock(buffer, rand, n) ==
    LET column(k) ==
            LET acc[i \in 0..Len(buffer)] ==
                    IF i = 0 THEN 0
                    ELSE Add(Mul(Augmented(buffer[i], n)[k], rand[i]), acc[i - 1])
            IN  acc[Len(buffer)]
    IN  [coeffs |-> [k \in Index(n) |-> column(k)], sums |-> column(n)]

-----------------------------------------------------------------------------
(* Row elimination, shared by IsHelpful (rows of n entries) and            *)
(* IncrementalDecode (rows of n + 1, the payload last).                    *)

\* Clear entry i of vec with row i of m.  The code runs k downwards so that
\* vec[i] keeps its value until it is cleared itself.
\* (Mutant: as if each row started with 1.)
ClearEntry_NoDiv(m, vec, i) ==
    [k \in DOMAIN vec |-> IF k < i THEN vec[k] ELSE Sub(vec[k], Mul(vec[i], m[i][k]))]

ClearEntry(m, vec, i) ==
    [k \in DOMAIN vec |->
        IF k < i THEN vec[k] ELSE Sub(vec[k], Div(Mul(vec[i], m[i][k]), m[i][i]))]

\* vec as the loop finds it on entering round i, no column found before.
Eliminated(m, vec, n) ==
    LET round[i \in 0..n] ==
            IF i = 0 THEN vec
            ELSE LET v == round[i - 1]
                 IN  IF m[i - 1][i - 1] # 0 /\ v[i - 1] # 0 THEN ClearEntry(m, v, i - 1) ELSE v
    IN  round

\* "found a column!": rounds with a nonzero entry that no row can clear.
\* (Mutant: the loop ends one column early.)
FoundColumns_NotLast(m, vec, n) ==
    {i \in 0..n - 2 : m[i][i] = 0 /\ Eliminated(m, vec, n)[i][i] # 0}

FoundColumns(m, vec, n) ==
    {i \in Index(n) : m[i][i] = 0 /\ Eliminated(m, vec, n)[i][i] # 0}

Innovative(m, vec, n) == FoundColumns(m, vec, n) # {}

\* The matrix after the innovative vec is put into its row.
\* (Mutant: vec as it arrived.)
InsertRow_Unreduced(m, vec, n) ==
    LET first == CHOOSE i \in FoundColumns(m, vec, n) :
                    \A k \in FoundColumns(m, vec, n) : i <= k
    IN  [m EXCEPT ![first] = vec]

InsertRow(m, vec, n) ==
    LET first == CHOOSE i \in FoundColumns(m, vec, n) :
                    \A k \in FoundColumns(m, vec, n) : i <= k
    IN  [m EXCEPT ![first] = Eliminated(m, vec, n)[first]]

\* IsHelpful's answer; when it is TRUE, m_helpful becomes InsertRow.
IsHelpful(rank, m, coeffs, n) == rank # n /\ Innovative(m, coeffs, n)

-----------------------------------------------------------------------------
\* IncrementalDecode for the first n blocks of the buffer, in order.
UpperMatrix(buffer, n) ==
    LET upper[j \in 0..n] ==
            IF j = 0 THEN [i \in Index(n) |-> [k \in 0..n |-> 0]]
            ELSE LET vec == Augmented(buffer[j], n)
                 IN  IF Innovative(upper[j - 1], vec, n)
                     THEN InsertRow(upper[j - 1], vec, n)
                     ELSE upper[j - 1]
    IN  upper[n]

\* BackSubstitution: from the last row to the first.
\* (Mutant: the result is not divided by the pivot.)
BackSubstitution_NoDiv(upper, n) ==
    LET solved[i \in 0..n] ==
            IF i = 0 THEN ZeroVector(n)
            ELSE LET row == n - i
                     tmp[k \in row + 1..n] ==
                        IF k = n THEN 0
                        ELSE Add(tmp[k + 1], Mul(upper[row][k], solved[i - 1][k]))
                 IN  [solved[i - 1] EXCEPT ![row] = Sub(upper[row][n], tmp[row + 1])]
    IN  solved[n]

BackSubstitution(upper, n) ==
    LET solved[i \in 0..n] ==   \* rows n-i .. n-1 are solved
            IF i = 0 THEN ZeroVector(n)
            ELSE LET row == n - i
                     tmp[k \in row + 1..n] ==
                        IF k = n THEN 0
                        ELSE Add(tmp[k + 1], Mul(upper[row][k], solved[i - 1][k]))
                 IN  [solved[i - 1] EXCEPT ![row] =
                        Div(Sub(upper[row][n], tmp[row + 1]), upper[row][row])]
    IN  solved[n]

\* NC::Decode for one generation.  BackSubstitution refuses a buffer that does
\* not hold exactly n blocks and leaves m_gdata, zeroed at start, alone.
DecodeBuffer(buffer, n) ==
    IF Len(buffer) = n THEN BackSubstitution(UpperMatrix(buffer, n), n) ELSE ZeroVector(n)

-----------------------------------------------------------------------------
(* Reference notions the code does not compute, for the properties.        *)

\* Scalar multiples and sums, and the subspace spanned by a set of vectors.
Scale(a, x, n) == [k \in Index(n) |-> Mul(a, x[k])]
Plus(x, y, n) == [k \in Index(n) |-> Add(x[k], y[k])]

Extend(space, v, n) ==
    {Plus(x, Scale(a, v, n), n) : x \in space, a \in Symbol}

SpanSeq(vectors, n) ==
    LET span[i \in 0..Len(vectors)] ==
            IF i = 0 THEN {ZeroVector(n)} ELSE Extend(span[i - 1], vectors[i], n)
    IN  span[Len(vectors)]

\* No vector of the sequence is a combination of those before it.
Independent(vectors, n) ==
    \A i \in 1..Len(vectors) : vectors[i] \notin SpanSeq(SubSeq(vectors, 1, i - 1), n)

\* What the rows of a matrix span.
RowSpace(m, n) == SpanSeq([i \in 1..n |-> m[i - 1]], n)

\* The block carries the combination of data that its coefficients announce.
Consistent(block, data, n) == block.sums = Dot(data, block.coeffs, n)
=============================================================================

------------------------------- MODULE Galois -------------------------------
(***************************************************************************)
(* Galois::Init fills the logarithm tables step by step; Mul and Div read  *)
(* them.  (NC::Init fills a second pair with the same loop.)  The check is *)
(* exhaustive over all pairs of the code's GF(256).                        *)
(***************************************************************************)
EXTENDS Naturals, Bitwise

CONSTANTS GF, PP    \* field order and primitive polynomial: GF8, PP8

ASSUME FieldAssumption == GF \in Nat \ {0, 1} /\ PP \in GF..2 * GF - 1

VARIABLES
    Log, ALog,   \* the two tables
    b, j,        \* Init's locals: the running power of 2 and its exponent
    pc           \* which of Init's loops runs: "fill", "double", "done"

vars == <<Log, ALog, b, j, pc>>

Symbol == 0..GF - 1

-----------------------------------------------------------------------------
Add(x, y) == x ^^ y
Sub(x, y) == x ^^ y

MulIndex(x, y) == Log[x] + Log[y]
DivIndex_TooLarge(x, y) == Log[x] - Log[y] + GF      \* mutant
DivIndex(x, y) == Log[x] - Log[y] + GF - 1

Mul_NoZeroTest(x, y) == ALog[MulIndex(x, y)]   \* mutant
Mul(x, y) == IF x = 0 \/ y = 0 THEN 0 ELSE ALog[MulIndex(x, y)]
Div(x, y) == IF x = 0 \/ y = 0 THEN 0 ELSE ALog[DivIndex(x, y)]

-----------------------------------------------------------------------------
\* b * 2, reduced by PP when the bit GF is set (b & GF).
\* (Mutant: the polynomial of AES, for which 2 is no generator.)
Doubled_AES(x) == IF 2 * x >= GF THEN ((2 * x) ^^ 283) % GF ELSE 2 * x
Doubled(x) == IF 2 * x >= GF THEN ((2 * x) ^^ PP) % GF ELSE 2 * x

\* The first loop of Init; ALog's upper half is not initialised by it, and 0
\* stands for what was there.
Init ==
    /\ Log = [x \in Symbol |-> GF - 1]
    /\ ALog = [x \in 0..2 * GF - 1 |-> 0]
    /\ b = 1 /\ j = 0 /\ pc = "fill"

FillLogs ==
    /\ pc = "fill" /\ j < GF - 1
    /\ Log' = [Log EXCEPT ![b] = j]
    /\ ALog' = [ALog EXCEPT ![j] = b]
    /\ b' = Doubled(b)
    /\ j' = j + 1
    /\ UNCHANGED pc

EndFill ==
    /\ pc = "fill" /\ j = GF - 1
    /\ pc' = "double"
    /\ UNCHANGED <<Log, ALog, b, j>>

\* The upper half of ALog repeats the lower, so that Mul needs no modulus.
RepeatALog ==
    /\ pc = "double" /\ j <= (GF - 1) * 2 - 2
    /\ ALog' = [ALog EXCEPT ![j] = ALog[j % (GF - 1)]]
    /\ j' = j + 1
    /\ UNCHANGED <<Log, b, pc>>

\* ALog[(GF-1)*2-1] = ALog[254]: the index is written for GF = 256.
EndInit ==
    /\ pc = "double" /\ j > (GF - 1) * 2 - 2
    /\ ALog' = [ALog EXCEPT ![(GF - 1) * 2 - 1] = ALog[GF - 2]]
    /\ pc' = "done"
    /\ UNCHANGED <<Log, b, j>>

Done == pc = "done" /\ UNCHANGED vars

Next == FillLogs \/ EndFill \/ RepeatALog \/ EndInit \/ Done

Spec == Init /\ [][Next]_vars

-----------------------------------------------------------------------------
\* Init writes inside its tables, and Mul and Div never read the last two of
\* ALog's 2*GF entries, which it leaves unset, nor beyond them: no index has a
\* test or modulus to protect it (galois.cpp:42-62; galois.h:71-72, 79-80).
IndicesInTable ==
    /\ b \in Symbol \ {0} /\ j \in 0..2 * GF - 3
    /\ pc = "done" => \A x, y \in Symbol \ {0} :
            {MulIndex(x, y), DivIndex(x, y)} \subseteq 0..2 * GF - 3

\* Mul is multiplication of polynomials modulo PP, by its recurrence on the
\* second factor: times 1, times 2y, times an odd number.
MulIsPolynomialProduct ==
    pc = "done" => \A x \in Symbol :
        /\ Mul(x, 0) = 0 /\ Mul(x, 1) = x
        /\ \A y \in 1..(GF \div 2) - 1 :
            /\ Mul(x, 2 * y) = Doubled(Mul(x, y))
            /\ Mul(x, 2 * y + 1) = Add(Mul(x, 2 * y), x)

\* What NC asks of a field (its FieldAssumption), for every pair of symbols.  The
\* laws of three are checked with the powers of 2 for the third: sums of those
\* are all symbols, and products of 2 with itself all but 0.
FieldLaws ==
    pc = "done" =>
        \A x, y \in Symbol :
            /\ {Add(x, y), Sub(x, y), Mul(x, y), Div(x, y)} \subseteq Symbol
            /\ Add(x, y) = Add(y, x) /\ Mul(x, y) = Mul(y, x)
            /\ Add(x, 0) = x /\ Mul(x, 1) = x
            /\ Add(Sub(x, y), y) = x
            /\ y # 0 => Mul(Div(x, y), y) = x
            /\ \A z \in Symbol \cap {2^k : k \in 0..7} :
                /\ Add(Add(x, y), z) = Add(x, Add(y, z))
                /\ Mul(Mul(x, y), z) = Mul(x, Mul(y, z))
                /\ Mul(x, Add(y, z)) = Add(Mul(x, y), Mul(x, z))
=============================================================================

------------------------------ MODULE NCProofs ------------------------------
(***************************************************************************)
(* Network coding over any field and for generations of any size: what row *)
(* elimination decides, what re-encoding preserves, and that decoding      *)
(* gives back what was encoded.                                            *)
(*                                                                         *)
(* The argument is about subspaces.  A row operation adds a multiple of a  *)
(* row, so it leaves a subspace that holds the rows neither way; and the   *)
(* vectors that elimination clears to nothing form such a subspace         *)
(* themselves, as elimination is linear.                                   *)
(***************************************************************************)
EXTENDS NC, LayoutProofs, FiniteSetTheorems, SequenceTheorems

-----------------------------------------------------------------------------
(* The field.                                                              *)

\* The negative of 1: to subtract is to add this multiple.
Minus == Sub(0, 1)

LEMMA Laws ==
    /\ 0 \in Symbol /\ 1 \in Symbol /\ Minus \in Symbol
    /\ \A x, y \in Symbol :
        /\ Add(x, y) \in Symbol /\ Sub(x, y) \in Symbol
        /\ Mul(x, y) \in Symbol /\ Div(x, y) \in Symbol
        /\ Add(x, y) = Add(y, x) /\ Mul(x, y) = Mul(y, x)
    /\ \A x \in Symbol : Add(x, 0) = x /\ Mul(x, 1) = x
    /\ \A x, y \in Symbol : Add(Sub(x, y), y) = x
    /\ \A x, y \in Symbol : y # 0 => Mul(Div(x, y), y) = x
  BY FieldAssumption, Zenon DEF Minus

LEMMA AddAssoc ==
    ASSUME NEW x \in Symbol, NEW y \in Symbol, NEW z \in Symbol
    PROVE  Add(Add(x, y), z) = Add(x, Add(y, z))
  BY FieldAssumption

LEMMA MulAssoc ==
    ASSUME NEW x \in Symbol, NEW y \in Symbol, NEW z \in Symbol
    PROVE  Mul(Mul(x, y), z) = Mul(x, Mul(y, z))
  BY FieldAssumption

LEMMA Distribute ==
    ASSUME NEW x \in Symbol, NEW y \in Symbol, NEW z \in Symbol
    PROVE  /\ Mul(x, Add(y, z)) = Add(Mul(x, y), Mul(x, z))
           /\ Mul(Add(y, z), x) = Add(Mul(y, x), Mul(z, x))
<1>1. Mul(x, Add(y, z)) = Add(Mul(x, y), Mul(x, z))
  BY FieldAssumption
<1>2. /\ Mul(Add(y, z), x) = Mul(x, Add(y, z))
      /\ Mul(y, x) = Mul(x, y) /\ Mul(z, x) = Mul(x, z)
  BY Laws
<1> QED BY <1>1, <1>2

LEMMA Cancel ==
    ASSUME NEW x \in Symbol, NEW y \in Symbol, NEW z \in Symbol, Add(x, z) = Add(y, z)
    PROVE  x = y
<1> DEFINE w == Sub(0, z)
<1>1. w \in Symbol /\ Add(w, z) = 0
  BY Laws
<1>2. Add(z, w) = 0
  BY <1>1, Laws
<1> HIDE DEF w
<1>3. Add(Add(x, z), w) = x /\ Add(Add(y, z), w) = y
  BY <1>1, <1>2, AddAssoc, Laws
<1> QED BY <1>3

LEMMA Zeros ==
    ASSUME NEW x \in Symbol
    PROVE  Add(0, x) = x /\ Mul(x, 0) = 0 /\ Mul(0, x) = 0 /\ Mul(1, x) = x
<1>1. Add(0, x) = x /\ Mul(1, x) = x
  BY Laws
<1>2. Mul(x, 0) = 0
  <2>1. Mul(x, Add(0, 0)) = Add(Mul(x, 0), Mul(x, 0))
    BY Laws, Distribute
  <2>2. Add(0, 0) = 0 /\ Mul(x, 0) \in Symbol /\ Add(0, Mul(x, 0)) = Mul(x, 0)
    BY Laws
  <2>3. Add(Mul(x, 0), Mul(x, 0)) = Add(0, Mul(x, 0))
    BY <2>1, <2>2
  <2> QED BY <2>2, <2>3, Laws, Cancel
<1> QED BY <1>1, <1>2, Laws

LEMMA AddMinus ==
    ASSUME NEW x \in Symbol
    PROVE  Mul(Minus, x) \in Symbol /\ Add(x, Mul(Minus, x)) = 0 /\ Add(Mul(Minus, x), x) = 0
<1>1. Minus \in Symbol /\ Add(Minus, 1) = 0
  BY Laws DEF Minus
<1>2. Mul(Add(Minus, 1), x) = Add(Mul(Minus, x), Mul(1, x))
  BY <1>1, Laws, Distribute
<1>3. Mul(0, x) = 0 /\ Mul(1, x) = x
  BY Zeros
<1>4. Mul(Minus, x) \in Symbol
  BY <1>1, Laws
<1> QED BY <1>1, <1>2, <1>3, <1>4, Laws

LEMMA SubIs ==
    ASSUME NEW x \in Symbol, NEW y \in Symbol
    PROVE  Sub(x, y) = Add(x, Mul(Minus, y))
<1>1. Mul(Minus, y) \in Symbol /\ Add(Mul(Minus, y), y) = 0
  BY AddMinus
<1>2. Add(Add(x, Mul(Minus, y)), y) = x
  BY <1>1, AddAssoc, Laws
<1>3. Add(Sub(x, y), y) = x /\ Sub(x, y) \in Symbol /\ Add(x, Mul(Minus, y)) \in Symbol
  BY <1>1, Laws
<1> QED BY <1>1, <1>2, <1>3, Cancel

\* Division is multiplication by the reciprocal.
LEMMA DivIs ==
    ASSUME NEW x \in Symbol, NEW y \in Symbol, y # 0
    PROVE  /\ Div(1, y) \in Symbol /\ Mul(Div(1, y), y) = 1 /\ Mul(y, Div(1, y)) = 1
           /\ Div(x, y) = Mul(x, Div(1, y))
           /\ Div(Mul(x, y), y) = x
<1> DEFINE r == Div(1, y)
<1>1. r \in Symbol /\ Mul(r, y) = 1 /\ Mul(y, r) = 1
  BY Laws
<1> HIDE DEF r
<1>2. ASSUME NEW z \in Symbol
      PROVE  Mul(Mul(z, y), r) = z
  BY <1>1, MulAssoc, Laws
<1>3. ASSUME NEW z \in Symbol
      PROVE  Div(z, y) = Mul(z, r)
  <2>1. Div(z, y) \in Symbol /\ Mul(Div(z, y), y) = z
    BY Laws
  <2> QED BY <1>2, <2>1
<1>4. Mul(x, y) \in Symbol
  BY Laws
<1> QED BY <1>1, <1>2, <1>3, <1>4 DEF r

\* (x + a y) + (u + a w) b = (x + u b) + a (y + w b)
LEMMA Exchange ==
    ASSUME NEW x \in Symbol, NEW y \in Symbol, NEW u \in Symbol, NEW w \in Symbol,
           NEW a \in Symbol, NEW b \in Symbol
    PROVE  Add(Add(x, Mul(a, y)), Mul(Add(u, Mul(a, w)), b))
                = Add(Add(x, Mul(u, b)), Mul(a, Add(y, Mul(w, b))))
<1> DEFINE p == Mul(a, y)
           q == Mul(u, b)
           r == Mul(a, Mul(w, b))
<1>1. /\ p \in Symbol /\ q \in Symbol /\ r \in Symbol /\ Mul(w, b) \in Symbol
      /\ Mul(a, w) \in Symbol
  BY Laws
<1>2. Mul(Add(u, Mul(a, w)), b) = Add(q, r)
  BY <1>1, Distribute, MulAssoc
<1>3. Mul(a, Add(y, Mul(w, b))) = Add(p, r)
  BY <1>1, Distribute
<1>4. Add(Add(x, p), Add(q, r)) = Add(Add(x, q), Add(p, r))
  <2> HIDE DEF p, q, r
  <2>1. Add(Add(x, p), Add(q, r)) = Add(x, Add(p, Add(q, r)))
    BY <1>1, AddAssoc, Laws
  <2>2. Add(p, Add(q, r)) = Add(q, Add(p, r))
    <3>1. Add(Add(p, q), r) = Add(p, Add(q, r)) /\ Add(Add(q, p), r) = Add(q, Add(p, r))
      BY <1>1, AddAssoc
    <3>2. Add(p, q) = Add(q, p)
      BY <1>1, Laws
    <3> QED BY <3>1, <3>2
  <2>3. Add(x, Add(q, Add(p, r))) = Add(Add(x, q), Add(p, r))
    BY <1>1, AddAssoc, Laws
  <2> QED BY <2>1, <2>2, <2>3
<1> QED BY <1>2, <1>3, <1>4
-----------------------------------------------------------------------------
(* Vectors and subspaces.  Matrices of n rows come with rows of n entries  *)
(* and of n + 1, so a vector has its own dimension d.                      *)

\* x + a y
Comb(x, a, y, d) == [k \in Index(d) |-> Add(x[k], Mul(a, y[k]))]

IsSubspace(W, d) ==
    /\ W \in SUBSET Vector(d)
    /\ ZeroVector(d) \in W
    /\ \A x, y \in W : \A a \in Symbol : Comb(x, a, y, d) \in W

LEMMA CombEntries ==
    ASSUME NEW d, NEW x \in Vector(d), NEW y \in Vector(d), NEW a \in Symbol
    PROVE  /\ Comb(x, a, y, d) \in Vector(d)
           /\ \A k \in Index(d) : /\ x[k] \in Symbol /\ y[k] \in Symbol
                                  /\ Comb(x, a, y, d)[k] = Add(x[k], Mul(a, y[k]))
<1>1. \A k \in Index(d) : x[k] \in Symbol /\ y[k] \in Symbol
  BY DEF Vector
<1>2. \A k \in Index(d) : Add(x[k], Mul(a, y[k])) \in Symbol
  BY <1>1, Laws
<1> QED BY <1>1, <1>2 DEF Comb, Vector

LEMMA SameVector ==
    ASSUME NEW d, NEW x \in Vector(d), NEW y \in Vector(d), \A k \in Index(d) : x[k] = y[k]
    PROVE  x = y
  BY DEF Vector

LEMMA ZeroEntries ==
    ASSUME NEW d
    PROVE  ZeroVector(d) \in Vector(d) /\ \A k \in Index(d) : ZeroVector(d)[k] = 0
  BY Laws DEF ZeroVector, Vector

LEMMA CombZero ==
    ASSUME NEW d, NEW x \in Vector(d)
    PROVE  /\ \A y \in Vector(d) : Comb(x, 0, y, d) = x
           /\ \A a \in Symbol : Comb(x, a, ZeroVector(d), d) = x
           /\ Comb(ZeroVector(d), 1, x, d) = x
<1>1. ASSUME NEW y \in Vector(d)
      PROVE  Comb(x, 0, y, d) = x
  <2>1. /\ Comb(x, 0, y, d) \in Vector(d)
        /\ \A k \in Index(d) : /\ Comb(x, 0, y, d)[k] = Add(x[k], Mul(0, y[k]))
                               /\ x[k] \in Symbol /\ y[k] \in Symbol
    BY CombEntries, Laws
  <2>2. \A k \in Index(d) : Comb(x, 0, y, d)[k] = x[k]
    BY <2>1, Zeros, Laws
  <2> QED BY <2>1, <2>2, SameVector
<1>2. ASSUME NEW a \in Symbol
      PROVE  Comb(x, a, ZeroVector(d), d) = x
  <2>1. /\ Comb(x, a, ZeroVector(d), d) \in Vector(d)
        /\ \A k \in Index(d) : x[k] \in Symbol
    BY CombEntries, ZeroEntries
  <2>3. \A k \in Index(d) : Comb(x, a, ZeroVector(d), d)[k] = Add(x[k], Mul(a, 0))
    BY DEF Comb, ZeroVector
  <2>2. \A k \in Index(d) : Comb(x, a, ZeroVector(d), d)[k] = x[k]
    BY <2>1, <2>3, Zeros, Laws
  <2> QED BY <2>1, <2>2, SameVector
<1>3. Comb(ZeroVector(d), 1, x, d) = x
  <2>1. /\ Comb(ZeroVector(d), 1, x, d) \in Vector(d)
        /\ \A k \in Index(d) : x[k] \in Symbol
    BY CombEntries, ZeroEntries, Laws
  <2>3. \A k \in Index(d) : Comb(ZeroVector(d), 1, x, d)[k] = Add(0, Mul(1, x[k]))
    BY DEF Comb, ZeroVector
  <2>2. \A k \in Index(d) : Comb(ZeroVector(d), 1, x, d)[k] = x[k]
    BY <2>1, <2>3, Zeros
  <2> QED BY <2>1, <2>2, SameVector
<1> QED BY <1>1, <1>2, <1>3

\* What was added can be taken away again.
LEMMA CombUndone ==
    ASSUME NEW d, NEW x \in Vector(d), NEW y \in Vector(d), NEW a \in Symbol
    PROVE  /\ Mul(Minus, a) \in Symbol
           /\ Comb(Comb(x, a, y, d), Mul(Minus, a), y, d) = x
<1> DEFINE z == Comb(x, a, y, d)
           b == Mul(Minus, a)
<1>1. b \in Symbol /\ z \in Vector(d) /\ Minus \in Symbol
  BY CombEntries, Laws
<1>2. ASSUME NEW k \in Index(d)
      PROVE  Comb(z, b, y, d)[k] = x[k]
  <2>1. /\ Comb(z, b, y, d)[k] = Add(z[k], Mul(b, y[k]))
        /\ z[k] = Add(x[k], Mul(a, y[k]))
        /\ x[k] \in Symbol /\ y[k] \in Symbol
    BY <1>1, CombEntries
  <2>2. Mul(a, y[k]) \in Symbol /\ Mul(b, y[k]) = Mul(Minus, Mul(a, y[k]))
    <3> DEFINE yk == y[k]
    <3>1. yk \in Symbol
      BY <2>1
    <3> HIDE DEF yk
    <3>2. Mul(b, yk) = Mul(Minus, Mul(a, yk))
      BY <1>1, <3>1, MulAssoc
    <3> QED BY <3>1, <3>2, Laws DEF yk
  <2>3. /\ Add(Mul(a, y[k]), Mul(b, y[k])) = 0
        /\ Mul(b, y[k]) \in Symbol
    BY <2>2, AddMinus
  <2>4. Add(z[k], Mul(b, y[k])) = Add(x[k], 0)
    <3> DEFINE xk == x[k]
               p == Mul(a, y[k])
               q == Mul(b, y[k])
    <3>1. xk \in Symbol /\ p \in Symbol /\ q \in Symbol /\ Add(p, q) = 0 /\ z[k] = Add(xk, p)
      BY <2>1, <2>2, <2>3
    <3> HIDE DEF xk, p, q
    <3>2. Add(Add(xk, p), q) = Add(xk, 0)
      BY <3>1, AddAssoc
    <3> QED BY <3>1, <3>2 DEF xk, q
  <2> QED BY <2>1, <2>4, Laws
<1>3. Comb(z, b, y, d) \in Vector(d)
  BY <1>1, CombEntries
<1> QED BY <1>1, <1>2, <1>3, SameVector

\* And what was combined with a factor other than 0 can be found again.
LEMMA CombSolved ==
    ASSUME NEW d, NEW x \in Vector(d), NEW y \in Vector(d), NEW a \in Symbol, a # 0
    PROVE  /\ Div(1, a) \in Symbol
           /\ Comb(ZeroVector(d), Div(1, a), Comb(Comb(x, a, y, d), Minus, x, d), d) = y
<1> DEFINE z == Comb(x, a, y, d)
           u == Comb(z, Minus, x, d)
           r == Div(1, a)
           v == Comb(ZeroVector(d), r, u, d)
<1>1. /\ r \in Symbol /\ Minus \in Symbol /\ Mul(r, a) = 1
      /\ z \in Vector(d) /\ u \in Vector(d) /\ v \in Vector(d)
  BY CombEntries, ZeroEntries, DivIs, Laws
<1>2. ASSUME NEW k \in Index(d)
      PROVE  v[k] = y[k]
  <2>1. /\ z[k] = Add(x[k], Mul(a, y[k])) /\ u[k] = Add(z[k], Mul(Minus, x[k]))
        /\ v[k] = Add(0, Mul(r, u[k]))
        /\ x[k] \in Symbol /\ y[k] \in Symbol /\ u[k] \in Symbol
    <3>1. z[k] = Add(x[k], Mul(a, y[k])) /\ u[k] = Add(z[k], Mul(Minus, x[k]))
      BY DEF Comb
    <3>2. v[k] = Add(0, Mul(r, u[k]))
      <4> HIDE DEF u, r
      <4> QED BY DEF Comb, ZeroVector
    <3>3. x[k] \in Symbol /\ y[k] \in Symbol /\ u[k] \in Symbol
      <4> HIDE DEF u
      <4> QED BY <1>1 DEF Vector
    <3> QED BY <3>1, <3>2, <3>3
  <2> DEFINE p == Mul(a, y[k])
             q == Mul(Minus, x[k])
  <2>2. p \in Symbol /\ q \in Symbol /\ Add(x[k], q) = 0
    BY <2>1, AddMinus, Laws
  <2>3. u[k] = p
    <3>1. u[k] = Add(Add(x[k], p), q) /\ Add(x[k], p) = Add(p, x[k])
      BY <2>1, <2>2, Laws
    <3> HIDE DEF p, q
    <3>2. Add(Add(p, x[k]), q) = Add(p, Add(x[k], q))
      BY <2>1, <2>2, AddAssoc
    <3> QED BY <2>2, <3>1, <3>2, Laws
  <2>4. Mul(r, p) = Mul(Mul(r, a), y[k])
    BY <1>1, <2>1, MulAssoc
  <2>5. Mul(r, p) = y[k]
    BY <1>1, <2>1, <2>4, Zeros
  <2> HIDE DEF p, q, r, u, v, z
  <2> QED BY <2>1, <2>3, <2>5, Zeros
<1> HIDE DEF v
<1>3. v = y
  BY <1>1, <1>2, SameVector
<1> QED BY <1>1, <1>3 DEF v

LEMMA SubspaceVectors ==
    ASSUME NEW d, NEW W, IsSubspace(W, d), NEW x \in W
    PROVE  x \in Vector(d)
  BY DEF IsSubspace

LEMMA SubspaceComb ==
    ASSUME NEW d, NEW W, IsSubspace(W, d), NEW x \in Vector(d), NEW y \in W, NEW a \in Symbol
    PROVE  x \in W <=> Comb(x, a, y, d) \in W
<1>1. x \in W => Comb(x, a, y, d) \in W
  BY DEF IsSubspace
<1>2. ASSUME Comb(x, a, y, d) \in W
      PROVE  x \in W
  <2>1. /\ Mul(Minus, a) \in Symbol
        /\ Comb(Comb(x, a, y, d), Mul(Minus, a), y, d) = x
    BY CombUndone, SubspaceVectors
  <2>2. Comb(Comb(x, a, y, d), Mul(Minus, a), y, d) \in W
    BY <1>2, <2>1 DEF IsSubspace
  <2> QED BY <2>1, <2>2
<1> QED BY <1>1, <1>2

LEMMA SubspaceSolved ==
    ASSUME NEW d, NEW W, IsSubspace(W, d), NEW x \in W, NEW y \in Vector(d),
           NEW a \in Symbol, a # 0, Comb(x, a, y, d) \in W
    PROVE  y \in W
<1>1. /\ Div(1, a) \in Symbol
      /\ Comb(ZeroVector(d), Div(1, a), Comb(Comb(x, a, y, d), Minus, x, d), d) = y
  BY CombSolved, SubspaceVectors
<1>2. Comb(Comb(x, a, y, d), Minus, x, d) \in W
  BY Laws DEF IsSubspace
<1>3. Comb(ZeroVector(d), Div(1, a), Comb(Comb(x, a, y, d), Minus, x, d), d) \in W
  BY <1>1, <1>2 DEF IsSubspace
<1> QED BY <1>1, <1>3

LEMMA Intersection ==
    ASSUME NEW d, NEW V, IsSubspace(V, d), NEW W, IsSubspace(W, d)
    PROVE  IsSubspace(V \cap W, d)
  BY DEF IsSubspace

\* Extend adds one vector to a subspace.
LEMMA ExtendMember ==
    ASSUME NEW d, NEW W, NEW v, NEW x
    PROVE  x \in Extend(W, v, d) <=> \E w \in W : \E a \in Symbol : x = Comb(w, a, v, d)
<1>1. ASSUME NEW w, NEW a
      PROVE  Plus(w, Scale(a, v, d), d) = Comb(w, a, v, d)
  BY DEF Plus, Scale, Comb
<1>2. x \in Extend(W, v, d) <=> \E w \in W : \E a \in Symbol : x = Plus(w, Scale(a, v, d), d)
  BY DEF Extend
<1> QED BY <1>1, <1>2

LEMMA ExtendIs ==
    ASSUME NEW d, NEW W, IsSubspace(W, d), NEW v \in Vector(d)
    PROVE  /\ IsSubspace(Extend(W, v, d), d)
           /\ W \subseteq Extend(W, v, d)
           /\ v \in Extend(W, v, d)
           /\ \A V : IsSubspace(V, d) /\ W \subseteq V /\ v \in V => Extend(W, v, d) \subseteq V
<1> DEFINE U == Extend(W, v, d)
<1>1. W \subseteq U
  <2> SUFFICES ASSUME NEW w \in W PROVE w \in U
    OBVIOUS
  <2>1. w = Comb(w, 0, v, d)
    BY CombZero, SubspaceVectors
  <2> QED BY <2>1, ExtendMember, Laws
<1>2. v \in U
  <2>1. v = Comb(ZeroVector(d), 1, v, d)
    BY CombZero
  <2> QED BY <2>1, ExtendMember, Laws DEF IsSubspace
<1>3. U \in SUBSET Vector(d)
  BY ExtendMember, CombEntries, SubspaceVectors
<1>4. ASSUME NEW x \in U, NEW y \in U, NEW a \in Symbol
      PROVE  Comb(x, a, y, d) \in U
  <2>1. PICK w1 \in W : \E b \in Symbol : x = Comb(w1, b, v, d)
    BY ExtendMember
  <2>2. PICK b \in Symbol : x = Comb(w1, b, v, d)
    BY <2>1
  <2>3. PICK w2 \in W : \E c \in Symbol : y = Comb(w2, c, v, d)
    BY ExtendMember
  <2>4. PICK c \in Symbol : y = Comb(w2, c, v, d)
    BY <2>3
  <2> DEFINE w == Comb(w1, a, w2, d)
             e == Add(b, Mul(a, c))
  <2>5. /\ w \in W /\ w1 \in Vector(d) /\ w2 \in Vector(d) /\ w \in Vector(d)
        /\ x \in Vector(d) /\ y \in Vector(d)
    BY <1>3 DEF IsSubspace
  <2>6. e \in Symbol
    BY Laws
  <2>7. ASSUME NEW k \in Index(d)
        PROVE  Comb(x, a, y, d)[k] = Comb(w, e, v, d)[k]
    <3>1. /\ x \in Vector(d) /\ y \in Vector(d)
          /\ x[k] = Add(w1[k], Mul(b, v[k])) /\ y[k] = Add(w2[k], Mul(c, v[k]))
          /\ w[k] = Add(w1[k], Mul(a, w2[k]))
          /\ w1[k] \in Symbol /\ w2[k] \in Symbol /\ v[k] \in Symbol
      <4>1. /\ Comb(w1, b, v, d)[k] = Add(w1[k], Mul(b, v[k]))
            /\ w1[k] \in Symbol /\ v[k] \in Symbol
        BY <2>5, CombEntries
      <4>2. /\ Comb(w2, c, v, d)[k] = Add(w2[k], Mul(c, v[k]))
            /\ Comb(w1, a, w2, d)[k] = Add(w1[k], Mul(a, w2[k]))
            /\ w2[k] \in Symbol
        BY <2>5, CombEntries
      <4> QED BY <2>2, <2>4, <2>5, <4>1, <4>2
    <3>2. /\ Comb(x, a, y, d)[k] = Add(x[k], Mul(a, y[k]))
          /\ Comb(w, e, v, d)[k] = Add(w[k], Mul(e, v[k]))
      BY <2>5, <2>6, <3>1, CombEntries
    <3>3. Add(Add(w1[k], Mul(a, w2[k])), Mul(e, v[k]))
                = Add(Add(w1[k], Mul(b, v[k])), Mul(a, Add(w2[k], Mul(c, v[k]))))
      <4> DEFINE p == w1[k]
                 q == w2[k]
                 r == v[k]
      <4>1. p \in Symbol /\ q \in Symbol /\ r \in Symbol
        BY <3>1
      <4> HIDE DEF p, q, r
      <4>2. Add(Add(p, Mul(a, q)), Mul(e, r)) = Add(Add(p, Mul(b, r)), Mul(a, Add(q, Mul(c, r))))
        BY <4>1, Exchange
      <4> QED BY <4>2 DEF p, q, r
    <3> HIDE DEF w, e
    <3> QED BY <3>1, <3>2, <3>3
  <2>8. Comb(x, a, y, d) \in Vector(d) /\ Comb(w, e, v, d) \in Vector(d)
    BY <1>3, <2>5, <2>6, CombEntries
  <2> HIDE DEF w, e
  <2>9. Comb(x, a, y, d) = Comb(w, e, v, d)
    BY <2>7, <2>8, SameVector
  <2> QED BY <2>5, <2>6, <2>9, ExtendMember
<1>5. ASSUME NEW V, IsSubspace(V, d), W \subseteq V, v \in V
      PROVE  U \subseteq V
  BY <1>5, ExtendMember DEF IsSubspace
<1>6. ZeroVector(d) \in U
  BY <1>1 DEF IsSubspace
<1> HIDE DEF U
<1>7. IsSubspace(U, d)
  BY <1>3, <1>4, <1>6 DEF IsSubspace
<1> QED BY <1>1, <1>2, <1>5, <1>7 DEF U

\* A vector of S outside W stays outside when W gets a vector outside S.
LEMMA ExtendExcludes ==
    ASSUME NEW d, NEW S, IsSubspace(S, d), NEW W, IsSubspace(W, d), W \subseteq S,
           NEW t \in S, t \notin W, NEW v \in Vector(d), v \notin S
    PROVE  t \notin Extend(W, v, d)
<1> SUFFICES ASSUME t \in Extend(W, v, d) PROVE FALSE
  OBVIOUS
<1>1. PICK w \in W : \E a \in Symbol : t = Comb(w, a, v, d)
  BY ExtendMember
<1>2. PICK a \in Symbol : t = Comb(w, a, v, d)
  BY <1>1
<1>3. CASE a = 0
  BY <1>2, <1>3, CombZero, SubspaceVectors
<1>4. CASE a # 0
  <2>1. w \in S
    OBVIOUS
  <2> QED BY <1>2, <1>4, <2>1, SubspaceSolved
<1> QED BY <1>3, <1>4
-----------------------------------------------------------------------------
(* The span of a sequence, and independence.                               *)

Vectors(s, d) == Len(s) \in Nat /\ \A i \in 1..Len(s) : s[i] \in Vector(d)

\* The subspaces SpanSeq passes through.
Spans(s, d) ==
    CHOOSE span : span = [i \in 0..Len(s) |->
        IF i = 0 THEN {ZeroVector(d)} ELSE Extend(span[i - 1], s[i], d)]

LEMMA SpanSteps ==
    ASSUME NEW d, NEW s, Vectors(s, d)
    PROVE  /\ SpanSeq(s, d) = Spans(s, d)[Len(s)]
           /\ Spans(s, d)[0] = {ZeroVector(d)}
           /\ \A i \in 1..Len(s) : Spans(s, d)[i] = Extend(Spans(s, d)[i - 1], s[i], d)
<1> DEFINE S == SUBSET Vector(d)
           base == {ZeroVector(d)}
           step == [i \in 1..Len(s) |-> [W \in S |-> Extend(W, s[i], d)]]
<1>1. base \in S
  BY ZeroEntries
<1>2. step \in Steps(Len(s), S)
  <2> SUFFICES ASSUME NEW i \in 1..Len(s), NEW W \in S PROVE Extend(W, s[i], d) \in S
    BY DEF Steps
  <2>1. ASSUME NEW x \in Extend(W, s[i], d) PROVE x \in Vector(d)
    <3>1. PICK w \in W : \E a \in Symbol : x = Comb(w, a, s[i], d)
      BY ExtendMember
    <3> QED BY <3>1, CombEntries DEF Vectors
  <2> QED BY <2>1
<1>3. PICK f : Solves(f, Len(s), S, base, step)
  <2>1. Len(s) \in Nat
    BY DEF Vectors
  <2> HIDE DEF base, step, S
  <2> QED BY <1>1, <1>2, <2>1, Recursion
<1>4. f = [i \in 0..Len(s) |-> IF i = 0 THEN base ELSE Extend(f[i - 1], s[i], d)]
  <2>1. ASSUME NEW i \in 0..Len(s), i # 0
        PROVE  f[i] = Extend(f[i - 1], s[i], d)
    <3>1. i \in 1..Len(s) /\ i - 1 \in 0..Len(s)
      BY <2>1 DEF Vectors
    <3>2. f[i - 1] \in S /\ f[i] = step[i][f[i - 1]]
      BY <1>3, <3>1 DEF Solves
    <3> QED BY <3>1, <3>2
  <2> HIDE DEF base, step, S
  <2> QED BY <1>3, <2>1 DEF Solves
<1>5. Spans(s, d) = [i \in 0..Len(s) |->
            IF i = 0 THEN {ZeroVector(d)} ELSE Extend(Spans(s, d)[i - 1], s[i], d)]
  BY <1>4, Zenon DEF Spans
<1>6. 0 \in 0..Len(s) /\ \A i \in 1..Len(s) : i \in 0..Len(s) /\ i # 0
  BY DEF Vectors
<1>7. SpanSeq(s, d) = Spans(s, d)[Len(s)]
  BY DEF SpanSeq, Spans
<1> HIDE DEF base, step, S
<1> QED BY <1>5, <1>6, <1>7

\* SpanSeq is the least subspace that holds the vectors.
LEMMA SpanIs ==
    ASSUME NEW d, NEW s, Vectors(s, d)
    PROVE  /\ IsSubspace(SpanSeq(s, d), d)
           /\ \A i \in 1..Len(s) : s[i] \in SpanSeq(s, d)
           /\ \A V : IsSubspace(V, d) /\ (\A i \in 1..Len(s) : s[i] \in V) => SpanSeq(s, d) \subseteq V
<1> DEFINE f == Spans(s, d)
           Good(i) == /\ IsSubspace(f[i], d)
                      /\ \A j \in 1..Len(s) : j <= i => s[j] \in f[i]
                      /\ \A V : IsSubspace(V, d) /\ (\A j \in 1..Len(s) : s[j] \in V) => f[i] \subseteq V
           P == {i \in 0..Len(s) : Good(i)}
<1>1. f[0] = {ZeroVector(d)} /\ \A i \in 1..Len(s) : f[i] = Extend(f[i - 1], s[i], d)
  BY SpanSteps
<1> HIDE DEF f
<1>2. 0 \in P
  <2>1. IsSubspace(f[0], d)
    <3>1. \A a \in Symbol : Comb(ZeroVector(d), a, ZeroVector(d), d) = ZeroVector(d)
      BY CombZero, ZeroEntries
    <3> QED BY <1>1, <3>1, ZeroEntries DEF IsSubspace
  <2>2. \A j \in 1..Len(s) : ~(j <= 0)
    OBVIOUS
  <2>3. \A V : IsSubspace(V, d) => f[0] \subseteq V
    BY <1>1 DEF IsSubspace
  <2>4. 0 \in 0..Len(s)
    BY DEF Vectors
  <2> QED BY <2>1, <2>2, <2>3, <2>4
<1>3. ASSUME NEW i \in 0..Len(s) - 1, i \in P
      PROVE  i + 1 \in P
  <2>1. i + 1 \in 1..Len(s) /\ (i + 1) - 1 = i /\ i + 1 \in 0..Len(s)
    BY DEF Vectors
  <2>2. f[i + 1] = Extend(f[i], s[i + 1], d)
    BY <1>1, <2>1
  <2>3. Good(i)
    BY <1>3
  <2> HIDE DEF P
  <2>4. s[i + 1] \in Vector(d)
    BY <2>1 DEF Vectors
  <2>5. /\ IsSubspace(f[i + 1], d) /\ f[i] \subseteq f[i + 1] /\ s[i + 1] \in f[i + 1]
        /\ \A V : IsSubspace(V, d) /\ f[i] \subseteq V /\ s[i + 1] \in V => f[i + 1] \subseteq V
    BY <2>2, <2>3, <2>4, ExtendIs
  <2>6. \A j \in 1..Len(s) : j <= i + 1 => s[j] \in f[i + 1]
    <3>1. \A j \in 1..Len(s) : j <= i + 1 => j <= i \/ j = i + 1
      OBVIOUS
    <3> QED BY <2>3, <2>5, <3>1
  <2>7. \A V : IsSubspace(V, d) /\ (\A j \in 1..Len(s) : s[j] \in V) => f[i + 1] \subseteq V
    BY <2>1, <2>3, <2>5
  <2> QED BY <2>1, <2>5, <2>6, <2>7 DEF P
<1>4. 0..Len(s) \subseteq P
  <2> HIDE DEF P
  <2> QED BY <1>2, <1>3, Induction DEF Vectors
<1>5. Good(Len(s))
  <2>1. Len(s) \in 0..Len(s)
    BY DEF Vectors
  <2> QED BY <1>4, <2>1
<1>6. SpanSeq(s, d) = f[Len(s)]
  BY SpanSteps DEF f
<1>7. \A j \in 1..Len(s) : j <= Len(s)
  BY DEF Vectors
<1> QED BY <1>5, <1>6, <1>7

\* Each vector of T is outside a subspace with all the others.
Free(T, d) == \A t \in T : \E W : IsSubspace(W, d) /\ t \notin W /\ T \ {t} \subseteq W

\* A vector outside a subspace that holds T leaves T free.
LEMMA FreeAdd ==
    ASSUME NEW d, NEW S, IsSubspace(S, d), NEW T, T \subseteq S, Free(T, d),
           NEW v \in Vector(d), v \notin S
    PROVE  Free(T \cup {v}, d)
<1>1. ASSUME NEW t \in T
      PROVE  \E W : IsSubspace(W, d) /\ t \notin W /\ (T \cup {v}) \ {t} \subseteq W
  <2>1. PICK W : IsSubspace(W, d) /\ t \notin W /\ T \ {t} \subseteq W
    BY DEF Free
  <2> DEFINE U == W \cap S
             X == Extend(U, v, d)
  <2>2. IsSubspace(U, d) /\ U \subseteq S /\ t \notin U /\ t \in S
    BY <2>1, Intersection
  <2> HIDE DEF U
  <2>3. t \notin X
    BY <2>2, ExtendExcludes
  <2>4. IsSubspace(X, d) /\ U \subseteq X /\ v \in X
    BY <2>2, ExtendIs
  <2> HIDE DEF X
  <2>5. T \ {t} \subseteq U
    BY <2>1 DEF U
  <2> QED BY <2>3, <2>4, <2>5
<1>2. \E W : IsSubspace(W, d) /\ v \notin W /\ (T \cup {v}) \ {v} \subseteq W
  OBVIOUS
<1> QED BY <1>1, <1>2 DEF Free

\* The vectors of a free set, each once and in any order, are independent.
LEMMA FreeIndependent ==
    ASSUME NEW d, NEW T, Free(T, d), NEW s \in Seq(T), T \subseteq Vector(d),
           \A i, j \in 1..Len(s) : s[i] = s[j] => i = j
    PROVE  Independent(s, d)
<1> SUFFICES ASSUME NEW i \in 1..Len(s)
             PROVE  s[i] \notin SpanSeq(SubSeq(s, 1, i - 1), d)
  BY DEF Independent
<1>1. Len(s) \in Nat /\ \A j \in 1..Len(s) : s[j] \in T
  BY LenProperties, ElementOfSeq
<1>2. PICK W : IsSubspace(W, d) /\ s[i] \notin W /\ T \ {s[i]} \subseteq W
  BY <1>1 DEF Free
<1> DEFINE p == SubSeq(s, 1, i - 1)
<1>3. /\ Len(p) \in Nat /\ Len(p) = i - 1
      /\ \A j \in 1..i - 1 : p[j] = s[j] /\ s[j] \in T /\ s[j] # s[i]
  <2>1. \A j \in 1..i - 1 : j \in 1..Len(s) /\ j # i
    BY <1>1
  <2>2. \A j \in 1..i - 1 : s[j] \in T
    BY <1>1, <2>1
  <2>3. /\ p \in Seq(T)
        /\ Len(p) = IF 1 <= i - 1 THEN (i - 1) - 1 + 1 ELSE 0
        /\ \A j \in 1..(i - 1) - 1 + 1 : p[j] = s[1 + j - 1]
    BY <1>1, <2>2, SubSeqProperties
  <2>4. i - 1 \in Nat /\ (i - 1) - 1 + 1 = i - 1 /\ Len(p) = i - 1
    BY <1>1, <2>3
  <2>5. \A j \in 1..i - 1 : 1 + j - 1 = j
    OBVIOUS
  <2> HIDE DEF p
  <2>6. \A j \in 1..i - 1 : p[j] = s[j]
    BY <2>3, <2>4, <2>5
  <2> QED BY <2>1, <2>2, <2>4, <2>6
<1> HIDE DEF p
<1>4. Vectors(p, d) /\ \A j \in 1..Len(p) : p[j] \in W
  BY <1>2, <1>3 DEF Vectors
<1>5. SpanSeq(p, d) \subseteq W
  BY <1>2, <1>4, SpanIs
<1> QED BY <1>2, <1>5 DEF p
-----------------------------------------------------------------------------
(* Row elimination.                                                        *)

\* The shape of m_helpful and m_upper: a row is zero, or starts at its diagonal.
Echelon(m, n, d) ==
    /\ n \in Nat /\ d \in Nat /\ n <= d
    /\ m \in [Index(n) -> Vector(d)]
    /\ \A i \in Index(n) : /\ \A k \in Index(d) : k < i => m[i][k] = 0
                           /\ m[i][i] = 0 => m[i] = ZeroVector(d)

LEMMA EchelonRows ==
    ASSUME NEW n, NEW d, NEW m, Echelon(m, n, d), NEW i \in Index(n)
    PROVE  /\ i \in Index(d) /\ m[i] \in Vector(d)
           /\ \A k \in Index(d) : m[i][k] \in Symbol
           /\ \A k \in Index(d) : k < i => m[i][k] = 0
           /\ m[i][i] = 0 => m[i] = ZeroVector(d)
<1>1. i \in Index(d)
  BY DEF Echelon, Index
<1>2. m[i] \in Vector(d)
  BY DEF Echelon
<1>3. \A k \in Index(d) : m[i][k] \in Symbol
  BY <1>2 DEF Vector
<1> QED BY <1>1, <1>2, <1>3 DEF Echelon

\* One round, which adds a multiple of row i: v[i] times the factor.
Round(m, v, i) == IF m[i][i] # 0 /\ v[i] # 0 THEN ClearEntry(m, v, i) ELSE v
Factor(m, i) == IF m[i][i] # 0 THEN Mul(Minus, Div(1, m[i][i])) ELSE 0

LEMMA FactorIs ==
    ASSUME NEW v \in Symbol, NEW x \in Symbol, NEW p \in Symbol, p # 0
    PROVE  LET e == Mul(Minus, Div(1, p))
           IN  /\ e \in Symbol
               /\ Mul(Minus, Div(Mul(v, x), p)) = Mul(Mul(v, e), x)
               /\ Add(v, Mul(Mul(v, e), p)) = 0
<1> DEFINE r == Div(1, p)
           e == Mul(Minus, r)
<1>1. r \in Symbol /\ Mul(r, p) = 1 /\ Minus \in Symbol
  BY DivIs, Laws
<1>2. Div(Mul(v, x), p) = Mul(Mul(v, x), r) /\ Mul(v, x) \in Symbol
  BY DivIs, Laws
<1> HIDE DEF r
<1>3. e \in Symbol /\ Mul(v, e) \in Symbol /\ Mul(v, r) \in Symbol
  BY <1>1, Laws
<1>4. Mul(v, e) = Mul(Minus, Mul(v, r))
  <2>1. Mul(Mul(v, Minus), r) = Mul(v, Mul(Minus, r))
    BY <1>1, MulAssoc
  <2>2. Mul(Mul(Minus, v), r) = Mul(Minus, Mul(v, r))
    BY <1>1, MulAssoc
  <2>3. Mul(v, Minus) = Mul(Minus, v)
    BY <1>1, Laws
  <2> QED BY <2>1, <2>2, <2>3
<1>5. ASSUME NEW y \in Symbol
      PROVE  Mul(Mul(v, e), y) = Mul(Minus, Mul(Mul(v, y), r))
  <2>1. Mul(Mul(Minus, Mul(v, r)), y) = Mul(Minus, Mul(Mul(v, r), y))
    BY <1>1, <1>3, MulAssoc
  <2>2. Mul(Mul(v, r), y) = Mul(v, Mul(r, y)) /\ Mul(Mul(v, y), r) = Mul(v, Mul(y, r))
    BY <1>1, MulAssoc
  <2>3. Mul(r, y) = Mul(y, r)
    BY <1>1, Laws
  <2> QED BY <1>4, <2>1, <2>2, <2>3
<1>6. Add(v, Mul(Mul(v, e), p)) = 0
  <2>1. Mul(Mul(v, p), r) = v
    <3>1. Mul(Mul(v, p), r) = Mul(v, Mul(p, r)) /\ Mul(p, r) = Mul(r, p)
      BY <1>1, MulAssoc, Laws
    <3> QED BY <1>1, <3>1, Laws
  <2>2. Mul(Mul(v, e), p) = Mul(Minus, v)
    BY <1>5, <2>1
  <2> QED BY <2>2, AddMinus
<1> QED BY <1>2, <1>3, <1>5, <1>6 DEF r

LEMMA RoundIs ==
    ASSUME NEW n, NEW d, NEW m, Echelon(m, n, d), NEW i \in Index(n), NEW v \in Vector(d)
    PROVE  /\ v[i] \in Symbol /\ Factor(m, i) \in Symbol
           /\ Round(m, v, i) \in Vector(d)
           /\ Round(m, v, i) = Comb(v, Mul(v[i], Factor(m, i)), m[i], d)
           /\ \A k \in Index(d) : k < i => Round(m, v, i)[k] = v[k]
           /\ m[i][i] # 0 => Round(m, v, i)[i] = 0
           /\ m[i][i] = 0 => Round(m, v, i) = v
<1> DEFINE e == Factor(m, i)
           row == m[i]
           z == Comb(v, Mul(v[i], e), row, d)
<1>1. /\ i \in Index(d) /\ row \in Vector(d)
      /\ \A k \in Index(d) : row[k] \in Symbol /\ v[k] \in Symbol
      /\ \A k \in Index(d) : k < i => row[k] = 0
  BY EchelonRows DEF Vector
<1>2. e \in Symbol
  BY <1>1, Laws, DivIs DEF Factor
<1>3. Mul(v[i], e) \in Symbol /\ z \in Vector(d)
  <2>1. Mul(v[i], e) \in Symbol
    BY <1>1, <1>2, Laws
  <2> HIDE DEF e, row
  <2> QED BY <1>1, <2>1, CombEntries
<1>4. Round(m, v, i) = z
  <2>1. CASE row[i] = 0
    <3>1. e = 0 /\ Mul(v[i], e) = 0
      BY <1>1, <2>1, Zeros DEF Factor
    <3> HIDE DEF e
    <3> QED BY <1>1, <2>1, <3>1, CombZero DEF Round
  <2>2. CASE v[i] = 0
    <3>1. Mul(v[i], e) = 0
      BY <1>2, <2>2, Zeros
    <3> HIDE DEF e
    <3> QED BY <1>1, <2>2, <3>1, CombZero DEF Round
  <2>3. CASE row[i] # 0 /\ v[i] # 0
    <3> DEFINE w == ClearEntry(m, v, i)
    <3>1. ASSUME NEW k \in Index(d)
          PROVE  w[k] = z[k]
      <4>1. DOMAIN v = Index(d)
        BY DEF Vector
      <4>2. z[k] = Add(v[k], Mul(Mul(v[i], e), row[k]))
        BY DEF Comb
      <4>3. CASE k < i
        <5>1. w[k] = v[k] /\ row[k] = 0
          BY <1>1, <4>1, <4>3 DEF ClearEntry
        <5>2. Mul(Mul(v[i], e), 0) = 0 /\ Add(v[k], 0) = v[k]
          BY <1>1, <1>3, Zeros, Laws
        <5> HIDE DEF e, row, z, w
        <5> QED BY <4>2, <5>1, <5>2
      <4>4. CASE ~(k < i)
        <5> DEFINE p == row[i]
                   vi == v[i]
                   vk == v[k]
                   x == row[k]
        <5>1. w[k] = Sub(vk, Div(Mul(vi, x), p))
          BY <4>1, <4>4 DEF ClearEntry
        <5>2. vk \in Symbol /\ vi \in Symbol /\ x \in Symbol /\ p \in Symbol /\ p # 0
          BY <1>1, <2>3
        <5>3. e = Mul(Minus, Div(1, p))
          BY <2>3 DEF Factor
        <5> HIDE DEF p, vi, vk, x, e, w, z, row
        <5>4. Mul(vi, x) \in Symbol /\ Div(Mul(vi, x), p) \in Symbol
          BY <5>2, Laws
        <5>5. Sub(vk, Div(Mul(vi, x), p)) = Add(vk, Mul(Minus, Div(Mul(vi, x), p)))
          BY <5>2, <5>4, SubIs
        <5>6. Mul(Minus, Div(Mul(vi, x), p)) = Mul(Mul(vi, e), x)
          BY <5>2, <5>3, FactorIs
        <5> QED BY <4>2, <5>1, <5>5, <5>6 DEF vi, vk, x
      <4> QED BY <4>3, <4>4
    <3>2. w = [k \in Index(d) |-> w[k]]
      BY DEF ClearEntry, Vector
    <3>3. z = [k \in Index(d) |-> z[k]]
      BY DEF Comb
    <3>4. Round(m, v, i) = w
      BY <2>3 DEF Round
    <3> HIDE DEF w, z
    <3> QED BY <3>1, <3>2, <3>3, <3>4
  <2> QED BY <2>1, <2>2, <2>3
<1>5. ASSUME NEW k \in Index(d), k < i
      PROVE  z[k] = v[k]
  <2>1. z[k] = Add(v[k], Mul(Mul(v[i], e), row[k]))
    BY DEF Comb
  <2>2. row[k] = 0 /\ Mul(Mul(v[i], e), 0) = 0 /\ Add(v[k], 0) = v[k]
    BY <1>1, <1>3, <1>5, Zeros, Laws
  <2> HIDE DEF e, row, z
  <2> QED BY <2>1, <2>2
<1>6. ASSUME row[i] # 0
      PROVE  z[i] = 0
  <2> DEFINE p == row[i]
             vi == v[i]
  <2>1. z[i] = Add(vi, Mul(Mul(vi, e), p))
    BY <1>1 DEF Comb
  <2>2. vi \in Symbol /\ p \in Symbol /\ p # 0 /\ e = Mul(Minus, Div(1, p))
    BY <1>1, <1>6 DEF Factor
  <2> HIDE DEF p, vi, e, z
  <2> QED BY <2>1, <2>2, FactorIs
<1>7. row[i] = 0 => Round(m, v, i) = v
  BY DEF Round
<1> HIDE DEF z
<1>8. v[i] \in Symbol
  BY <1>1
<1> QED BY <1>2, <1>3, <1>4, <1>5, <1>6, <1>7, <1>8 DEF z
\* The rounds one after the other.
LEMMA EliminatedIs ==
    ASSUME NEW n, NEW d, NEW m, Echelon(m, n, d), NEW vec \in Vector(d)
    PROVE  LET E == Eliminated(m, vec, n)
           IN  /\ E \in [0..n -> Vector(d)]
               /\ E[0] = vec
               /\ \A i \in Index(n) : E[i + 1] = Round(m, E[i], i)
<1> DEFINE V == Vector(d)
           E == Eliminated(m, vec, n)
           step == [i \in 1..n |-> [v \in V |-> Round(m, v, i - 1)]]
<1>1. n \in Nat
  BY DEF Echelon
<1>2. step \in Steps(n, V)
  <2> SUFFICES ASSUME NEW i \in 1..n, NEW v \in V PROVE Round(m, v, i - 1) \in V
    BY DEF Steps
  <2>1. i - 1 \in Index(n)
    BY <1>1 DEF Index
  <2> QED BY <2>1, RoundIs
<1>3. PICK f : Solves(f, n, V, vec, step)
  <2> HIDE DEF step
  <2> QED BY <1>1, <1>2, Recursion
<1>4. f \in [0..n -> V] /\ f[0] = vec /\ \A i \in 1..n : f[i] = Round(m, f[i - 1], i - 1)
  <2>1. ASSUME NEW i \in 1..n
        PROVE  f[i] = Round(m, f[i - 1], i - 1)
    <3>1. i - 1 \in 0..n
      BY <1>1
    <3>2. f[i - 1] \in V /\ f[i] = step[i][f[i - 1]]
      BY <1>3, <3>1 DEF Solves
    <3> QED BY <3>2
  <2> QED BY <1>3, <2>1 DEF Solves
<1>5. f = [i \in 0..n |-> IF i = 0 THEN vec ELSE Round(m, f[i - 1], i - 1)]
  <2>1. \A i \in 0..n : i = 0 \/ i \in 1..n
    BY <1>1
  <2> QED BY <1>4, <2>1
<1>6. E = [i \in 0..n |-> IF i = 0 THEN vec ELSE Round(m, E[i - 1], i - 1)]
  BY <1>5, Zenon DEF Eliminated, Round
<1> HIDE DEF E, step, V
<1>7. E[0] = vec /\ \A i \in Index(n) : E[i + 1] = Round(m, E[i], i)
  <2>1. 0 \in 0..n
    BY <1>1
  <2>2. \A i \in Index(n) : i + 1 \in 0..n /\ i + 1 # 0 /\ (i + 1) - 1 = i
    BY <1>1 DEF Index
  <2> QED BY <1>6, <2>1, <2>2
<1>8. \A i \in 0..n : E[i] \in V
  <2> DEFINE P == {i \in 0..n : E[i] \in V}
  <2>1. 0 \in P
    BY <1>1, <1>7 DEF V
  <2>2. ASSUME NEW i \in 0..n - 1, i \in P PROVE i + 1 \in P
    <3>1. i \in Index(n) /\ i + 1 \in 0..n
      BY <1>1 DEF Index
    <3>2. Round(m, E[i], i) \in V
      BY <2>2, <3>1, RoundIs DEF V
    <3> QED BY <1>7, <3>1, <3>2
  <2>3. 0..n \subseteq P
    <3> HIDE DEF P
    <3> QED BY <1>1, <2>1, <2>2, Induction
  <2> QED BY <2>3
<1>9. E \in [0..n -> V]
  BY <1>6, <1>8
<1> QED BY <1>7, <1>9 DEF E, V

\* Elimination moves within the cosets of any subspace that holds the rows.
LEMMA EliminatedInSpace ==
    ASSUME NEW n, NEW d, NEW m, Echelon(m, n, d), NEW vec \in Vector(d),
           NEW W, IsSubspace(W, d), \A i \in Index(n) : m[i] \in W
    PROVE  \A i \in 0..n : vec \in W <=> Eliminated(m, vec, n)[i] \in W
<1> DEFINE E == Eliminated(m, vec, n)
           P == {i \in 0..n : vec \in W <=> E[i] \in W}
<1>1. /\ n \in Nat
      /\ E \in [0..n -> Vector(d)] /\ E[0] = vec
      /\ \A i \in Index(n) : E[i + 1] = Round(m, E[i], i)
  <2>1. n \in Nat
    BY DEF Echelon
  <2> QED BY <2>1, EliminatedIs
<1> HIDE DEF E
<1>2. 0 \in P
  BY <1>1
<1>3. ASSUME NEW i \in 0..n - 1, i \in P PROVE i + 1 \in P
  <2>1. i \in Index(n) /\ i \in 0..n /\ i + 1 \in 0..n
    BY <1>1 DEF Index
  <2> DEFINE v == E[i]
             a == Mul(v[i], Factor(m, i))
  <2>2. v \in Vector(d)
    BY <1>1, <2>1
  <2> HIDE DEF v
  <2>3. v[i] \in Symbol /\ Factor(m, i) \in Symbol /\ Round(m, v, i) = Comb(v, a, m[i], d)
    BY <2>1, <2>2, RoundIs
  <2>4. a \in Symbol
    BY <2>3, Laws
  <2> HIDE DEF a
  <2>5. v \in W <=> Comb(v, a, m[i], d) \in W
    BY <2>1, <2>2, <2>4, SubspaceComb
  <2>6. vec \in W <=> v \in W
    BY <1>3 DEF v
  <2>7. E[i + 1] = Comb(v, a, m[i], d)
    BY <1>1, <2>1, <2>3 DEF v
  <2> QED BY <2>1, <2>5, <2>6, <2>7
<1>4. 0..n \subseteq P
  <2> HIDE DEF P
  <2> QED BY <1>1, <1>2, <1>3, Induction
<1> QED BY <1>4 DEF E

\* While no column is found, every entry passed is 0.
LEMMA EliminatedZeros ==
    ASSUME NEW n, NEW d, NEW m, Echelon(m, n, d), NEW vec \in Vector(d),
           NEW j \in 0..n, \A i \in FoundColumns(m, vec, n) : ~(i < j)
    PROVE  \A k \in Index(d) : k < j => Eliminated(m, vec, n)[j][k] = 0
<1> DEFINE E == Eliminated(m, vec, n)
           P == {i \in 0..j : \A k \in Index(d) : k < i => E[i][k] = 0}
<1>1. /\ n \in Nat /\ d \in Nat /\ n <= d
      /\ E \in [0..n -> Vector(d)] /\ E[0] = vec
      /\ \A i \in Index(n) : E[i + 1] = Round(m, E[i], i)
  <2>1. n \in Nat /\ d \in Nat /\ n <= d
    BY DEF Echelon
  <2> QED BY <2>1, EliminatedIs
<1>2. \A i \in Index(n) : i < j /\ m[i][i] = 0 => E[i][i] = 0
  BY DEF FoundColumns
<1> HIDE DEF E
<1>3. 0 \in P
  BY <1>1 DEF Index
<1>4. ASSUME NEW i \in 0..j - 1, i \in P PROVE i + 1 \in P
  <2>1. i \in Index(n) /\ i \in Index(d) /\ i \in 0..n /\ i + 1 \in 0..j /\ i < j
    BY <1>1 DEF Index
  <2> DEFINE v == E[i]
  <2>2. v \in Vector(d) /\ E[i + 1] = Round(m, v, i)
    BY <1>1, <2>1
  <2>3. \A k \in Index(d) : k < i => v[k] = 0
    BY <1>4
  <2>4. m[i][i] = 0 => v[i] = 0
    BY <1>2, <2>1
  <2> HIDE DEF v
  <2>5. /\ \A k \in Index(d) : k < i => Round(m, v, i)[k] = v[k]
        /\ m[i][i] # 0 => Round(m, v, i)[i] = 0
        /\ m[i][i] = 0 => Round(m, v, i) = v
    BY <2>1, <2>2, RoundIs
  <2>6. \A k \in Index(d) : k < i + 1 => k < i \/ k = i
    BY <2>1 DEF Index
  <2>7. \A k \in Index(d) : k < i + 1 => Round(m, v, i)[k] = 0
    BY <2>3, <2>4, <2>5, <2>6
  <2> QED BY <2>1, <2>2, <2>7
<1>5. 0..j \subseteq P
  <2> HIDE DEF P
  <2> QED BY <1>1, <1>3, <1>4, Induction
<1>6. j \in 0..j
  BY <1>1
<1> QED BY <1>5, <1>6 DEF E

\* Elimination is linear.
LEMMA EliminatedLinear ==
    ASSUME NEW n, NEW d, NEW m, Echelon(m, n, d),
           NEW x \in Vector(d), NEW y \in Vector(d), NEW a \in Symbol
    PROVE  \A i \in 0..n : Eliminated(m, Comb(x, a, y, d), n)[i]
                = Comb(Eliminated(m, x, n)[i], a, Eliminated(m, y, n)[i], d)
<1> DEFINE X == Eliminated(m, x, n)
           Y == Eliminated(m, y, n)
           z == Comb(x, a, y, d)
           Z == Eliminated(m, z, n)
           P == {i \in 0..n : Z[i] = Comb(X[i], a, Y[i], d)}
<1>1. z \in Vector(d)
  BY CombEntries
<1> HIDE DEF z
<1>2. n \in Nat
  BY DEF Echelon
<1>3. /\ X \in [0..n -> Vector(d)] /\ X[0] = x
      /\ \A i \in Index(n) : X[i + 1] = Round(m, X[i], i)
  BY EliminatedIs
<1>4. /\ Y \in [0..n -> Vector(d)] /\ Y[0] = y
      /\ \A i \in Index(n) : Y[i + 1] = Round(m, Y[i], i)
  BY EliminatedIs
<1>5. /\ Z[0] = z
      /\ \A i \in Index(n) : Z[i + 1] = Round(m, Z[i], i)
  BY <1>1, EliminatedIs
<1> HIDE DEF X, Y, Z
<1>6. 0 \in P
  BY <1>2, <1>3, <1>4, <1>5 DEF z
<1>7. ASSUME NEW i \in 0..n - 1, i \in P PROVE i + 1 \in P
  <2>1. i \in Index(n) /\ i \in 0..n /\ i + 1 \in 0..n
    BY <1>2 DEF Index
  <2> DEFINE u == X[i]
             w == Y[i]
             c == Comb(u, a, w, d)
             e == Factor(m, i)
  <2>2. u \in Vector(d) /\ w \in Vector(d) /\ Z[i] = c
    BY <1>3, <1>4, <1>7, <2>1
  <2>3. X[i + 1] = Round(m, u, i) /\ Y[i + 1] = Round(m, w, i) /\ Z[i + 1] = Round(m, c, i)
    BY <1>3, <1>4, <1>5, <2>1, <2>2
  <2> HIDE DEF u, w
  <2>4. c \in Vector(d)
    BY <2>2, CombEntries
  <2>5. /\ u[i] \in Symbol /\ w[i] \in Symbol /\ e \in Symbol
        /\ Round(m, u, i) = Comb(u, Mul(u[i], e), m[i], d) /\ Round(m, u, i) \in Vector(d)
        /\ Round(m, w, i) = Comb(w, Mul(w[i], e), m[i], d) /\ Round(m, w, i) \in Vector(d)
    BY <2>1, <2>2, RoundIs
  <2>6. Round(m, c, i) = Comb(c, Mul(c[i], e), m[i], d) /\ Round(m, c, i) \in Vector(d)
    <3> HIDE DEF c
    <3> QED BY <2>1, <2>4, RoundIs
  <2>7. c[i] = Add(u[i], Mul(a, w[i]))
    BY <2>1, EchelonRows DEF Comb
  <2>8. ASSUME NEW k \in Index(d)
        PROVE  Round(m, c, i)[k] = Comb(Round(m, u, i), a, Round(m, w, i), d)[k]
    <3> DEFINE row == m[i]
               ui == u[i]
               wi == w[i]
               uk == u[k]
               wk == w[k]
               mk == row[k]
               b == Mul(e, mk)
    <3>1. /\ uk \in Symbol /\ wk \in Symbol /\ ui \in Symbol /\ wi \in Symbol /\ mk \in Symbol
      BY <2>1, <2>2, <2>5, EchelonRows DEF Vector
    <3>2. /\ Comb(u, Mul(ui, e), row, d)[k] = Add(uk, Mul(Mul(ui, e), mk))
          /\ Comb(w, Mul(wi, e), row, d)[k] = Add(wk, Mul(Mul(wi, e), mk))
          /\ Comb(c, Mul(c[i], e), row, d)[k] = Add(c[k], Mul(Mul(c[i], e), mk))
          /\ c[k] = Add(uk, Mul(a, wk))
          /\ Comb(Round(m, u, i), a, Round(m, w, i), d)[k]
                = Add(Round(m, u, i)[k], Mul(a, Round(m, w, i)[k]))
      <4> HIDE DEF e
      <4> QED BY DEF Comb
    <3>3. c[i] = Add(ui, Mul(a, wi))
      BY <2>7
    <3> HIDE DEF row, ui, wi, uk, wk, mk, e, c
    <3>4. b \in Symbol /\ c[i] \in Symbol
      BY <2>5, <3>1, <3>3, Laws
    <3>5. Mul(Mul(ui, e), mk) = Mul(ui, b) /\ Mul(Mul(wi, e), mk) = Mul(wi, b)
      BY <2>5, <3>1, MulAssoc
    <3>6. Mul(Mul(c[i], e), mk) = Mul(c[i], b)
      BY <2>5, <3>1, <3>4, MulAssoc
    <3> HIDE DEF b
    <3>7. Add(Add(uk, Mul(a, wk)), Mul(Add(ui, Mul(a, wi)), b))
                = Add(Add(uk, Mul(ui, b)), Mul(a, Add(wk, Mul(wi, b))))
      BY <3>1, <3>4, Exchange
    <3> QED BY <2>5, <2>6, <3>2, <3>3, <3>5, <3>6, <3>7 DEF row, ui, wi
  <2> HIDE DEF c
  <2>9. Comb(Round(m, u, i), a, Round(m, w, i), d) \in Vector(d)
    BY <2>5, CombEntries
  <2>10. Round(m, c, i) = Comb(Round(m, u, i), a, Round(m, w, i), d)
    BY <2>6, <2>8, <2>9, SameVector
  <2> QED BY <2>1, <2>3, <2>10
<1>8. 0..n \subseteq P
  <2> HIDE DEF P
  <2> QED BY <1>2, <1>6, <1>7, Induction
<1> QED BY <1>8 DEF X, Y, Z, z
-----------------------------------------------------------------------------
(* What elimination decides.                                               *)

\* The vectors no column is found for.
Kernel(m, n, d) ==
    {x \in Vector(d) : \A i \in Index(n) : m[i][i] = 0 => Eliminated(m, x, n)[i][i] = 0}

LEMMA EliminatedRow ==
    ASSUME NEW n, NEW d, NEW m, Echelon(m, n, d), NEW j \in Index(n)
    PROVE  \A i \in 0..n : Eliminated(m, m[j], n)[i] = IF i <= j THEN m[j] ELSE ZeroVector(d)
<1> DEFINE row == m[j]
           E == Eliminated(m, row, n)
           zero == ZeroVector(d)
           P == {i \in 0..n : E[i] = IF i <= j THEN row ELSE zero}
<1>1. /\ j \in Index(d) /\ row \in Vector(d)
      /\ \A k \in Index(d) : row[k] \in Symbol
      /\ \A k \in Index(d) : k < j => row[k] = 0
      /\ row[j] = 0 => row = zero
  BY EchelonRows
<1>2. n \in Nat
  BY DEF Echelon
<1>3. E[0] = row /\ \A i \in Index(n) : E[i + 1] = Round(m, E[i], i)
  <2> HIDE DEF row
  <2> QED BY <1>1, EliminatedIs
<1>4. Round(m, row, j) = zero
  <2>1. CASE row[j] = 0
    BY <1>1, <2>1 DEF Round
  <2>2. CASE row[j] # 0
    <3> DEFINE z == Round(m, row, j)
               p == row[j]
               e == Mul(Minus, Div(1, p))
    <3>1. z \in Vector(d) /\ z = Comb(row, Mul(p, Factor(m, j)), m[j], d)
      <4> HIDE DEF row
      <4> QED BY <1>1, RoundIs
    <3>2. Factor(m, j) = e
      BY <2>2 DEF Factor
    <3>3. p \in Symbol /\ p # 0
      BY <1>1, <2>2
    <3>4. Mul(p, e) = Minus
      <4> HIDE DEF p
      <4>1. Div(1, p) \in Symbol /\ Mul(p, Div(1, p)) = 1 /\ Minus \in Symbol
        BY <3>3, DivIs, Laws
      <4>2. Mul(Minus, Div(1, p)) = Mul(Div(1, p), Minus)
        BY <4>1, Laws
      <4>3. Mul(Mul(p, Div(1, p)), Minus) = Mul(p, Mul(Div(1, p), Minus))
        BY <3>3, <4>1, MulAssoc
      <4> QED BY <4>1, <4>2, <4>3, Zeros
    <3>5. ASSUME NEW k \in Index(d)
          PROVE  z[k] = zero[k]
      <4>1. Comb(row, Minus, m[j], d)[k] = Add(row[k], Mul(Minus, row[k]))
        BY DEF Comb
      <4>2. Add(row[k], Mul(Minus, row[k])) = 0
        BY <1>1, AddMinus
      <4> HIDE DEF z, p, e, row
      <4> QED BY <3>1, <3>2, <3>4, <4>1, <4>2, ZeroEntries
    <3> HIDE DEF z, p, e, row
    <3>6. z = zero
      BY <3>1, <3>5, ZeroEntries, SameVector
    <3> QED BY <3>6 DEF z
  <2> QED BY <2>1, <2>2
<1>5. \A i \in Index(n) : Round(m, zero, i) = zero
  <2>1. \A i \in Index(n) : zero[i] = 0
    BY ZeroEntries, EchelonRows
  <2> QED BY <2>1 DEF Round
<1>6. \A i \in Index(n) : i < j => Round(m, row, i) = row
  <2>1. \A i \in Index(n) : i < j => row[i] = 0
    BY <1>1, EchelonRows
  <2> HIDE DEF row
  <2> QED BY <2>1 DEF Round
<1> HIDE DEF row, zero, E
<1>7. 0 \in P
  BY <1>2, <1>3 DEF Index
<1>8. ASSUME NEW i \in 0..n - 1, i \in P PROVE i + 1 \in P
  <2>1. i \in Index(n) /\ i + 1 \in 0..n /\ j \in Int
    BY <1>2 DEF Index
  <2>2. E[i + 1] = Round(m, E[i], i) /\ E[i] = IF i <= j THEN row ELSE zero
    BY <1>3, <1>8, <2>1
  <2>3. CASE i < j
    BY <1>6, <2>1, <2>2, <2>3
  <2>4. CASE i = j
    BY <1>4, <2>1, <2>2, <2>4
  <2>5. CASE i > j
    BY <1>5, <2>1, <2>2, <2>5
  <2> QED BY <2>1, <2>3, <2>4, <2>5
<1>9. 0..n \subseteq P
  <2> HIDE DEF P
  <2> QED BY <1>2, <1>7, <1>8, Induction
<1> QED BY <1>9 DEF E, row, zero

LEMMA KernelIs ==
    ASSUME NEW n, NEW d, NEW m, Echelon(m, n, d)
    PROVE  /\ IsSubspace(Kernel(m, n, d), d)
           /\ \A i \in Index(n) : m[i] \in Kernel(m, n, d)
           /\ \A x \in Vector(d) : x \in Kernel(m, n, d) <=> ~Innovative(m, x, n)
<1>1. n \in Nat /\ \A i \in Index(n) : i \in 0..n /\ i \in Index(d)
  <2>1. n \in Nat
    BY DEF Echelon
  <2> QED BY <2>1, EchelonRows DEF Index
<1>2. ASSUME NEW x \in Vector(d), NEW i \in Index(n)
      PROVE  Eliminated(m, x, n)[i] \in Vector(d)
  <2>1. Eliminated(m, x, n) \in [0..n -> Vector(d)]
    BY EliminatedIs
  <2> QED BY <1>1, <2>1
<1>3. ASSUME NEW x \in Vector(d), NEW y \in Vector(d), NEW a \in Symbol, NEW i \in Index(n)
      PROVE  Eliminated(m, Comb(x, a, y, d), n)[i][i]
                = Add(Eliminated(m, x, n)[i][i], Mul(a, Eliminated(m, y, n)[i][i]))
  <2>1. Eliminated(m, Comb(x, a, y, d), n)[i]
                = Comb(Eliminated(m, x, n)[i], a, Eliminated(m, y, n)[i], d)
    BY <1>1, EliminatedLinear
  <2> QED BY <1>1, <2>1 DEF Comb
<1>4. ZeroVector(d) \in Kernel(m, n, d)
  <2> DEFINE zero == ZeroVector(d)
  <2>1. zero \in Vector(d) /\ Comb(zero, Minus, zero, d) = zero /\ Minus \in Symbol
    BY ZeroEntries, CombZero, Laws
  <2> HIDE DEF zero
  <2>2. ASSUME NEW i \in Index(n)
        PROVE  Eliminated(m, zero, n)[i][i] = 0
    <3> DEFINE s == Eliminated(m, zero, n)[i][i]
    <3>1. s \in Symbol
      BY <1>1, <1>2, <2>1 DEF Vector
    <3>2. s = Add(s, Mul(Minus, s))
      BY <1>3, <2>1
    <3> HIDE DEF s
    <3>3. s = 0
      BY <3>1, <3>2, AddMinus
    <3> QED BY <3>3 DEF s
  <2> QED BY <2>1, <2>2 DEF Kernel, zero
<1>5. ASSUME NEW x \in Kernel(m, n, d), NEW y \in Kernel(m, n, d), NEW a \in Symbol
      PROVE  Comb(x, a, y, d) \in Kernel(m, n, d)
  <2>1. x \in Vector(d) /\ y \in Vector(d) /\ Comb(x, a, y, d) \in Vector(d)
    BY CombEntries DEF Kernel
  <2>2. ASSUME NEW i \in Index(n), m[i][i] = 0
        PROVE  Eliminated(m, Comb(x, a, y, d), n)[i][i] = 0
    <3>1. Eliminated(m, x, n)[i][i] = 0 /\ Eliminated(m, y, n)[i][i] = 0
      BY <2>2 DEF Kernel
    <3>2. Add(0, Mul(a, 0)) = 0
      BY Zeros, Laws
    <3> QED BY <1>3, <2>1, <3>1, <3>2
  <2> QED BY <2>1, <2>2 DEF Kernel
<1>6. ASSUME NEW j \in Index(n)
      PROVE  m[j] \in Kernel(m, n, d)
  <2>1. m[j] \in Vector(d) /\ \A k \in Index(d) : k < j => m[j][k] = 0
    BY EchelonRows
  <2>2. ASSUME NEW i \in Index(n), m[i][i] = 0
        PROVE  Eliminated(m, m[j], n)[i][i] = 0
    <3>1. Eliminated(m, m[j], n)[i] = IF i <= j THEN m[j] ELSE ZeroVector(d)
      BY <1>1, EliminatedRow
    <3>2. ZeroVector(d)[i] = 0
      BY <1>1, ZeroEntries
    <3>3. i <= j => i < j \/ i = j
      BY <1>1 DEF Index
    <3>4. i <= j => m[j][i] = 0
      BY <1>1, <2>1, <2>2, <3>3
    <3> QED BY <3>1, <3>2, <3>4
  <2> QED BY <2>1, <2>2 DEF Kernel
<1>7. Kernel(m, n, d) \in SUBSET Vector(d)
  BY DEF Kernel
<1>8. ASSUME NEW x \in Vector(d)
      PROVE  x \in Kernel(m, n, d) <=> ~Innovative(m, x, n)
  BY DEF Kernel, Innovative, FoundColumns
<1>9. IsSubspace(Kernel(m, n, d), d)
  BY <1>4, <1>5, <1>7 DEF IsSubspace
<1> QED BY <1>6, <1>8, <1>9

\* What is left of an innovative vector, and where InsertRow puts it.
LEMMA InsertedRow ==
    ASSUME NEW n, NEW d, NEW m, Echelon(m, n, d), NEW vec \in Vector(d), Innovative(m, vec, n)
    PROVE  \E f \in Index(n) : \E r \in Vector(d) :
              /\ InsertRow(m, vec, n) = [m EXCEPT ![f] = r]
              /\ m[f][f] = 0 /\ r[f] # 0
              /\ \A k \in Index(d) : k < f => r[k] = 0
              /\ \A W : IsSubspace(W, d) /\ (\A i \in Index(n) : m[i] \in W) => (vec \in W <=> r \in W)
<1> DEFINE F == FoundColumns(m, vec, n)
           f == CHOOSE i \in F : \A k \in F : i <= k
           r == Eliminated(m, vec, n)[f]
<1>1. n \in Nat
  BY DEF Echelon
<1>2. F \in SUBSET Nat /\ F # {}
  BY <1>1 DEF Innovative, FoundColumns, Index
<1>3. f \in F /\ \A k \in F : f <= k
  <2>1. \E i \in F : \A k \in F : i <= k
    <3> HIDE DEF F
    <3> QED BY <1>2, Least
  <2> HIDE DEF F
  <2> QED BY <2>1
<1>4. InsertRow(m, vec, n) = [m EXCEPT ![f] = r]
  BY DEF InsertRow
<1>5. f \in Index(n) /\ m[f][f] = 0 /\ r[f] # 0
  <2> HIDE DEF f
  <2> QED BY <1>3 DEF FoundColumns
<1>6. f \in 0..n /\ f \in Nat /\ \A i \in F : ~(i < f)
  <2> HIDE DEF f, F
  <2> QED BY <1>1, <1>2, <1>3, <1>5 DEF Index
<1>7. r \in Vector(d)
  <2>1. Eliminated(m, vec, n) \in [0..n -> Vector(d)]
    BY EliminatedIs
  <2> HIDE DEF f
  <2> QED BY <1>6, <2>1
<1>8. \A k \in Index(d) : k < f => r[k] = 0
  <2> HIDE DEF f
  <2> QED BY <1>6, EliminatedZeros
<1>9. ASSUME NEW W, IsSubspace(W, d), \A i \in Index(n) : m[i] \in W
      PROVE  vec \in W <=> r \in W
  <2>1. \A i \in 0..n : vec \in W <=> Eliminated(m, vec, n)[i] \in W
    BY <1>9, EliminatedInSpace
  <2> HIDE DEF f
  <2> QED BY <1>6, <2>1
<1> HIDE DEF f, r
<1> QED BY <1>4, <1>5, <1>7, <1>8, <1>9
Diagonal(m, n) == {i \in Index(n) : m[i][i] # 0}

LEMMA DiagonalIs ==
    ASSUME NEW m, NEW n \in Nat
    PROVE  /\ IsFiniteSet(Diagonal(m, n)) /\ Cardinality(Diagonal(m, n)) \in Nat
           /\ Cardinality(Diagonal(m, n)) = n => Diagonal(m, n) = Index(n)
<1>1. IsFiniteSet(Index(n)) /\ Cardinality(Index(n)) = n
  <2>1. IsFiniteSet(0..n - 1) /\ Cardinality(0..n - 1) = IF 0 > n - 1 THEN 0 ELSE (n - 1) - 0 + 1
    BY FS_Interval
  <2> QED BY <2>1 DEF Index
<1>2. Diagonal(m, n) \in SUBSET Index(n)
  BY DEF Diagonal
<1>3. /\ IsFiniteSet(Diagonal(m, n))
      /\ Cardinality(Index(n)) = Cardinality(Diagonal(m, n)) => Index(n) = Diagonal(m, n)
  BY <1>1, <1>2, FS_Subset
<1>4. Cardinality(Diagonal(m, n)) \in Nat
  BY <1>3, FS_CardinalityType
<1> QED BY <1>1, <1>3, <1>4

LEMMA FullNotInnovative ==
    ASSUME NEW m, NEW n \in Nat, Cardinality(Diagonal(m, n)) = n, NEW vec
    PROVE  ~Innovative(m, vec, n)
<1>1. Diagonal(m, n) = Index(n)
  BY DiagonalIs
<1> QED BY <1>1 DEF Diagonal, Innovative, FoundColumns

\* The zero matrix both eliminations start from.
LEMMA ZeroRows ==
    ASSUME NEW n \in Nat, NEW d \in Nat, n <= d, NEW m, m = [i \in Index(n) |-> ZeroVector(d)]
    PROVE  Echelon(m, n, d) /\ Diagonal(m, n) = {}
<1>1. \A i \in Index(n) : m[i] = ZeroVector(d) /\ i \in Index(d)
  BY DEF Index
<1>2. m \in [Index(n) -> Vector(d)]
  BY ZeroEntries
<1>3. \A i \in Index(n) : \A k \in Index(d) : m[i][k] = 0
  BY <1>1, ZeroEntries
<1>4. Echelon(m, n, d)
  BY <1>1, <1>2, <1>3 DEF Echelon
<1> QED BY <1>1, <1>3, <1>4 DEF Diagonal

\* An innovative vector fills one row more and adds itself to what the rows span.
LEMMA InsertIs ==
    ASSUME NEW n, NEW d, NEW m, Echelon(m, n, d), NEW vec \in Vector(d), Innovative(m, vec, n)
    PROVE  LET m1 == InsertRow(m, vec, n)
           IN  /\ Echelon(m1, n, d)
               /\ Cardinality(Diagonal(m1, n)) = Cardinality(Diagonal(m, n)) + 1
               /\ \A W : IsSubspace(W, d) =>
                    ((\A i \in Index(n) : m1[i] \in W) <=> (\A i \in Index(n) : m[i] \in W) /\ vec \in W)
<1> DEFINE m1 == InsertRow(m, vec, n)
<1>1. PICK f \in Index(n) : \E r \in Vector(d) :
            /\ InsertRow(m, vec, n) = [m EXCEPT ![f] = r]
            /\ m[f][f] = 0 /\ r[f] # 0
            /\ \A k \in Index(d) : k < f => r[k] = 0
            /\ \A W : IsSubspace(W, d) /\ (\A i \in Index(n) : m[i] \in W) => (vec \in W <=> r \in W)
  BY InsertedRow
<1>2. PICK r \in Vector(d) :
            /\ InsertRow(m, vec, n) = [m EXCEPT ![f] = r]
            /\ m[f][f] = 0 /\ r[f] # 0
            /\ \A k \in Index(d) : k < f => r[k] = 0
            /\ \A W : IsSubspace(W, d) /\ (\A i \in Index(n) : m[i] \in W) => (vec \in W <=> r \in W)
  BY <1>1
<1>3. m \in [Index(n) -> Vector(d)] /\ n \in Nat /\ d \in Nat /\ n <= d
  BY DEF Echelon
<1>4. m1 = [m EXCEPT ![f] = r]
  BY <1>2
<1> HIDE DEF m1
<1>5. /\ m1 \in [Index(n) -> Vector(d)]
      /\ m1[f] = r /\ \A i \in Index(n) : i # f => m1[i] = m[i]
  BY <1>3, <1>4
<1>6. Echelon(m1, n, d)
  <2>1. ASSUME NEW i \in Index(n)
        PROVE  /\ \A k \in Index(d) : k < i => m1[i][k] = 0
               /\ m1[i][i] = 0 => m1[i] = ZeroVector(d)
    <3>1. CASE i = f
      BY <1>2, <1>5, <3>1
    <3>2. CASE i # f
      BY <1>5, <3>2, EchelonRows
    <3> QED BY <3>1, <3>2
  <2> QED BY <1>3, <1>5, <2>1 DEF Echelon
<1>7. Cardinality(Diagonal(m1, n)) = Cardinality(Diagonal(m, n)) + 1
  <2>1. Diagonal(m1, n) = Diagonal(m, n) \cup {f}
    BY <1>2, <1>5 DEF Diagonal
  <2>2. f \notin Diagonal(m, n)
    BY <1>2 DEF Diagonal
  <2> QED BY <1>3, <2>1, <2>2, DiagonalIs, FS_AddElement
<1>8. ASSUME NEW W, IsSubspace(W, d)
      PROVE  (\A i \in Index(n) : m1[i] \in W) <=> (\A i \in Index(n) : m[i] \in W) /\ vec \in W
  <2>1. ASSUME \A i \in Index(n) : m1[i] \in W
        PROVE  (\A i \in Index(n) : m[i] \in W) /\ vec \in W
    <3>1. m[f] \in W
      <4>1. m[f] = ZeroVector(d)
        BY <1>2, EchelonRows
      <4> QED BY <1>8, <4>1 DEF IsSubspace
    <3>2. \A i \in Index(n) : m[i] \in W
      BY <1>5, <2>1, <3>1
    <3>3. r \in W
      BY <1>5, <2>1
    <3> QED BY <1>2, <1>8, <3>2, <3>3
  <2>2. ASSUME \A i \in Index(n) : m[i] \in W, vec \in W
        PROVE  \A i \in Index(n) : m1[i] \in W
    <3>1. r \in W
      BY <1>2, <1>8, <2>2
    <3> QED BY <1>5, <2>2, <3>1
  <2> QED BY <2>1, <2>2
<1> QED BY <1>6, <1>7, <1>8 DEF m1

\* The rows of an n by n matrix and what they span.
LEMMA RowSpaceIs ==
    ASSUME NEW n, NEW m, Echelon(m, n, n)
    PROVE  /\ IsSubspace(RowSpace(m, n), n)
           /\ \A i \in Index(n) : m[i] \in RowSpace(m, n)
           /\ \A V : IsSubspace(V, n) /\ (\A i \in Index(n) : m[i] \in V) => RowSpace(m, n) \subseteq V
<1> DEFINE s == [i \in 1..n |-> m[i - 1]]
<1>1. n \in Nat /\ m \in [Index(n) -> Vector(n)]
  BY DEF Echelon
<1>2. \A i \in 1..n : i - 1 \in Index(n) /\ s[i] = m[i - 1] /\ s[i] \in Vector(n)
  BY <1>1 DEF Index
<1>3. \A i \in Index(n) : i + 1 \in 1..n /\ s[i + 1] = m[i]
  <2>1. \A i \in Index(n) : i + 1 \in 1..n /\ (i + 1) - 1 = i
    BY <1>1 DEF Index
  <2> QED BY <2>1
<1>4. Len(s) = n
  <2>1. s \in [1..n -> Vector(n)]
    BY <1>2
  <2>2. s \in Seq(Vector(n)) /\ DOMAIN s = 1..n
    BY <1>1, <2>1, SeqDef
  <2>3. Len(s) \in Nat /\ DOMAIN s = 1..Len(s)
    BY <2>2, LenProperties
  <2> HIDE DEF s
  <2> QED BY <1>1, <2>2, <2>3
<1>5. RowSpace(m, n) = SpanSeq(s, n)
  BY DEF RowSpace
<1> HIDE DEF s
<1>6. Vectors(s, n)
  BY <1>1, <1>2, <1>4 DEF Vectors
<1>7. /\ IsSubspace(SpanSeq(s, n), n)
      /\ \A i \in 1..n : s[i] \in SpanSeq(s, n)
      /\ \A V : IsSubspace(V, n) /\ (\A i \in 1..n : s[i] \in V) => SpanSeq(s, n) \subseteq V
  BY <1>4, <1>6, SpanIs
<1> QED BY <1>2, <1>3, <1>5, <1>7

\* IsHelpful's elimination finds a column exactly for the vectors outside.
LEMMA InnovativeIs ==
    ASSUME NEW n, NEW m, Echelon(m, n, n), NEW x \in Vector(n)
    PROVE  Innovative(m, x, n) <=> x \notin RowSpace(m, n)
<1>1. n \in Nat
  BY DEF Echelon
<1>2. RowSpace(m, n) \subseteq Kernel(m, n, n)
  BY RowSpaceIs, KernelIs
<1>3. ASSUME x \in Kernel(m, n, n)
      PROVE  x \in RowSpace(m, n)
  <2>1. FoundColumns(m, x, n) = {}
    BY <1>3, KernelIs DEF Innovative
  <2>2. \A k \in Index(n) : k < n => Eliminated(m, x, n)[n][k] = 0
    BY <1>1, <2>1, EliminatedZeros
  <2>3. Eliminated(m, x, n) \in [0..n -> Vector(n)] /\ n \in 0..n
    BY <1>1, EliminatedIs
  <2>4. \A k \in Index(n) : k < n
    BY <1>1 DEF Index
  <2>5. Eliminated(m, x, n)[n] = ZeroVector(n)
    BY <2>2, <2>3, <2>4, ZeroEntries, SameVector
  <2>6. ZeroVector(n) \in RowSpace(m, n)
    BY RowSpaceIs DEF IsSubspace
  <2>7. x \in RowSpace(m, n) <=> Eliminated(m, x, n)[n] \in RowSpace(m, n)
    BY <2>3, RowSpaceIs, EliminatedInSpace
  <2> QED BY <2>5, <2>6, <2>7
<1> QED BY <1>2, <1>3, KernelIs

LEMMA InsertRowSpace ==
    ASSUME NEW n, NEW m, Echelon(m, n, n), NEW x \in Vector(n), Innovative(m, x, n)
    PROVE  RowSpace(InsertRow(m, x, n), n) = Extend(RowSpace(m, n), x, n)
<1> DEFINE m1 == InsertRow(m, x, n)
           S == RowSpace(m, n)
           S1 == RowSpace(m1, n)
           X == Extend(S, x, n)
<1>1. Echelon(m1, n, n)
  BY InsertIs
<1>2. ASSUME NEW W, IsSubspace(W, n)
      PROVE  (\A i \in Index(n) : m1[i] \in W) <=> (\A i \in Index(n) : m[i] \in W) /\ x \in W
  BY <1>2, InsertIs
<1> HIDE DEF m1
<1>3. /\ IsSubspace(S1, n)
      /\ \A i \in Index(n) : m1[i] \in S1
      /\ \A V : IsSubspace(V, n) /\ (\A i \in Index(n) : m1[i] \in V) => S1 \subseteq V
  BY <1>1, RowSpaceIs
<1>4. /\ IsSubspace(S, n)
      /\ \A i \in Index(n) : m[i] \in S
      /\ \A V : IsSubspace(V, n) /\ (\A i \in Index(n) : m[i] \in V) => S \subseteq V
  BY RowSpaceIs
<1> HIDE DEF S, S1
<1>5. /\ IsSubspace(X, n) /\ S \subseteq X /\ x \in X
      /\ \A V : IsSubspace(V, n) /\ S \subseteq V /\ x \in V => X \subseteq V
  BY <1>4, ExtendIs
<1> HIDE DEF X
<1>6. S1 \subseteq X
  BY <1>2, <1>3, <1>4, <1>5
<1>7. X \subseteq S1
  BY <1>2, <1>3, <1>4, <1>5
<1> QED BY <1>6, <1>7 DEF S, S1, X, m1
-----------------------------------------------------------------------------
(* The sums a block carries.                                               *)

\* Running sums: what the loops that add one product at a time compute.
LEMMA RunningSums ==
    ASSUME NEW n \in Nat, NEW t \in [1..n -> Symbol]
    PROVE  \E f \in [0..n -> Symbol] : f[0] = 0 /\ \A i \in 1..n : f[i] = Add(t[i], f[i - 1])
<1> DEFINE step == [i \in 1..n |-> [s \in Symbol |-> Add(t[i], s)]]
<1>1. step \in Steps(n, Symbol)
  <2> SUFFICES ASSUME NEW i \in 1..n, NEW s \in Symbol PROVE Add(t[i], s) \in Symbol
    BY DEF Steps
  <2> QED BY Laws
<1>2. PICK f : Solves(f, n, Symbol, 0, step)
  <2> HIDE DEF step
  <2> QED BY <1>1, Recursion, Laws
<1>3. ASSUME NEW i \in 1..n
      PROVE  f[i] = Add(t[i], f[i - 1])
  <2>1. i - 1 \in 0..n
    OBVIOUS
  <2>2. f[i - 1] \in Symbol /\ f[i] = step[i][f[i - 1]]
    BY <1>2, <2>1 DEF Solves
  <2> QED BY <2>2
<1> QED BY <1>2, <1>3 DEF Solves

Entries(x, n) == \A k \in Index(n) : x[k] \in Symbol

DotSums(x, y, n) ==
    CHOOSE acc : acc = [i \in 0..n |->
        IF i = 0 THEN 0 ELSE Add(Mul(x[i - 1], y[i - 1]), acc[i - 1])]

LEMMA DotSteps ==
    ASSUME NEW n \in Nat, NEW x, NEW y, Entries(x, n), Entries(y, n)
    PROVE  /\ Dot(x, y, n) = DotSums(x, y, n)[n]
           /\ DotSums(x, y, n)[0] = 0
           /\ \A i \in 0..n : DotSums(x, y, n)[i] \in Symbol
           /\ \A i \in Index(n) :
                DotSums(x, y, n)[i + 1] = Add(Mul(x[i], y[i]), DotSums(x, y, n)[i])
<1> DEFINE t == [i \in 1..n |-> Mul(x[i - 1], y[i - 1])]
<1>1. t \in [1..n -> Symbol]
  <2> SUFFICES ASSUME NEW i \in 1..n PROVE Mul(x[i - 1], y[i - 1]) \in Symbol
    OBVIOUS
  <2>1. i - 1 \in Index(n)
    BY DEF Index
  <2>2. x[i - 1] \in Symbol /\ y[i - 1] \in Symbol
    BY <2>1 DEF Entries
  <2> QED BY <2>2, Laws
<1>2. PICK f \in [0..n -> Symbol] : f[0] = 0 /\ \A i \in 1..n : f[i] = Add(t[i], f[i - 1])
  <2> HIDE DEF t
  <2> QED BY <1>1, RunningSums
<1>3. f = [i \in 0..n |-> IF i = 0 THEN 0 ELSE Add(Mul(x[i - 1], y[i - 1]), f[i - 1])]
  <2>1. \A i \in 0..n : i # 0 => i \in 1..n
    OBVIOUS
  <2>2. \A i \in 1..n : f[i] = Add(Mul(x[i - 1], y[i - 1]), f[i - 1])
    BY <1>2
  <2> QED BY <1>2, <2>1, <2>2
<1> DEFINE g == DotSums(x, y, n)
<1>4. g = [i \in 0..n |-> IF i = 0 THEN 0 ELSE Add(Mul(x[i - 1], y[i - 1]), g[i - 1])]
  BY <1>3, Zenon DEF DotSums
<1>5. Dot(x, y, n) = g[n]
  BY DEF Dot, DotSums
<1> HIDE DEF g
<1>6. g[0] = 0 /\ \A i \in Index(n) : g[i + 1] = Add(Mul(x[i], y[i]), g[i])
  <2>1. \A i \in Index(n) : i + 1 \in 0..n /\ i + 1 # 0 /\ (i + 1) - 1 = i
    BY DEF Index
  <2> QED BY <1>4, <2>1
<1>7. 0..n \subseteq {i \in 0..n : g[i] \in Symbol}
  <2> DEFINE P == {i \in 0..n : g[i] \in Symbol}
  <2>1. 0 \in P
    <3>1. 0 \in Symbol
      BY Laws
    <3> QED BY <1>6, <3>1
  <2>2. ASSUME NEW i \in 0..n - 1, i \in P PROVE i + 1 \in P
    <3>1. i \in Index(n) /\ i + 1 \in 0..n
      BY DEF Index
    <3>2. x[i] \in Symbol /\ y[i] \in Symbol /\ g[i] \in Symbol
      BY <2>2, <3>1 DEF Entries
    <3>3. Mul(x[i], y[i]) \in Symbol
      BY <3>2, Laws
    <3>4. Add(Mul(x[i], y[i]), g[i]) \in Symbol
      BY <3>2, <3>3, Laws
    <3> QED BY <1>6, <3>1, <3>4
  <2> HIDE DEF P
  <2>3. 0..n \subseteq P
    BY <2>1, <2>2, Induction
  <2> QED BY <2>3 DEF P
<1> QED BY <1>5, <1>6, <1>7 DEF g

\* The sum is linear in the coefficients.
LEMMA DotLinear ==
    ASSUME NEW n \in Nat, NEW w, NEW x, NEW y, NEW z, NEW a \in Symbol,
           Entries(w, n), Entries(x, n), Entries(y, n),
           \A k \in Index(n) : z[k] = Add(x[k], Mul(a, y[k]))
    PROVE  /\ Dot(w, x, n) \in Symbol /\ Dot(w, y, n) \in Symbol
           /\ Dot(w, z, n) = Add(Dot(w, x, n), Mul(a, Dot(w, y, n)))
<1> DEFINE X == DotSums(w, x, n)
           Y == DotSums(w, y, n)
           Z == DotSums(w, z, n)
           P == {i \in 0..n : Z[i] = Add(X[i], Mul(a, Y[i]))}
<1>1. Entries(z, n)
  <2> SUFFICES ASSUME NEW k \in Index(n) PROVE z[k] \in Symbol
    BY DEF Entries
  <2>1. x[k] \in Symbol /\ y[k] \in Symbol /\ z[k] = Add(x[k], Mul(a, y[k]))
    BY DEF Entries
  <2>2. Mul(a, y[k]) \in Symbol
    BY <2>1, Laws
  <2>3. Add(x[k], Mul(a, y[k])) \in Symbol
    BY <2>1, <2>2, Laws
  <2> QED BY <2>1, <2>3
<1>2. /\ Dot(w, x, n) = X[n] /\ X[0] = 0 /\ \A i \in 0..n : X[i] \in Symbol
      /\ \A i \in Index(n) : X[i + 1] = Add(Mul(w[i], x[i]), X[i])
  BY DotSteps
<1>3. /\ Dot(w, y, n) = Y[n] /\ Y[0] = 0 /\ \A i \in 0..n : Y[i] \in Symbol
      /\ \A i \in Index(n) : Y[i + 1] = Add(Mul(w[i], y[i]), Y[i])
  BY DotSteps
<1>4. /\ Dot(w, z, n) = Z[n] /\ Z[0] = 0
      /\ \A i \in Index(n) : Z[i + 1] = Add(Mul(w[i], z[i]), Z[i])
  BY <1>1, DotSteps
<1> HIDE DEF X, Y, Z
<1>5. 0 \in P
  <2>1. Add(0, Mul(a, 0)) = 0
    BY Zeros, Laws
  <2> QED BY <1>2, <1>3, <1>4, <2>1
<1>6. ASSUME NEW i \in 0..n - 1, i \in P PROVE i + 1 \in P
  <2>1. i \in Index(n) /\ i \in 0..n /\ i + 1 \in 0..n
    BY DEF Index
  <2> DEFINE wi == w[i]
             xi == x[i]
             yi == y[i]
             s == X[i]
             t == Y[i]
             p == Mul(wi, xi)
             q == Mul(wi, yi)
  <2>2. wi \in Symbol /\ xi \in Symbol /\ yi \in Symbol /\ s \in Symbol /\ t \in Symbol
    BY <1>2, <1>3, <2>1 DEF Entries
  <2>3. /\ X[i + 1] = Add(p, s) /\ Y[i + 1] = Add(q, t)
        /\ Z[i + 1] = Add(Mul(wi, Add(xi, Mul(a, yi))), Add(s, Mul(a, t)))
    BY <1>2, <1>3, <1>4, <1>6, <2>1
  <2> HIDE DEF wi, xi, yi, s, t
  <2>4. p \in Symbol /\ q \in Symbol /\ Mul(a, q) \in Symbol /\ Mul(a, t) \in Symbol
        /\ Mul(a, yi) \in Symbol
    BY <2>2, Laws
  <2>5. Mul(wi, Add(xi, Mul(a, yi))) = Add(p, Mul(a, q))
    <3>1. Mul(wi, Add(xi, Mul(a, yi))) = Add(p, Mul(wi, Mul(a, yi)))
      BY <2>2, <2>4, Distribute
    <3>2. Mul(Mul(wi, a), yi) = Mul(wi, Mul(a, yi)) /\ Mul(Mul(a, wi), yi) = Mul(a, q)
      BY <2>2, MulAssoc
    <3>3. Mul(wi, a) = Mul(a, wi)
      BY <2>2, Laws
    <3> QED BY <3>1, <3>2, <3>3
  <2> HIDE DEF p, q
  <2>6. Add(Add(p, Mul(a, q)), Add(s, Mul(a, t))) = Add(Add(p, s), Mul(a, Add(q, t)))
    <3>1. Mul(a, Add(q, t)) = Add(Mul(a, q), Mul(a, t))
      BY <2>2, <2>4, Distribute
    <3> DEFINE u == Mul(a, q)
               v == Mul(a, t)
    <3>2. u \in Symbol /\ v \in Symbol
      BY <2>4
    <3>3. Mul(a, Add(q, t)) = Add(u, v)
      BY <3>1
    <3> HIDE DEF u, v
    <3>4. Add(Add(p, u), Add(s, v)) = Add(p, Add(u, Add(s, v)))
      BY <2>2, <2>4, <3>2, AddAssoc, Laws
    <3>5. Add(Add(u, s), v) = Add(u, Add(s, v)) /\ Add(Add(s, u), v) = Add(s, Add(u, v))
      BY <2>2, <3>2, AddAssoc
    <3>6. Add(u, s) = Add(s, u)
      BY <2>2, <3>2, Laws
    <3>7. Add(p, Add(s, Add(u, v))) = Add(Add(p, s), Add(u, v))
      BY <2>2, <2>4, <3>2, AddAssoc, Laws
    <3>8. Add(Add(p, u), Add(s, v)) = Add(Add(p, s), Add(u, v))
      BY <3>4, <3>5, <3>6, <3>7
    <3> QED BY <3>3, <3>8 DEF u, v
  <2> QED BY <2>1, <2>3, <2>5, <2>6
<1>7. 0..n \subseteq P
  <2> HIDE DEF P
  <2> QED BY <1>5, <1>6, Induction
<1>8. n \in 0..n
  OBVIOUS
<1> QED BY <1>2, <1>3, <1>4, <1>7, <1>8

LEMMA DotSame ==
    ASSUME NEW n \in Nat, NEW w, NEW x, NEW y, Entries(w, n), Entries(x, n),
           \A k \in Index(n) : y[k] = x[k]
    PROVE  Dot(w, x, n) \in Symbol /\ Dot(w, y, n) = Dot(w, x, n)
<1>1. \A k \in Index(n) : y[k] = Add(x[k], Mul(0, x[k]))
  BY Zeros, Laws DEF Entries
<1>2. Dot(w, x, n) \in Symbol /\ Dot(w, y, n) = Add(Dot(w, x, n), Mul(0, Dot(w, x, n)))
  <2>1. 0 \in Symbol
    BY Laws
  <2> QED BY <1>1, <2>1, DotLinear
<1> QED BY <1>2, Zeros, Laws

LEMMA DotZero ==
    ASSUME NEW n \in Nat, NEW w, NEW z, Entries(w, n), \A k \in Index(n) : z[k] = 0
    PROVE  Dot(w, z, n) = 0
<1>1. Entries(z, n)
  BY Laws DEF Entries
<1>2. \A k \in Index(n) : z[k] = Add(z[k], Mul(Minus, z[k]))
  BY <1>1, AddMinus DEF Entries
<1>3. Dot(w, z, n) \in Symbol /\ Dot(w, z, n) = Add(Dot(w, z, n), Mul(Minus, Dot(w, z, n)))
  <2>1. Minus \in Symbol
    BY Laws
  <2> QED BY <1>1, <1>2, <2>1, DotLinear
<1> QED BY <1>3, AddMinus-----------------------------------------------------------------------------
(* Coded blocks as vectors of dimension n + 1.                             *)

Block(b, n) == b.coeffs \in Vector(n) /\ b.sums \in Symbol

\* The vectors whose last entry is the sum the others announce.
CodeSpace(w, n) == {x \in Vector(n + 1) : x[n] = Dot(w, x, n)}

\* The vectors whose first n entries are in W.
Lift(W, n) == {x \in Vector(n + 1) : [k \in Index(n) |-> x[k]] \in W}

LEMMA IndexNext ==
    ASSUME NEW n \in Nat
    PROVE  /\ Index(n + 1) = 0..n /\ n \in Index(n + 1) /\ n \notin Index(n)
           /\ \A k \in Index(n) : k \in Index(n + 1) /\ k < n
           /\ \A k \in Index(n + 1) : k \in Index(n) \/ k = n
  BY DEF Index

LEMMA CodeSpaceIs ==
    ASSUME NEW n \in Nat, NEW w, Entries(w, n)
    PROVE  IsSubspace(CodeSpace(w, n), n + 1)
<1>1. ASSUME NEW x \in Vector(n + 1)
      PROVE  Entries(x, n) /\ x[n] \in Symbol
  BY IndexNext DEF Vector, Entries
<1>2. ZeroVector(n + 1) \in CodeSpace(w, n)
  <2>1. /\ ZeroVector(n + 1) \in Vector(n + 1) /\ ZeroVector(n + 1)[n] = 0
        /\ \A k \in Index(n) : ZeroVector(n + 1)[k] = 0
    BY ZeroEntries, IndexNext
  <2>2. Dot(w, ZeroVector(n + 1), n) = 0
    BY <2>1, DotZero
  <2> QED BY <2>1, <2>2 DEF CodeSpace
<1>3. ASSUME NEW x \in CodeSpace(w, n), NEW y \in CodeSpace(w, n), NEW a \in Symbol
      PROVE  Comb(x, a, y, n + 1) \in CodeSpace(w, n)
  <2> DEFINE z == Comb(x, a, y, n + 1)
  <2>1. /\ x \in Vector(n + 1) /\ y \in Vector(n + 1)
        /\ x[n] = Dot(w, x, n) /\ y[n] = Dot(w, y, n)
    BY DEF CodeSpace
  <2>2. /\ z \in Vector(n + 1)
        /\ \A k \in Index(n + 1) : z[k] = Add(x[k], Mul(a, y[k]))
    BY <2>1, CombEntries
  <2> HIDE DEF z
  <2>3. \A k \in Index(n) : z[k] = Add(x[k], Mul(a, y[k]))
    BY <2>2, IndexNext
  <2>4. Dot(w, z, n) = Add(Dot(w, x, n), Mul(a, Dot(w, y, n)))
    BY <1>1, <2>1, <2>3, DotLinear
  <2>5. z[n] = Dot(w, z, n)
    BY <2>1, <2>2, <2>4, IndexNext
  <2> QED BY <2>2, <2>5 DEF CodeSpace, z
<1>4. CodeSpace(w, n) \in SUBSET Vector(n + 1)
  BY DEF CodeSpace
<1> QED BY <1>2, <1>3, <1>4 DEF IsSubspace

LEMMA LiftIs ==
    ASSUME NEW n \in Nat, NEW W, IsSubspace(W, n)
    PROVE  IsSubspace(Lift(W, n), n + 1)
<1>1. ZeroVector(n + 1) \in Lift(W, n)
  <2>1. [k \in Index(n) |-> ZeroVector(n + 1)[k]] = ZeroVector(n)
    BY ZeroEntries, IndexNext DEF ZeroVector
  <2> QED BY <2>1, ZeroEntries DEF Lift, IsSubspace
<1>2. ASSUME NEW x \in Lift(W, n), NEW y \in Lift(W, n), NEW a \in Symbol
      PROVE  Comb(x, a, y, n + 1) \in Lift(W, n)
  <2> DEFINE z == Comb(x, a, y, n + 1)
             x1 == [k \in Index(n) |-> x[k]]
             y1 == [k \in Index(n) |-> y[k]]
  <2>1. x \in Vector(n + 1) /\ y \in Vector(n + 1) /\ x1 \in W /\ y1 \in W
    BY DEF Lift
  <2>2. z \in Vector(n + 1)
    BY <2>1, CombEntries
  <2>3. [k \in Index(n) |-> z[k]] = Comb(x1, a, y1, n)
    BY IndexNext DEF Comb
  <2> HIDE DEF z, x1, y1
  <2>4. Comb(x1, a, y1, n) \in W
    BY <2>1 DEF IsSubspace
  <2> QED BY <2>2, <2>3, <2>4 DEF Lift, z
<1>3. Lift(W, n) \in SUBSET Vector(n + 1)
  BY DEF Lift
<1> QED BY <1>1, <1>2, <1>3 DEF IsSubspace

LEMMA AugmentedIs ==
    ASSUME NEW n \in Nat, NEW b, Block(b, n)
    PROVE  /\ Augmented(b, n) \in Vector(n + 1)
           /\ Augmented(b, n)[n] = b.sums
           /\ \A k \in Index(n) : Augmented(b, n)[k] = b.coeffs[k]
           /\ \A w : Entries(w, n) => (Augmented(b, n) \in CodeSpace(w, n) <=> Consistent(b, w, n))
           /\ \A W : Augmented(b, n) \in Lift(W, n) <=> b.coeffs \in W
<1> DEFINE v == Augmented(b, n)
<1>1. v = [k \in Index(n + 1) |-> IF k < n THEN b.coeffs[k] ELSE b.sums]
  BY IndexNext DEF Augmented
<1>2. b.coeffs \in Vector(n) /\ b.sums \in Symbol
  BY DEF Block
<1> HIDE DEF v
<1>3. v[n] = b.sums /\ \A k \in Index(n) : v[k] = b.coeffs[k]
  BY <1>1, IndexNext
<1>4. \A k \in Index(n) : b.coeffs[k] \in Symbol
  BY <1>2 DEF Vector
<1>5. \A k \in Index(n + 1) : v[k] \in Symbol
  BY <1>2, <1>3, <1>4, IndexNext
<1>6. v \in Vector(n + 1)
  BY <1>1, <1>5 DEF Vector
<1>7. ASSUME NEW w, Entries(w, n)
      PROVE  v \in CodeSpace(w, n) <=> Consistent(b, w, n)
  <2>1. Entries(b.coeffs, n)
    BY <1>4 DEF Entries
  <2>2. Dot(w, v, n) = Dot(w, b.coeffs, n)
    BY <1>3, <1>7, <2>1, DotSame
  <2> QED BY <1>3, <1>6, <2>2 DEF CodeSpace, Consistent
<1>8. [k \in Index(n) |-> v[k]] = b.coeffs
  BY <1>2, <1>3 DEF Vector
<1>9. \A W : v \in Lift(W, n) <=> b.coeffs \in W
  BY <1>6, <1>8 DEF Lift
<1> QED BY <1>3, <1>6, <1>7, <1>9 DEF v
-----------------------------------------------------------------------------
(* Re-encoding.                                                            *)

\* A buffer of coded blocks.
Blocks(buffer, n) == Len(buffer) \in Nat /\ \A i \in 1..Len(buffer) : Block(buffer[i], n)

Rands(buffer, rand) == \A i \in 1..Len(buffer) : rand[i] \in Symbol

\* The running sums of one column.
Column(buffer, rand, n, k) ==
    CHOOSE acc : acc = [i \in 0..Len(buffer) |->
        IF i = 0 THEN 0 ELSE Add(Mul(Augmented(buffer[i], n)[k], rand[i]), acc[i - 1])]

LEMMA ColumnSteps ==
    ASSUME NEW n \in Nat, NEW buffer, Blocks(buffer, n), NEW rand, Rands(buffer, rand),
           NEW k \in Index(n + 1)
    PROVE  /\ Column(buffer, rand, n, k)[0] = 0
           /\ \A i \in 1..Len(buffer) :
                Column(buffer, rand, n, k)[i]
                    = Add(Mul(Augmented(buffer[i], n)[k], rand[i]), Column(buffer, rand, n, k)[i - 1])
           /\ \A i \in 1..Len(buffer) : Augmented(buffer[i], n) \in Vector(n + 1)
           /\ \A i \in 0..Len(buffer) : Column(buffer, rand, n, k)[i] \in Symbol
<1> DEFINE L == Len(buffer)
           t == [i \in 1..L |-> Mul(Augmented(buffer[i], n)[k], rand[i])]
<1>1. L \in Nat /\ \A i \in 1..L : Block(buffer[i], n) /\ rand[i] \in Symbol
  BY DEF Blocks, Rands
<1>2. \A i \in 1..L : Augmented(buffer[i], n) \in Vector(n + 1)
  BY <1>1, AugmentedIs
<1>3. \A i \in 1..L : Augmented(buffer[i], n)[k] \in Symbol
  BY <1>2 DEF Vector
<1>4. t \in [1..L -> Symbol]
  BY <1>1, <1>3, Laws
<1>5. PICK f \in [0..L -> Symbol] : f[0] = 0 /\ \A i \in 1..L : f[i] = Add(t[i], f[i - 1])
  <2> HIDE DEF t, L
  <2> QED BY <1>1, <1>4, RunningSums
<1>6. f = [i \in 0..L |->
            IF i = 0 THEN 0 ELSE Add(Mul(Augmented(buffer[i], n)[k], rand[i]), f[i - 1])]
  <2>1. \A i \in 0..L : i # 0 => i \in 1..L
    BY <1>1
  <2>2. \A i \in 1..L : f[i] = Add(Mul(Augmented(buffer[i], n)[k], rand[i]), f[i - 1])
    BY <1>5
  <2> QED BY <1>5, <2>1, <2>2
<1> DEFINE g == Column(buffer, rand, n, k)
<1>7. g = [i \in 0..L |->
            IF i = 0 THEN 0 ELSE Add(Mul(Augmented(buffer[i], n)[k], rand[i]), g[i - 1])]
  BY <1>6, Zenon DEF Column
<1> HIDE DEF g, t, L
<1>8. g[0] = 0 /\ \A i \in 1..L : g[i] = Add(Mul(Augmented(buffer[i], n)[k], rand[i]), g[i - 1])
  <2>1. 0 \in 0..L /\ \A i \in 1..L : i \in 0..L /\ i # 0
    BY <1>1
  <2> QED BY <1>7, <2>1
<1>9. \A i \in 0..L : g[i] \in Symbol
  <2> DEFINE P == {i \in 0..L : g[i] \in Symbol}
  <2>1. 0 \in P
    <3>1. 0 \in Symbol
      BY Laws
    <3> QED BY <1>1, <1>8, <3>1
  <2>2. ASSUME NEW i \in 0..L - 1, i \in P PROVE i + 1 \in P
    <3>1. i + 1 \in 1..L /\ (i + 1) - 1 = i /\ i + 1 \in 0..L
      BY <1>1
    <3> DEFINE x == Augmented(buffer[i + 1], n)[k]
               y == rand[i + 1]
               s == g[i]
    <3>2. x \in Symbol /\ y \in Symbol /\ s \in Symbol
      BY <1>1, <1>3, <2>2, <3>1 DEF L
    <3>3. g[i + 1] = Add(Mul(x, y), s)
      BY <1>8, <3>1
    <3> HIDE DEF x, y, s
    <3>4. Mul(x, y) \in Symbol
      BY <3>2, Laws
    <3>5. Add(Mul(x, y), s) \in Symbol
      BY <3>2, <3>4, Laws
    <3> QED BY <3>1, <3>3, <3>5
  <2>3. 0..L \subseteq P
    <3> HIDE DEF P
    <3> QED BY <1>1, <2>1, <2>2, Induction
  <2> QED BY <2>3
<1> QED BY <1>2, <1>8, <1>9 DEF g, L

\* The combination of the first i blocks.
Mixed(buffer, rand, n, i) == [k \in Index(n + 1) |-> Column(buffer, rand, n, k)[i]]

LEMMA MixedSteps ==
    ASSUME NEW n \in Nat, NEW buffer, Blocks(buffer, n), NEW rand, Rands(buffer, rand)
    PROVE  /\ \A i \in 0..Len(buffer) : Mixed(buffer, rand, n, i) \in Vector(n + 1)
           /\ Mixed(buffer, rand, n, 0) = ZeroVector(n + 1)
           /\ \A i \in 1..Len(buffer) :
                /\ Augmented(buffer[i], n) \in Vector(n + 1)
                /\ Mixed(buffer, rand, n, i)
                    = Comb(Mixed(buffer, rand, n, i - 1), rand[i], Augmented(buffer[i], n), n + 1)
           /\ Block(ReEncodeBlock(buffer, rand, n), n)
           /\ Augmented(ReEncodeBlock(buffer, rand, n), n) = Mixed(buffer, rand, n, Len(buffer))
<1> DEFINE L == Len(buffer)
           C(k) == Column(buffer, rand, n, k)
           X(i) == Mixed(buffer, rand, n, i)
           A(i) == Augmented(buffer[i], n)
<1>1. L \in Nat /\ 0 \in 0..L /\ L \in 0..L /\ \A i \in 1..L : i \in 0..L /\ i - 1 \in 0..L
  BY DEF Blocks
<1>2. ASSUME NEW k \in Index(n + 1)
      PROVE  /\ C(k)[0] = 0
             /\ \A i \in 1..L : C(k)[i] = Add(Mul(A(i)[k], rand[i]), C(k)[i - 1])
             /\ \A i \in 1..L : A(i) \in Vector(n + 1)
             /\ \A i \in 0..L : C(k)[i] \in Symbol
  BY ColumnSteps
<1>3. ASSUME NEW i \in 0..L
      PROVE  X(i) \in Vector(n + 1) /\ \A k \in Index(n + 1) : X(i)[k] = C(k)[i]
  BY <1>2 DEF Mixed, Vector
<1>4. X(0) = ZeroVector(n + 1)
  <2>1. \A k \in Index(n + 1) : X(0)[k] = ZeroVector(n + 1)[k]
    BY <1>1, <1>2, <1>3, ZeroEntries
  <2>2. X(0) \in Vector(n + 1) /\ ZeroVector(n + 1) \in Vector(n + 1)
    BY <1>1, <1>3, ZeroEntries
  <2> HIDE DEF X
  <2> QED BY <2>1, <2>2, SameVector
<1>5. ASSUME NEW i \in 1..L
      PROVE  A(i) \in Vector(n + 1) /\ X(i) = Comb(X(i - 1), rand[i], A(i), n + 1)
  <2>1. A(i) \in Vector(n + 1) /\ rand[i] \in Symbol
    BY AugmentedIs DEF Blocks, Rands
  <2>2. X(i) \in Vector(n + 1) /\ X(i - 1) \in Vector(n + 1)
    BY <1>1, <1>3
  <2>3. Comb(X(i - 1), rand[i], A(i), n + 1) \in Vector(n + 1)
    <3> HIDE DEF X, A
    <3> QED BY <2>1, <2>2, CombEntries
  <2>4. ASSUME NEW k \in Index(n + 1)
        PROVE  X(i)[k] = Comb(X(i - 1), rand[i], A(i), n + 1)[k]
    <3> DEFINE p == Mul(A(i)[k], rand[i])
               q == C(k)[i - 1]
    <3>1. A(i)[k] \in Symbol
      BY <2>1 DEF Vector
    <3>2. p \in Symbol /\ p = Mul(rand[i], A(i)[k])
      BY <2>1, <3>1, Laws
    <3>3. q \in Symbol
      BY <1>1, <1>2
    <3>4. Comb(X(i - 1), rand[i], A(i), n + 1)[k] = Add(X(i - 1)[k], Mul(rand[i], A(i)[k]))
      BY DEF Comb
    <3>5. X(i - 1)[k] = q /\ X(i)[k] = C(k)[i]
      BY <1>1, <1>3
    <3>6. C(k)[i] = Add(p, q)
      BY <1>2
    <3> HIDE DEF X, A, C, p, q
    <3>7. Add(p, q) = Add(q, p)
      BY <3>2, <3>3, Laws
    <3> QED BY <3>2, <3>4, <3>5, <3>6, <3>7
  <2> HIDE DEF X, A
  <2> QED BY <2>1, <2>2, <2>3, <2>4, SameVector
<1> DEFINE b == ReEncodeBlock(buffer, rand, n)
<1>6. b = [coeffs |-> [k \in Index(n) |-> C(k)[L]], sums |-> C(n)[L]]
  BY DEF ReEncodeBlock, Column
<1>7. \A k \in Index(n + 1) : C(k)[L] \in Symbol
  BY <1>1, <1>2
<1> HIDE DEF b, C
<1>8. Block(b, n)
  <2>1. [k \in Index(n) |-> C(k)[L]] \in Vector(n)
    BY <1>7, IndexNext DEF Vector
  <2> QED BY <1>6, <1>7, <2>1, IndexNext DEF Block
<1>9. Augmented(b, n) = X(L)
  <2>1. /\ Augmented(b, n) \in Vector(n + 1) /\ Augmented(b, n)[n] = b.sums
        /\ \A k \in Index(n) : Augmented(b, n)[k] = b.coeffs[k]
    BY <1>8, AugmentedIs
  <2>2. X(L) \in Vector(n + 1) /\ \A k \in Index(n + 1) : X(L)[k] = C(k)[L]
    BY <1>1, <1>3
  <2>3. \A k \in Index(n + 1) : Augmented(b, n)[k] = X(L)[k]
    BY <1>6, <2>1, <2>2, IndexNext
  <2> HIDE DEF X
  <2> QED BY <2>1, <2>2, <2>3, SameVector
<1> QED BY <1>3, <1>4, <1>5, <1>8, <1>9 DEF b

\* A combination stays in every subspace that holds the blocks.
LEMMA MixedInSpace ==
    ASSUME NEW n \in Nat, NEW buffer, Blocks(buffer, n), NEW rand, Rands(buffer, rand),
           NEW W, IsSubspace(W, n + 1), NEW j \in 0..Len(buffer),
           \A i \in 1..j : Augmented(buffer[i], n) \in W
    PROVE  Mixed(buffer, rand, n, j) \in W
<1> DEFINE X(i) == Mixed(buffer, rand, n, i)
           P == {i \in 0..j : X(i) \in W}
<1>1. Len(buffer) \in Nat /\ j \in Nat
  BY DEF Blocks
<1>2. X(0) = ZeroVector(n + 1)
  BY MixedSteps
<1>3. ASSUME NEW i \in 1..Len(buffer)
      PROVE  X(i) = Comb(X(i - 1), rand[i], Augmented(buffer[i], n), n + 1)
  BY MixedSteps
<1> HIDE DEF X
<1>4. 0 \in P
  BY <1>1, <1>2 DEF IsSubspace
<1>5. ASSUME NEW i \in 0..j - 1, i \in P PROVE i + 1 \in P
  <2>1. i + 1 \in 1..Len(buffer) /\ i + 1 \in 1..j /\ (i + 1) - 1 = i /\ i + 1 \in 0..j
    BY <1>1
  <2>2. X(i + 1) = Comb(X(i), rand[i + 1], Augmented(buffer[i + 1], n), n + 1)
    BY <1>3, <2>1
  <2>3. rand[i + 1] \in Symbol /\ Augmented(buffer[i + 1], n) \in W /\ X(i) \in W
    BY <1>5, <2>1 DEF Rands
  <2> QED BY <2>1, <2>2, <2>3 DEF IsSubspace
<1>6. 0..j \subseteq P
  <2> HIDE DEF P
  <2> QED BY <1>1, <1>4, <1>5, Induction
<1>7. j \in P
  BY <1>1, <1>6
<1> QED BY <1>7 DEF X
\* The coefficient vectors of a buffer.
Coeffs(buffer) == [i \in 1..Len(buffer) |-> buffer[i].coeffs]

LEMMA PrefixSpan ==
    ASSUME NEW n \in Nat, NEW buffer, Blocks(buffer, n), NEW i \in 1..Len(buffer)
    PROVE  /\ IsSubspace(SpanSeq(SubSeq(Coeffs(buffer), 1, i - 1), n), n)
           /\ \A j \in 1..i - 1 : buffer[j].coeffs \in SpanSeq(SubSeq(Coeffs(buffer), 1, i - 1), n)
           /\ Len(Coeffs(buffer)) = Len(buffer) /\ Coeffs(buffer)[i] = buffer[i].coeffs
<1> DEFINE s == Coeffs(buffer)
           V == Vector(n)
           p == SubSeq(s, 1, i - 1)
<1>1. Len(buffer) \in Nat /\ \A j \in 1..Len(buffer) : s[j] = buffer[j].coeffs /\ s[j] \in V
  BY DEF Coeffs, Blocks, Block
<1>2. s \in Seq(V) /\ Len(s) = Len(buffer)
  <2>1. s \in [1..Len(buffer) -> V]
    BY <1>1 DEF Coeffs
  <2>2. s \in Seq(V) /\ DOMAIN s = 1..Len(buffer)
    <3> HIDE DEF s, V
    <3> QED BY <1>1, <2>1, SeqDef
  <2>3. Len(s) \in Nat /\ DOMAIN s = 1..Len(s)
    <3> HIDE DEF s, V
    <3> QED BY <2>2, LenProperties
  <2> HIDE DEF s
  <2> QED BY <1>1, <2>2, <2>3
<1>3. \A j \in 1..i - 1 : j \in 1..Len(s) /\ s[j] \in V
  <2> HIDE DEF s, V
  <2> QED BY <1>1, <1>2
<1>4. /\ Len(p) = i - 1 /\ i - 1 \in Nat
      /\ \A j \in 1..i - 1 : p[j] = s[j]
  <2> HIDE DEF s, V
  <2>1. /\ Len(p) = IF 1 <= i - 1 THEN (i - 1) - 1 + 1 ELSE 0
        /\ \A j \in 1..(i - 1) - 1 + 1 : p[j] = s[1 + j - 1]
    BY <1>1, <1>2, <1>3, SubSeqProperties
  <2>2. i - 1 \in Nat /\ (i - 1) - 1 + 1 = i - 1 /\ Len(p) = i - 1
    BY <1>1, <2>1
  <2>3. \A j \in 1..i - 1 : 1 + j - 1 = j
    OBVIOUS
  <2> HIDE DEF p
  <2> QED BY <2>1, <2>2, <2>3
<1> HIDE DEF p, s, V
<1>5. Vectors(p, n)
  BY <1>3, <1>4 DEF Vectors, V
<1>6. IsSubspace(SpanSeq(p, n), n) /\ \A j \in 1..i - 1 : s[j] \in SpanSeq(p, n)
  BY <1>4, <1>5, SpanIs
<1>7. \A j \in 1..i - 1 : j \in 1..Len(buffer)
  BY <1>2, <1>3
<1> QED BY <1>1, <1>2, <1>6, <1>7 DEF p, s

\* A re-encoded block carries the sum its coefficients announce, is in the span
\* of what was combined, and is not zero if the blocks were independent and
\* there was at least one.
THEOREM ReEncodeSound ==
    ASSUME NEW n \in Nat, NEW buffer, Blocks(buffer, n), NEW rand, Rands(buffer, rand)
    PROVE  LET block == ReEncodeBlock(buffer, rand, n)
           IN  /\ block.coeffs \in Vector(n) /\ block.sums \in Symbol
               /\ \A w : /\ Entries(w, n)
                         /\ \A i \in 1..Len(buffer) : Consistent(buffer[i], w, n)
                         => Consistent(block, w, n)
               /\ \A W : /\ IsSubspace(W, n)
                         /\ \A i \in 1..Len(buffer) : buffer[i].coeffs \in W
                         => block.coeffs \in W
               /\ /\ CanReEncode(buffer)
                  /\ \A i \in 1..Len(buffer) : rand[i] # 0
                  /\ Independent(Coeffs(buffer), n)
                  => block.coeffs # ZeroVector(n)
<1> DEFINE L == Len(buffer)
           X(i) == Mixed(buffer, rand, n, i)
           A(i) == Augmented(buffer[i], n)
           b == ReEncodeBlock(buffer, rand, n)
<1>1. /\ X(L) = Augmented(b, n) /\ Block(b, n)
      /\ \A i \in 0..L : X(i) \in Vector(n + 1)
      /\ \A i \in 1..L : A(i) \in Vector(n + 1) /\ X(i) = Comb(X(i - 1), rand[i], A(i), n + 1)
  BY MixedSteps
<1>2. L \in Nat /\ L \in 0..L /\ \A i \in 1..L : Block(buffer[i], n) /\ i - 1 \in 0..L
  BY DEF Blocks
<1>3. ASSUME NEW j \in 0..L, NEW W, IsSubspace(W, n + 1), \A i \in 1..j : A(i) \in W
      PROVE  X(j) \in W
  BY <1>3, MixedInSpace
<1> HIDE DEF b, X
<1>4. ASSUME NEW w, Entries(w, n), \A i \in 1..L : Consistent(buffer[i], w, n)
      PROVE  Consistent(b, w, n)
  <2>1. IsSubspace(CodeSpace(w, n), n + 1)
    BY <1>4, CodeSpaceIs
  <2>2. \A i \in 1..L : A(i) \in CodeSpace(w, n)
    BY <1>2, <1>4, AugmentedIs
  <2>3. X(L) \in CodeSpace(w, n)
    BY <1>2, <1>3, <2>1, <2>2
  <2> QED BY <1>1, <1>4, <2>3, AugmentedIs
<1>5. ASSUME NEW W, IsSubspace(W, n), \A i \in 1..L : buffer[i].coeffs \in W
      PROVE  b.coeffs \in W
  <2>1. IsSubspace(Lift(W, n), n + 1)
    BY <1>5, LiftIs
  <2>2. \A i \in 1..L : A(i) \in Lift(W, n)
    BY <1>2, <1>5, AugmentedIs
  <2>3. X(L) \in Lift(W, n)
    BY <1>2, <1>3, <2>1, <2>2
  <2> QED BY <1>1, <2>3, AugmentedIs
<1>6. ASSUME L > 0, \A i \in 1..L : rand[i] # 0, Independent(Coeffs(buffer), n)
      PROVE  b.coeffs # ZeroVector(n)
  <2>1. L \in 1..L /\ L - 1 \in 0..L /\ \A i \in 1..L - 1 : i \in 1..L
    BY <1>2, <1>6
  <2> DEFINE W == SpanSeq(SubSeq(Coeffs(buffer), 1, L - 1), n)
  <2>2. /\ IsSubspace(W, n) /\ \A i \in 1..L - 1 : buffer[i].coeffs \in W
        /\ Len(Coeffs(buffer)) = L /\ Coeffs(buffer)[L] = buffer[L].coeffs
    BY <2>1, PrefixSpan
  <2>3. buffer[L].coeffs \notin W
    BY <1>6, <2>1, <2>2 DEF Independent
  <2> HIDE DEF W
  <2>4. IsSubspace(Lift(W, n), n + 1)
    BY <2>2, LiftIs
  <2>5. \A i \in 1..L - 1 : A(i) \in Lift(W, n)
    BY <1>2, <2>1, <2>2, AugmentedIs
  <2>6. X(L - 1) \in Lift(W, n)
    BY <1>3, <2>1, <2>4, <2>5
  <2>7. A(L) \notin Lift(W, n)
    BY <1>2, <2>1, <2>3, AugmentedIs
  <2>8. X(L) \notin Lift(W, n)
    <3> DEFINE x == X(L - 1)
               y == A(L)
               a == rand[L]
    <3>1. X(L) = Comb(x, a, y, n + 1) /\ x \in Lift(W, n) /\ y \in Vector(n + 1) /\ y \notin Lift(W, n)
      BY <1>1, <2>1, <2>6, <2>7
    <3>2. a \in Symbol /\ a # 0
      BY <1>6, <2>1 DEF Rands
    <3> HIDE DEF x, y, a
    <3>3. Comb(x, a, y, n + 1) \in Lift(W, n) => y \in Lift(W, n)
      BY <2>4, <3>1, <3>2, SubspaceSolved
    <3> QED BY <3>1, <3>3
  <2>9. b.coeffs \notin W
    BY <1>1, <2>8, AugmentedIs
  <2>10. ZeroVector(n) \in W
    BY <2>2 DEF IsSubspace
  <2> QED BY <2>9, <2>10
<1>7. b.coeffs \in Vector(n) /\ b.sums \in Symbol
  BY <1>1 DEF Block
<1>8. CanReEncode(buffer) => L > 0
  BY DEF CanReEncode
<1> HIDE DEF L
<1>9. /\ CanReEncode(buffer)
      /\ \A i \in 1..L : rand[i] # 0
      /\ Independent(Coeffs(buffer), n)
      => b.coeffs # ZeroVector(n)
  BY <1>6, <1>8
<1> QED BY <1>4, <1>5, <1>7, <1>9 DEF b, L
-----------------------------------------------------------------------------
(* Decoding: the elimination.                                              *)

Reduced(m, vec, n) == IF Innovative(m, vec, n) THEN InsertRow(m, vec, n) ELSE m

\* m_upper after each block.
Uppers(buffer, n) ==
    CHOOSE upper : upper = [j \in 0..n |->
        IF j = 0 THEN [i \in Index(n) |-> [k \in 0..n |-> 0]]
        ELSE Reduced(upper[j - 1], Augmented(buffer[j], n), n)]

LEMMA UpperSteps ==
    ASSUME NEW n \in Nat, NEW buffer, Blocks(buffer, n), Len(buffer) = n
    PROVE  /\ UpperMatrix(buffer, n) = Uppers(buffer, n)[n]
           /\ Uppers(buffer, n)[0] = [i \in Index(n) |-> ZeroVector(n + 1)]
           /\ \A j \in 1..n :
                Uppers(buffer, n)[j] = Reduced(Uppers(buffer, n)[j - 1], Augmented(buffer[j], n), n)
<1> DEFINE S == {m \in [Index(n) -> Vector(n + 1)] : Echelon(m, n, n + 1)}
           base == [i \in Index(n) |-> [k \in 0..n |-> 0]]
           step == [j \in 1..n |-> [m \in S |-> Reduced(m, Augmented(buffer[j], n), n)]]
<1>1. base = [i \in Index(n) |-> ZeroVector(n + 1)]
  BY IndexNext DEF ZeroVector
<1>2. base \in S
  <2>1. n + 1 \in Nat /\ n <= n + 1
    OBVIOUS
  <2> HIDE DEF base
  <2>2. Echelon(base, n, n + 1)
    BY <1>1, <2>1, ZeroRows
  <2> QED BY <2>2 DEF Echelon
<1>3. step \in Steps(n, S)
  <2> SUFFICES ASSUME NEW j \in 1..n, NEW m \in S
               PROVE  Reduced(m, Augmented(buffer[j], n), n) \in S
    BY DEF Steps
  <2>1. Augmented(buffer[j], n) \in Vector(n + 1)
    BY AugmentedIs DEF Blocks
  <2>2. Echelon(m, n, n + 1)
    OBVIOUS
  <2>3. CASE Innovative(m, Augmented(buffer[j], n), n)
    <3>1. Echelon(InsertRow(m, Augmented(buffer[j], n), n), n, n + 1)
      BY <2>1, <2>2, <2>3, InsertIs
    <3>2. Reduced(m, Augmented(buffer[j], n), n) = InsertRow(m, Augmented(buffer[j], n), n)
      BY <2>3 DEF Reduced
    <3>3. InsertRow(m, Augmented(buffer[j], n), n) \in [Index(n) -> Vector(n + 1)]
      BY <3>1 DEF Echelon
    <3> QED BY <3>1, <3>2, <3>3
  <2>4. CASE ~Innovative(m, Augmented(buffer[j], n), n)
    BY <2>4 DEF Reduced
  <2> QED BY <2>3, <2>4
<1>4. PICK f : Solves(f, n, S, base, step)
  <2> HIDE DEF step, base, S
  <2> QED BY <1>2, <1>3, Recursion
<1>5. f = [j \in 0..n |-> IF j = 0 THEN base ELSE Reduced(f[j - 1], Augmented(buffer[j], n), n)]
  <2>1. ASSUME NEW j \in 0..n, j # 0
        PROVE  f[j] = Reduced(f[j - 1], Augmented(buffer[j], n), n)
    <3>1. j \in 1..n /\ j - 1 \in 0..n
      BY <2>1
    <3>2. f[j - 1] \in S /\ f[j] = step[j][f[j - 1]]
      BY <1>4, <3>1 DEF Solves
    <3> HIDE DEF S
    <3> QED BY <3>1, <3>2
  <2> HIDE DEF base, step, S
  <2> QED BY <1>4, <2>1 DEF Solves
<1> DEFINE U == Uppers(buffer, n)
<1>6. U = [j \in 0..n |-> IF j = 0 THEN base ELSE Reduced(U[j - 1], Augmented(buffer[j], n), n)]
  BY <1>5, Zenon DEF Uppers
<1>7. UpperMatrix(buffer, n) = U[n]
  BY DEF UpperMatrix, Uppers, Reduced
<1> HIDE DEF U, base, step, S
<1>8. 0 \in 0..n /\ \A j \in 1..n : j \in 0..n /\ j # 0
  OBVIOUS
<1> QED BY <1>1, <1>6, <1>7, <1>8 DEF U

\* Whatever the blocks are, the matrix has the shape back substitution assumes.
LEMMA UpperEchelon ==
    ASSUME NEW n \in Nat, NEW buffer, Blocks(buffer, n), Len(buffer) = n
    PROVE  Echelon(UpperMatrix(buffer, n), n, n + 1)
<1> DEFINE U == Uppers(buffer, n)
           A(i) == Augmented(buffer[i], n)
           P == {j \in 0..n : Echelon(U[j], n, n + 1)}
<1>1. /\ UpperMatrix(buffer, n) = U[n]
      /\ U[0] = [i \in Index(n) |-> ZeroVector(n + 1)]
      /\ \A j \in 1..n : U[j] = Reduced(U[j - 1], A(j), n)
  BY UpperSteps
<1>2. \A i \in 1..n : A(i) \in Vector(n + 1)
  BY AugmentedIs DEF Blocks
<1> HIDE DEF U, A
<1>3. 0 \in P
  <2>1. n + 1 \in Nat /\ n <= n + 1 /\ 0 \in 0..n
    OBVIOUS
  <2> QED BY <1>1, <2>1, ZeroRows
<1>4. ASSUME NEW j \in 0..n - 1, j \in P PROVE j + 1 \in P
  <2>1. j + 1 \in 1..n /\ (j + 1) - 1 = j /\ j + 1 \in 0..n
    OBVIOUS
  <2>2. U[j + 1] = Reduced(U[j], A(j + 1), n) /\ A(j + 1) \in Vector(n + 1)
    BY <1>1, <1>2, <2>1
  <2>3. Echelon(U[j], n, n + 1)
    BY <1>4
  <2>4. Echelon(U[j + 1], n, n + 1)
    <3>1. CASE Innovative(U[j], A(j + 1), n)
      BY <2>2, <2>3, <3>1, InsertIs DEF Reduced
    <3>2. CASE ~Innovative(U[j], A(j + 1), n)
      BY <2>2, <2>3, <3>2 DEF Reduced
    <3> QED BY <3>1, <3>2
  <2> QED BY <2>1, <2>4
<1>5. 0..n \subseteq P
  <2> HIDE DEF P
  <2> QED BY <1>3, <1>4, Induction
<1>6. n \in 0..n
  OBVIOUS
<1> QED BY <1>1, <1>5, <1>6

\* Of independent blocks each one fills a row, though the test looks at the
\* sum as well: a block that is left with only a sum would announce it.
LEMMA UpperIs ==
    ASSUME NEW n \in Nat, NEW buffer, Blocks(buffer, n), Len(buffer) = n,
           NEW w, Entries(w, n), \A i \in 1..n : Consistent(buffer[i], w, n),
           Independent(Coeffs(buffer), n)
    PROVE  LET m == UpperMatrix(buffer, n)
           IN  /\ Echelon(m, n, n + 1)
               /\ \A i \in Index(n) : m[i][i] # 0 /\ m[i] \in CodeSpace(w, n)
<1> DEFINE U == Uppers(buffer, n)
           A(i) == Augmented(buffer[i], n)
           Good(j) == /\ Echelon(U[j], n, n + 1)
                      /\ Cardinality(Diagonal(U[j], n)) = j
                      /\ \A W : IsSubspace(W, n + 1) =>
                           ((\A i \in Index(n) : U[j][i] \in W) <=> (\A i \in 1..j : A(i) \in W))
           P == {j \in 0..n : Good(j)}
<1>1. /\ UpperMatrix(buffer, n) = U[n]
      /\ U[0] = [i \in Index(n) |-> ZeroVector(n + 1)]
      /\ \A j \in 1..n : U[j] = Reduced(U[j - 1], A(j), n)
  BY UpperSteps
<1>2. IsSubspace(CodeSpace(w, n), n + 1)
  BY CodeSpaceIs
<1>3. \A i \in 1..n : Block(buffer[i], n) /\ A(i) \in Vector(n + 1) /\ A(i) \in CodeSpace(w, n)
  <2>1. \A i \in 1..n : Block(buffer[i], n)
    BY DEF Blocks
  <2> QED BY <2>1, AugmentedIs
<1> HIDE DEF U
<1>4. 0 \in P
  <2>1. n + 1 \in Nat /\ n <= n + 1
    OBVIOUS
  <2>2. Echelon(U[0], n, n + 1) /\ Diagonal(U[0], n) = {}
    BY <1>1, <2>1, ZeroRows
  <2>3. Cardinality(Diagonal(U[0], n)) = 0
    BY <2>2, FS_EmptySet
  <2>4. ASSUME NEW W, IsSubspace(W, n + 1)
        PROVE  \A i \in Index(n) : U[0][i] \in W
    BY <1>1, <2>4 DEF IsSubspace
  <2>5. ASSUME NEW W, IsSubspace(W, n + 1)
        PROVE  (\A i \in Index(n) : U[0][i] \in W) <=> (\A i \in 1..0 : A(i) \in W)
    <3>1. \A i \in 1..0 : A(i) \in W
      OBVIOUS
    <3> QED BY <2>4, <2>5, <3>1
  <2>6. Good(0)
    BY <2>2, <2>3, <2>5
  <2>7. 0 \in 0..n
    OBVIOUS
  <2> HIDE DEF Good
  <2> QED BY <2>6, <2>7
<1>5. ASSUME NEW j \in 0..n - 1, j \in P PROVE j + 1 \in P
  <2> DEFINE m == U[j]
             v == A(j + 1)
  <2>1. j + 1 \in 1..n /\ (j + 1) - 1 = j /\ j + 1 \in 0..n /\ n \in 0..n
        /\ \A i \in 1..j : i \in 1..n
    OBVIOUS
  <2>2. U[j + 1] = Reduced(m, v, n)
    BY <1>1, <2>1
  <2>3. /\ Echelon(m, n, n + 1) /\ Cardinality(Diagonal(m, n)) = j
        /\ \A W : IsSubspace(W, n + 1) =>
             ((\A i \in Index(n) : m[i] \in W) <=> (\A i \in 1..j : A(i) \in W))
    BY <1>5
  <2>4. v \in Vector(n + 1) /\ v \in CodeSpace(w, n)
    BY <1>3, <2>1
  <2> HIDE DEF m, P
  <2>5. Innovative(m, v, n)
    <3> SUFFICES ASSUME ~Innovative(m, v, n) PROVE FALSE
      OBVIOUS
    <3> HIDE DEF v
    <3> DEFINE e == Eliminated(m, v, n)[n]
    <3>1. e \in Vector(n + 1)
      <4>1. Eliminated(m, v, n) \in [0..n -> Vector(n + 1)]
        BY <2>3, <2>4, EliminatedIs
      <4> QED BY <2>1, <4>1
    <3>2. \A k \in Index(n) : e[k] = 0
      <4>1. FoundColumns(m, v, n) = {}
        BY DEF Innovative
      <4>2. \A k \in Index(n + 1) : k < n => e[k] = 0
        BY <2>1, <2>3, <2>4, <4>1, EliminatedZeros
      <4> QED BY <4>2, IndexNext
    <3>3. ASSUME NEW W, IsSubspace(W, n + 1), \A i \in 1..j : A(i) \in W
          PROVE  v \in W <=> e \in W
      <4>1. \A i \in Index(n) : m[i] \in W
        BY <2>3, <3>3
      <4> QED BY <2>1, <2>3, <2>4, <3>3, <4>1, EliminatedInSpace
    <3> HIDE DEF e
    <3>4. e \in CodeSpace(w, n)
      <4>1. \A i \in 1..j : A(i) \in CodeSpace(w, n)
        BY <1>3, <2>1
      <4> QED BY <1>2, <2>4, <3>3, <4>1
    <3>5. e[n] = 0
      <4>1. e[n] = Dot(w, e, n)
        BY <3>4 DEF CodeSpace
      <4>2. Dot(w, e, n) = 0
        BY <3>2, DotZero
      <4> QED BY <4>1, <4>2
    <3>6. e = ZeroVector(n + 1)
      <4>1. ZeroVector(n + 1) \in Vector(n + 1) /\ \A k \in Index(n + 1) : ZeroVector(n + 1)[k] = 0
        BY ZeroEntries
      <4>2. \A k \in Index(n + 1) : e[k] = 0
        BY <3>2, <3>5, IndexNext
      <4>3. \A k \in Index(n + 1) : e[k] = ZeroVector(n + 1)[k]
        BY <4>1, <4>2
      <4> QED BY <3>1, <4>1, <4>3, SameVector
    <3> DEFINE W == SpanSeq(SubSeq(Coeffs(buffer), 1, (j + 1) - 1), n)
    <3>7. /\ IsSubspace(W, n) /\ \A i \in 1..j : buffer[i].coeffs \in W
          /\ Len(Coeffs(buffer)) = n /\ Coeffs(buffer)[j + 1] = buffer[j + 1].coeffs
      BY <2>1, PrefixSpan
    <3>8. buffer[j + 1].coeffs \notin W
      BY <2>1, <3>7 DEF Independent
    <3> HIDE DEF W
    <3>9. IsSubspace(Lift(W, n), n + 1)
      BY <3>7, LiftIs
    <3>10. \A i \in 1..j : A(i) \in Lift(W, n)
      BY <1>3, <2>1, <3>7, AugmentedIs
    <3>11. e \in Lift(W, n)
      BY <3>6, <3>9 DEF IsSubspace
    <3>12. v \in Lift(W, n)
      BY <3>3, <3>9, <3>10, <3>11
    <3>13. buffer[j + 1].coeffs \in W
      BY <1>3, <2>1, <3>12, AugmentedIs DEF v
    <3> QED BY <3>8, <3>13
  <2>6. U[j + 1] = InsertRow(m, v, n)
    BY <2>2, <2>5 DEF Reduced
  <2> HIDE DEF v
  <2>7. /\ Echelon(U[j + 1], n, n + 1)
        /\ Cardinality(Diagonal(U[j + 1], n)) = Cardinality(Diagonal(m, n)) + 1
        /\ \A W : IsSubspace(W, n + 1) =>
             ((\A i \in Index(n) : U[j + 1][i] \in W) <=> (\A i \in Index(n) : m[i] \in W) /\ v \in W)
    BY <2>3, <2>4, <2>5, <2>6, InsertIs
  <2>8. ASSUME NEW W, IsSubspace(W, n + 1)
        PROVE  (\A i \in Index(n) : U[j + 1][i] \in W) <=> (\A i \in 1..j + 1 : A(i) \in W)
    <3>1. (\A i \in Index(n) : U[j + 1][i] \in W) <=> (\A i \in Index(n) : m[i] \in W) /\ v \in W
      BY <2>7, <2>8
    <3>2. (\A i \in Index(n) : m[i] \in W) <=> (\A i \in 1..j : A(i) \in W)
      BY <2>3, <2>8
    <3>3. (\A i \in 1..j + 1 : A(i) \in W) <=> (\A i \in 1..j : A(i) \in W) /\ v \in W
      <4>1. \A i : i \in 1..j + 1 <=> i \in 1..j \/ i = j + 1
        OBVIOUS
      <4> HIDE DEF A
      <4> QED BY <4>1 DEF v
    <3> QED BY <3>1, <3>2, <3>3
  <2>9. Cardinality(Diagonal(U[j + 1], n)) = j + 1
    BY <2>3, <2>7
  <2>10. Good(j + 1)
    BY <2>7, <2>8, <2>9
  <2> HIDE DEF Good
  <2> QED BY <2>1, <2>10 DEF P
<1>6. 0..n \subseteq P
  <2> HIDE DEF P
  <2> QED BY <1>4, <1>5, Induction
<1>7. Good(n)
  BY <1>6
<1>8. Diagonal(U[n], n) = Index(n)
  BY <1>7, DiagonalIs
<1>9. \A i \in Index(n) : U[n][i][i] # 0
  BY <1>8 DEF Diagonal
<1>10. \A i \in Index(n) : U[n][i] \in CodeSpace(w, n)
  BY <1>2, <1>3, <1>7
<1> QED BY <1>1, <1>7, <1>9, <1>10
-----------------------------------------------------------------------------
(* Decoding: the substitution, from the last row to the first.             *)

\* The running sums of one row.
Tmp(m, sol, n, row) ==
    CHOOSE tmp : tmp = [k \in row + 1..n |->
        IF k = n THEN 0 ELSE Add(tmp[k + 1], Mul(m[row][k], sol[k]))]

LEMMA TmpSteps ==
    ASSUME NEW n \in Nat, NEW m, NEW sol \in Vector(n), NEW row \in Index(n), Entries(m[row], n)
    PROVE  LET T == Tmp(m, sol, n, row)
           IN  /\ T[n] = 0
               /\ \A k \in row + 1..n - 1 : T[k] = Add(T[k + 1], Mul(m[row][k], sol[k]))
               /\ \A k \in row + 1..n : T[k] \in Symbol
<1> DEFINE L == n - (row + 1)
           p(k) == Mul(m[row][k], sol[k])
           t == [i \in 1..L |-> p(n - i)]
<1>1. row \in 0..n - 1 /\ L \in Nat
  BY DEF Index
<1>2. ASSUME NEW k \in row + 1..n - 1
      PROVE  p(k) \in Symbol
  <2>1. k \in Index(n)
    BY <1>1 DEF Index
  <2>2. m[row][k] \in Symbol /\ sol[k] \in Symbol
    BY <2>1 DEF Entries, Vector
  <2> QED BY <2>2, Laws
<1>3. t \in [1..L -> Symbol]
  <2>1. \A i \in 1..L : n - i \in row + 1..n - 1
    BY <1>1
  <2> HIDE DEF p
  <2> QED BY <1>2, <2>1
<1>4. PICK g \in [0..L -> Symbol] : g[0] = 0 /\ \A i \in 1..L : g[i] = Add(t[i], g[i - 1])
  <2> HIDE DEF t, L
  <2> QED BY <1>1, <1>3, RunningSums
<1> DEFINE f == [k \in row + 1..n |-> g[n - k]]
<1>5. ASSUME NEW k \in row + 1..n, k # n
      PROVE  f[k] = Add(f[k + 1], p(k))
  <2>1. /\ n - k \in 1..L /\ (n - k) - 1 = n - (k + 1) /\ n - (n - k) = k
        /\ k + 1 \in row + 1..n /\ k \in row + 1..n - 1 /\ n - (k + 1) \in 0..L
    BY <1>1, <1>5
  <2>2. f[k] = g[n - k] /\ f[k + 1] = g[n - (k + 1)] /\ t[n - k] = p(n - (n - k))
    BY <2>1
  <2> DEFINE x == p(k)
             s == g[n - (k + 1)]
  <2>3. x \in Symbol /\ s \in Symbol
    BY <1>2, <1>4, <2>1
  <2>4. t[n - k] = x
    BY <2>1, <2>2
  <2> HIDE DEF f, t, p, L
  <2>5. g[n - k] = Add(x, s)
    BY <1>4, <2>1, <2>4
  <2> HIDE DEF x, s
  <2>6. Add(x, s) = Add(s, x)
    BY <2>3, Laws
  <2> QED BY <2>2, <2>5, <2>6 DEF x, s
<1>6. n \in row + 1..n /\ f[n] = 0
  <2>1. n \in row + 1..n /\ n - n = 0
    BY <1>1
  <2> QED BY <1>4, <2>1
<1>7. f = [k \in row + 1..n |-> IF k = n THEN 0 ELSE Add(f[k + 1], Mul(m[row][k], sol[k]))]
  <2>1. f = [k \in row + 1..n |-> f[k]]
    OBVIOUS
  <2> HIDE DEF f
  <2> QED BY <1>5, <1>6, <2>1
<1> DEFINE T == Tmp(m, sol, n, row)
<1>8. T = [k \in row + 1..n |-> IF k = n THEN 0 ELSE Add(T[k + 1], Mul(m[row][k], sol[k]))]
  <2> HIDE DEF f
  <2> QED BY <1>7, Zenon DEF Tmp
<1> HIDE DEF T, f, t, L
<1>9. T[n] = 0
  BY <1>6, <1>8
<1>10. \A k \in row + 1..n - 1 : T[k] = Add(T[k + 1], p(k))
  <2>1. \A k \in row + 1..n - 1 : k \in row + 1..n /\ k # n
    BY <1>1
  <2> QED BY <1>8, <2>1
<1>11. \A k \in row + 1..n : T[k] \in Symbol
  <2> DEFINE P == {i \in 0..L : T[n - i] \in Symbol}
  <2>1. 0 \in P
    <3>1. 0 \in Symbol /\ n - 0 = n
      BY Laws
    <3> QED BY <1>1, <1>9, <3>1
  <2>2. ASSUME NEW i \in 0..L - 1, i \in P PROVE i + 1 \in P
    <3>1. /\ n - (i + 1) \in row + 1..n - 1 /\ (n - (i + 1)) + 1 = n - i
          /\ i + 1 \in 0..L
      BY <1>1 DEF L
    <3> DEFINE k == n - (i + 1)
    <3>2. T[k + 1] \in Symbol /\ p(k) \in Symbol /\ T[k] = Add(T[k + 1], p(k))
      <4>1. T[n - i] \in Symbol
        BY <2>2
      <4> HIDE DEF p
      <4> QED BY <1>2, <1>10, <3>1, <4>1
    <3> DEFINE x == T[k + 1]
               y == p(k)
    <3>3. T[k] \in Symbol
      <4>1. x \in Symbol /\ y \in Symbol /\ T[k] = Add(x, y)
        BY <3>2
      <4> HIDE DEF x, y
      <4>2. Add(x, y) \in Symbol
        BY <4>1, Laws
      <4> QED BY <4>1, <4>2
    <3> QED BY <3>1, <3>3
  <2>3. 0..L \subseteq P
    <3> HIDE DEF P
    <3> QED BY <1>1, <2>1, <2>2, Induction
  <2>4. \A k \in row + 1..n : n - k \in 0..L /\ n - (n - k) = k
    BY <1>1 DEF L
  <2>5. \A i \in 0..L : T[n - i] \in Symbol
    BY <2>3
  <2> HIDE DEF P
  <2> QED BY <2>4, <2>5
<1> QED BY <1>9, <1>10, <1>11 DEF T

SolvedRow(m, sol, n, row) ==
    [sol EXCEPT ![row] = Div(Sub(m[row][n], Tmp(m, sol, n, row)[row + 1]), m[row][row])]

\* A row of a code space is solved by the data it is coded from, if the later
\* entries are.
LEMMA SolvedRowIs ==
    ASSUME NEW n \in Nat, NEW m, NEW row \in Index(n), NEW w \in Vector(n), NEW sol \in Vector(n),
           m[row] \in CodeSpace(w, n), m[row][row] # 0,
           \A k \in Index(n) : k < row => m[row][k] = 0,
           \A k \in Index(n) : k > row => sol[k] = w[k]
    PROVE  SolvedRow(m, sol, n, row)[row] = w[row]
<1> DEFINE x == m[row]
           D == DotSums(w, x, n)
           T == Tmp(m, sol, n, row)
<1>1. row \in 0..n - 1 /\ row \in Nat
  BY DEF Index
<1>2. x \in Vector(n + 1) /\ x[n] = Dot(w, x, n)
  BY DEF CodeSpace
<1>3. Entries(x, n) /\ Entries(w, n) /\ Entries(sol, n)
  <2>1. Entries(x, n)
    BY <1>2, IndexNext DEF Vector, Entries
  <2> QED BY <2>1 DEF Entries, Vector
<1>4. /\ Dot(w, x, n) = D[n] /\ D[0] = 0
      /\ \A i \in 0..n : D[i] \in Symbol
      /\ \A i \in Index(n) : D[i + 1] = Add(Mul(w[i], x[i]), D[i])
  BY <1>3, DotSteps
<1>5. /\ T[n] = 0
      /\ \A k \in row + 1..n - 1 : T[k] = Add(T[k + 1], Mul(x[k], sol[k]))
      /\ \A k \in row + 1..n : T[k] \in Symbol
  BY <1>3, TmpSteps
<1>6. SolvedRow(m, sol, n, row)[row] = Div(Sub(x[n], T[row + 1]), x[row])
  BY DEF SolvedRow, Vector
<1> HIDE DEF D, T, x
<1>7. D[row] = 0
  <2> DEFINE P == {i \in 0..row : D[i] = 0}
  <2>1. 0 \in P
    BY <1>1, <1>4
  <2>2. ASSUME NEW i \in 0..row - 1, i \in P PROVE i + 1 \in P
    <3>1. i \in Index(n) /\ i < row /\ i + 1 \in 0..row
      BY <1>1 DEF Index
    <3>2. x[i] = 0 /\ w[i] \in Symbol
      BY <1>3, <3>1 DEF Entries, x
    <3>3. Mul(w[i], 0) = 0 /\ Add(0, 0) = 0
      BY <3>2, Zeros, Laws
    <3> QED BY <1>4, <2>2, <3>1, <3>2, <3>3
  <2>3. 0..row \subseteq P
    <3> HIDE DEF P
    <3> QED BY <1>1, <2>1, <2>2, Induction
  <2>4. row \in 0..row
    BY <1>1
  <2> QED BY <2>3, <2>4
<1> DEFINE p == x[row]
           z == w[row]
           y == Mul(z, p)
<1>8. p \in Symbol /\ z \in Symbol /\ p # 0
  BY <1>3 DEF Entries, x
<1>9. y \in Symbol /\ D[row + 1] = y
  <2>1. D[row + 1] = Add(y, 0) /\ y \in Symbol
    BY <1>4, <1>7, <1>8, Laws
  <2> QED BY <2>1, Laws
<1> HIDE DEF p, z, y
\* What the two loops have seen is the whole sum.
<1>10. D[n] = Add(D[row + 1], T[row + 1])
  <2> DEFINE L == n - (row + 1)
             P == {i \in 0..L : D[n] = Add(D[n - i], T[n - i])}
  <2>1. L \in Nat /\ n - L = row + 1
    BY <1>1
  <2>2. 0 \in P
    <3> DEFINE d == D[n]
    <3>1. d \in Symbol /\ n - 0 = n
      BY <1>4
    <3> HIDE DEF d
    <3>2. Add(d, 0) = d
      BY <3>1, Laws
    <3> QED BY <1>5, <2>1, <3>1, <3>2 DEF d
  <2>3. ASSUME NEW i \in 0..L - 1, i \in P PROVE i + 1 \in P
    <3> DEFINE k == n - (i + 1)
    <3>1. /\ k \in row + 1..n - 1 /\ k + 1 = n - i /\ k \in Index(n) /\ k \in 0..n
          /\ k + 1 \in row + 1..n /\ k > row /\ i + 1 \in 0..L
      BY <1>1 DEF Index
    <3> HIDE DEF k
    <3> DEFINE wk == w[k]
               xk == x[k]
               d == D[k]
               t == T[k + 1]
               q == Mul(wk, xk)
    <3>2. wk \in Symbol /\ xk \in Symbol /\ d \in Symbol /\ t \in Symbol
      BY <1>3, <1>4, <1>5, <3>1 DEF Entries
    <3>3. sol[k] = wk
      BY <3>1
    <3>4. D[k + 1] = Add(q, d) /\ T[k] = Add(t, Mul(xk, wk))
      BY <1>4, <1>5, <3>1, <3>3
    <3>5. D[n] = Add(D[k + 1], t)
      BY <2>3, <3>1
    <3> HIDE DEF wk, xk, d, t
    <3>6. q \in Symbol /\ Mul(xk, wk) = q
      BY <3>2, Laws
    <3> HIDE DEF q
    <3>7. Add(Add(q, d), t) = Add(d, Add(t, q))
      <4>1. Add(q, d) = Add(d, q) /\ Add(q, t) = Add(t, q)
        BY <3>2, <3>6, Laws
      <4>2. Add(Add(d, q), t) = Add(d, Add(q, t))
        BY <3>2, <3>6, AddAssoc
      <4> QED BY <4>1, <4>2
    <3>8. D[n] = Add(D[k], T[k])
      BY <3>4, <3>5, <3>6, <3>7 DEF d
    <3> QED BY <3>1, <3>8 DEF k
  <2>4. 0..L \subseteq P
    <3> HIDE DEF P, L
    <3> QED BY <2>1, <2>2, <2>3, Induction
  <2>5. L \in 0..L
    BY <2>1
  <2>6. D[n] = Add(D[n - L], T[n - L])
    BY <2>4, <2>5
  <2> HIDE DEF L, P
  <2> QED BY <2>1, <2>6
<1> DEFINE s == T[row + 1]
           v == x[n]
<1>11. s \in Symbol /\ v = Add(y, s) /\ v \in Symbol
  <2>1. s \in Symbol
    <3>1. row + 1 \in row + 1..n
      BY <1>1
    <3> QED BY <1>5, <3>1
  <2>2. v = Add(y, s)
    BY <1>2, <1>4, <1>9, <1>10
  <2> HIDE DEF s
  <2>3. Add(y, s) \in Symbol
    BY <1>9, <2>1, Laws
  <2> QED BY <2>1, <2>2, <2>3
<1>12. SolvedRow(m, sol, n, row)[row] = Div(Sub(v, s), p)
  BY <1>6 DEF p
<1> HIDE DEF s, v
<1>13. Sub(v, s) = y
  <2>1. Sub(v, s) \in Symbol /\ Add(Sub(v, s), s) = v
    BY <1>11, Laws
  <2> QED BY <1>9, <1>11, <2>1, Cancel
<1>14. Div(y, p) = z
  BY <1>8, DivIs DEF y
<1> QED BY <1>12, <1>13, <1>14 DEF z
\* m_gdata after each row.
SolvedRows(upper, n) ==
    CHOOSE solved : solved = [i \in 0..n |->
        IF i = 0 THEN ZeroVector(n) ELSE SolvedRow(upper, solved[i - 1], n, n - i)]

LEMMA SolvedSteps ==
    ASSUME NEW n \in Nat, NEW m, Echelon(m, n, n + 1)
    PROVE  LET S == SolvedRows(m, n)
           IN  /\ BackSubstitution(m, n) = S[n]
               /\ S[0] = ZeroVector(n)
               /\ \A i \in 1..n : S[i] = SolvedRow(m, S[i - 1], n, n - i)
               /\ \A i \in 0..n : S[i] \in Vector(n)
<1> DEFINE V == Vector(n)
           base == ZeroVector(n)
           step == [i \in 1..n |-> [sol \in V |-> SolvedRow(m, sol, n, n - i)]]
<1>1. base \in V
  BY ZeroEntries
<1>2. step \in Steps(n, V)
  <2> SUFFICES ASSUME NEW i \in 1..n, NEW sol \in V PROVE SolvedRow(m, sol, n, n - i) \in V
    BY DEF Steps
  <2> DEFINE row == n - i
  <2>1. row \in Index(n) /\ row + 1 \in row + 1..n /\ row \in Index(n + 1)
    BY DEF Index
  <2> HIDE DEF row
  <2>2. /\ m[row] \in Vector(n + 1)
        /\ \A k \in Index(n + 1) : m[row][k] \in Symbol
    BY <2>1, EchelonRows
  <2>3. Entries(m[row], n)
    BY <2>2, IndexNext DEF Entries
  <2> DEFINE x == m[row][n]
             p == m[row][row]
             s == Tmp(m, sol, n, row)[row + 1]
  <2>4. s \in Symbol
    BY <2>1, <2>3, TmpSteps
  <2>5. x \in Symbol /\ p \in Symbol
    BY <2>1, <2>2, IndexNext
  <2>6. SolvedRow(m, sol, n, row) = [sol EXCEPT ![row] = Div(Sub(x, s), p)]
    BY DEF SolvedRow
  <2> HIDE DEF x, s, p
  <2>7. Sub(x, s) \in Symbol
    BY <2>4, <2>5, Laws
  <2>8. Div(Sub(x, s), p) \in Symbol
    BY <2>5, <2>7, Laws
  <2>9. [sol EXCEPT ![row] = Div(Sub(x, s), p)] \in V
    BY <2>8 DEF Vector
  <2> QED BY <2>6, <2>9 DEF row
<1>3. PICK f : Solves(f, n, V, base, step)
  <2> HIDE DEF step, base, V
  <2> QED BY <1>1, <1>2, Recursion
<1>4. /\ f \in [0..n -> V] /\ f[0] = base
      /\ \A i \in 1..n : f[i] = SolvedRow(m, f[i - 1], n, n - i)
  <2>1. ASSUME NEW i \in 1..n
        PROVE  f[i] = SolvedRow(m, f[i - 1], n, n - i)
    <3>1. i - 1 \in 0..n
      OBVIOUS
    <3>2. f[i - 1] \in V /\ f[i] = step[i][f[i - 1]]
      BY <1>3, <3>1 DEF Solves
    <3> HIDE DEF V
    <3> QED BY <3>2
  <2> HIDE DEF base, step, V
  <2> QED BY <1>3, <2>1 DEF Solves
<1>5. f = [i \in 0..n |-> IF i = 0 THEN base ELSE SolvedRow(m, f[i - 1], n, n - i)]
  <2>1. \A i \in 0..n : i = 0 \/ i \in 1..n
    OBVIOUS
  <2> HIDE DEF base, V
  <2> QED BY <1>4, <2>1
<1> DEFINE S == SolvedRows(m, n)
<1>6. S = [i \in 0..n |-> IF i = 0 THEN base ELSE SolvedRow(m, S[i - 1], n, n - i)]
  BY <1>5, Zenon DEF SolvedRows
<1>7. BackSubstitution(m, n) = S[n]
  BY DEF BackSubstitution, SolvedRows, SolvedRow, Tmp
<1> HIDE DEF S, base, step, V
<1>8. S[0] = base /\ \A i \in 1..n : S[i] = SolvedRow(m, S[i - 1], n, n - i)
  <2>1. 0 \in 0..n /\ \A i \in 1..n : i \in 0..n /\ i # 0
    OBVIOUS
  <2> QED BY <1>6, <2>1
<1>9. \A i \in 0..n : S[i] \in V
  <2> DEFINE P == {i \in 0..n : S[i] \in V}
  <2>1. 0 \in P
    BY <1>1, <1>8
  <2>2. ASSUME NEW i \in 0..n - 1, i \in P PROVE i + 1 \in P
    <3>1. i + 1 \in 1..n /\ (i + 1) - 1 = i /\ i + 1 \in 0..n
      OBVIOUS
    <3>2. S[i + 1] = SolvedRow(m, S[i], n, n - (i + 1)) /\ S[i] \in V
      BY <1>8, <2>2, <3>1
    <3>3. SolvedRow(m, S[i], n, n - (i + 1)) \in V
      BY <1>2, <3>1, <3>2 DEF Steps, step
    <3> QED BY <3>1, <3>2, <3>3
  <2>3. 0..n \subseteq P
    <3> HIDE DEF P
    <3> QED BY <2>1, <2>2, Induction
  <2> QED BY <2>3
<1> QED BY <1>7, <1>8, <1>9 DEF S, base, V

LEMMA BackSubstitutionIs ==
    ASSUME NEW n \in Nat, NEW m, Echelon(m, n, n + 1), NEW w \in Vector(n),
           \A i \in Index(n) : m[i][i] # 0 /\ m[i] \in CodeSpace(w, n)
    PROVE  BackSubstitution(m, n) = w
<1> DEFINE S == SolvedRows(m, n)
           P == {i \in 0..n : \A k \in Index(n) : k >= n - i => S[i][k] = w[k]}
<1>1. /\ BackSubstitution(m, n) = S[n]
      /\ \A i \in 1..n : S[i] = SolvedRow(m, S[i - 1], n, n - i)
      /\ \A i \in 0..n : S[i] \in Vector(n)
  BY SolvedSteps
<1> HIDE DEF S
<1>2. 0 \in P
  <2>1. \A k \in Index(n) : ~(k >= n - 0)
    BY DEF Index
  <2>2. 0 \in 0..n
    OBVIOUS
  <2> QED BY <2>1, <2>2
<1>3. ASSUME NEW i \in 0..n - 1, i \in P PROVE i + 1 \in P
  <2> DEFINE row == n - (i + 1)
             sol == S[i]
  <2>1. /\ row \in Index(n) /\ i + 1 \in 1..n /\ (i + 1) - 1 = i /\ i + 1 \in 0..n /\ i \in 0..n
        /\ row \in Int
        /\ \A k \in Index(n) : /\ k > row => k >= n - i
                               /\ k >= n - (i + 1) => k > row \/ k = row
    BY DEF Index
  <2>2. /\ S[i + 1] = SolvedRow(m, sol, n, row) /\ sol \in Vector(n)
        /\ \A k \in Index(n) : k > row => sol[k] = w[k]
    <3>1. \A k \in Index(n) : k >= n - i => S[i][k] = w[k]
      BY <1>3
    <3> QED BY <1>1, <2>1, <3>1
  <2> HIDE DEF sol
  <2>3. /\ m[row] \in CodeSpace(w, n) /\ m[row][row] # 0
        /\ \A k \in Index(n) : k < row => m[row][k] = 0
    <3>1. \A k \in Index(n + 1) : k < row => m[row][k] = 0
      BY <2>1, EchelonRows
    <3> QED BY <2>1, <3>1, IndexNext
  <2>4. SolvedRow(m, sol, n, row)[row] = w[row]
    <3> HIDE DEF row
    <3> QED BY <2>1, <2>2, <2>3, SolvedRowIs
  <2>5. \A k \in Index(n) : k # row => SolvedRow(m, sol, n, row)[k] = sol[k]
    BY <2>2 DEF SolvedRow, Vector
  <2>6. ASSUME NEW k \in Index(n), k >= n - (i + 1)
        PROVE  S[i + 1][k] = w[k]
    <3>1. CASE k = row
      BY <2>2, <2>4, <3>1
    <3>2. CASE k # row
      <4>1. k > row
        BY <2>1, <2>6, <3>2
      <4> HIDE DEF row
      <4> QED BY <2>2, <2>5, <3>2, <4>1
    <3> QED BY <3>1, <3>2
  <2> QED BY <2>1, <2>6
<1>4. 0..n \subseteq P
  <2> HIDE DEF P
  <2> QED BY <1>2, <1>3, Induction
<1>5. \A k \in Index(n) : k >= n - n => S[n][k] = w[k]
  <2>1. n \in 0..n
    OBVIOUS
  <2> QED BY <1>4, <2>1
<1>6. \A k \in Index(n) : k >= n - n
  BY DEF Index
<1>7. S[n] \in Vector(n)
  BY <1>1
<1> QED BY <1>1, <1>5, <1>6, <1>7, SameVector

\* Decoding n independent blocks, each with the sum its coefficients announce,
\* in any order, gives the data they were coded from.
THEOREM DecodeCorrect ==
    ASSUME NEW n \in Nat, NEW buffer, Blocks(buffer, n), Len(buffer) = n,
           NEW data \in Vector(n), \A i \in 1..n : Consistent(buffer[i], data, n),
           Independent(Coeffs(buffer), n)
    PROVE  DecodeBuffer(buffer, n) = data
<1>1. Entries(data, n)
  BY DEF Entries, Vector
<1> DEFINE m == UpperMatrix(buffer, n)
<1>2. /\ Echelon(m, n, n + 1)
      /\ \A i \in Index(n) : m[i][i] # 0 /\ m[i] \in CodeSpace(data, n)
  BY <1>1, UpperIs
<1> HIDE DEF m
<1>3. BackSubstitution(m, n) = data
  BY <1>2, BackSubstitutionIs
<1> QED BY <1>3 DEF DecodeBuffer, m

\* Whatever the blocks are, dependent ones too, decoding yields as many symbols
\* as the generation has blocks: a division by 0 is a symbol as well.
LEMMA DecodeTyped ==
    ASSUME NEW n \in Nat, NEW buffer, Blocks(buffer, n)
    PROVE  DecodeBuffer(buffer, n) \in Vector(n)
<1>1. CASE Len(buffer) = n
  <2> DEFINE m == UpperMatrix(buffer, n)
  <2>1. Echelon(m, n, n + 1)
    BY <1>1, UpperEchelon
  <2> HIDE DEF m
  <2>2. /\ BackSubstitution(m, n) = SolvedRows(m, n)[n]
        /\ \A i \in 0..n : SolvedRows(m, n)[i] \in Vector(n)
    BY <2>1, SolvedSteps
  <2>3. n \in 0..n
    OBVIOUS
  <2> QED BY <1>1, <2>2, <2>3 DEF DecodeBuffer, m
<1>2. CASE Len(buffer) # n
  BY <1>2, ZeroEntries DEF DecodeBuffer
<1> QED BY <1>1, <1>2
=============================================================================

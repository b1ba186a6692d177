--------------------------- MODULE SequenceFacts ---------------------------
(***************************************************************************)
(* The facts about numbers, sequences and functions that the proofs about  *)
(* the parts have in common.                                               *)
(***************************************************************************)
EXTENDS Integers, Sequences, SequencesExt, FiniteSetsExt, WellFoundedInduction, TLAPS

-----------------------------------------------------------------------------
(* Least and greatest numbers.                                               *)

\* Every set of numbers has a least.
LEMMA LeastNumber ==
  ASSUME NEW S, S \subseteq Nat, S # {}
  PROVE  \E d \in S : \A e \in S : d <= e
<1>1. \E d \in S : \A e \in S : <<e, d>> \notin OpToRel(<, Nat)
  BY NatLessThanWellFounded, WFMin
<1>2. PICK d \in S : \A e \in S : ~(e < d)
  BY <1>1 DEF OpToRel
<1> QED
  BY <1>2

\* Min of FiniteSetsExt is it.
LEMMA MinIsLeast ==
  ASSUME NEW S, S \subseteq Nat, S # {}
  PROVE  Min(S) \in S /\ \A n \in S : Min(S) <= n
<1>1. \E d \in S : \A e \in S : d <= e
  BY LeastNumber
<1> QED
  BY <1>1 DEF Min

\* The greatest of a bounded set is as far below the bound as any.
LEMMA MaxIsGreatest ==
  ASSUME NEW N \in Nat, NEW S, S \subseteq 0 .. N, S # {}
  PROVE  Max(S) \in S /\ \A n \in S : n <= Max(S)
<1> DEFINE T == {N - n : n \in S}
<1>1. \A n \in S : n \in Nat /\ N - n \in Nat
  OBVIOUS
<1>2. T \subseteq Nat /\ T # {}
  BY <1>1
<1>3. PICK d \in T : \A e \in T : d <= e
  BY <1>2, LeastNumber, Zenon
<1>4. PICK m \in S : d = N - m
  BY <1>3
<1>5. ASSUME NEW n \in S PROVE m >= n
  <2>1. d <= N - n
    BY <1>3
  <2> QED
    BY <1>1, <1>4, <2>1
<1> QED
  BY <1>5 DEF Max

\* Two numbers have a greatest.
LEMMA MaxOfTwo ==
  ASSUME NEW a \in Nat, NEW b \in Nat
  PROVE  Max({a, b}) \in Nat /\ a <= Max({a, b}) /\ b <= Max({a, b})
<1>1. \E x \in {a, b} : \A y \in {a, b} : x >= y
  <2>1. CASE a >= b
    BY <2>1
  <2>2. CASE ~(a >= b)
    BY <2>2
  <2> QED
    BY <2>1, <2>2
<1>2. Max({a, b}) \in {a, b} /\ \A y \in {a, b} : Max({a, b}) >= y
  BY <1>1 DEF Max
<1> QED
  BY <1>2

-----------------------------------------------------------------------------
(* Functions that are defined by recursion.                                  *)

\* What each value of f takes over from the one before, all have.
LEMMA Inherited ==
  ASSUME NEW V, NEW n \in Nat, NEW f, f[0] \in V,
         \A i \in 1 .. n : f[i - 1] \in V => f[i] \in V
  PROVE  \A i \in 0 .. n : f[i] \in V
<1> DEFINE S == {i \in 0 .. n : f[i] \notin V}
<1>1. SUFFICES ASSUME S # {} PROVE FALSE
  OBVIOUS
<1>2. PICK m \in S : \A e \in S : m <= e
  BY <1>1, S \subseteq Nat, LeastNumber, Zenon
<1>3. m # 0
  OBVIOUS
<1>4. m \in 1 .. n /\ m - 1 \in 0 .. n /\ ~(m <= m - 1)
  BY <1>3
<1>5. f[m - 1] \in V
  BY <1>2, <1>4
<1> QED
  BY <1>4, <1>5

Recurs(f, n, base, step) ==
  f = [i \in 0 .. n |-> f[i]] /\ f[0] = base /\ \A i \in 1 .. n : f[i] = step[f[i - 1]][i]

\* A function may be defined by what its next value makes of the one before.
LEMMA Recursion ==
  ASSUME NEW V, NEW n \in Nat, NEW base \in V, NEW step,
         \A v \in V : \A i \in 1 .. n : step[v][i] \in V
  PROVE  \E f : Recurs(f, n, base, step)
<1> DEFINE Begins(f, m) == f[0] = base /\ \A i \in 1 .. m : f[i] = step[f[i - 1]][i]
           S == {m \in 0 .. n : ~\E f \in [0 .. m -> V] : Begins(f, m)}
<1>1. SUFFICES ASSUME S # {} PROVE FALSE
  <2>0. n \in 0 .. n
    OBVIOUS
  <2>1. PICK f \in [0 .. n -> V] : Begins(f, n)
    BY <2>0
  <2>2. Recurs(f, n, base, step)
    BY <2>1 DEF Recurs
  <2> QED
    BY <2>2
<1>2. PICK m \in S : \A e \in S : m <= e
  BY <1>1, S \subseteq Nat, LeastNumber, Zenon
<1>3. m # 0
  <2> DEFINE f == [i \in 0 .. 0 |-> base]
  <2>1. f \in [0 .. 0 -> V] /\ Begins(f, 0)
    OBVIOUS
  <2>2. 0 \notin S
    BY <2>1
  <2> QED
    BY <2>2
<1>4. m \in 1 .. n /\ m - 1 \in 0 .. n /\ ~(m <= m - 1)
  BY <1>3
<1>5. PICK f \in [0 .. (m - 1) -> V] : Begins(f, m - 1)
  BY <1>2, <1>4
<1> DEFINE g == [i \in 0 .. m |-> IF i = m THEN step[f[m - 1]][m] ELSE f[i]]
<1>6. f[m - 1] \in V /\ step[f[m - 1]][m] \in V
  BY <1>4
<1>7. g \in [0 .. m -> V]
  BY <1>4, <1>6
<1>8. Begins(g, m)
  <2>1. g[0] = base
    BY <1>3, <1>4, <1>5
  <2>2. ASSUME NEW i \in 1 .. m PROVE g[i] = step[g[i - 1]][i]
    <3>1. CASE i = m
      BY <1>4, <3>1
    <3>2. CASE i # m
      <4>1. i \in 1 .. (m - 1) /\ i - 1 \in 0 .. (m - 1) /\ i - 1 # m /\ i \in 0 .. m /\ i - 1 \in 0 .. m
        BY <1>4, <3>2
      <4>2. g[i] = f[i] /\ g[i - 1] = f[i - 1]
        BY <3>2, <4>1
      <4> QED
        BY <1>5, <4>1, <4>2
    <3> QED
      BY <3>1, <3>2
  <2> QED
    BY <2>1, <2>2
<1> QED
  BY <1>2, <1>7, <1>8

\* A function with a new value in one place,
LEMMA Replaced ==
  ASSUME NEW Y, NEW D, NEW m \in D, NEW f \in [D -> Y], NEW v \in Y, NEW r, r = [f EXCEPT ![m] = v]
  PROVE  r \in [D -> Y] /\ r[m] = v /\ \A k \in D \ {m} : r[k] = f[k]
OBVIOUS

\* and a sequence with a new last element.
LEMMA ReplacedLast ==
  ASSUME NEW Y, NEW m \in Nat, m > 0, NEW f \in [1 .. m -> Y], NEW v \in Y, NEW r,
         r = [f EXCEPT ![m] = v]
  PROVE  /\ r \in Seq(Y) /\ Len(r) = m /\ DOMAIN r = 1 .. m /\ r[m] = v
         /\ \A k \in 1 .. m - 1 : r[k] = f[k]
<1>1. m \in 1 .. m
  OBVIOUS
<1>2. r \in [1 .. m -> Y] /\ r[m] = v /\ \A k \in (1 .. m) \ {m} : r[k] = f[k]
  BY <1>1, Replaced
<1>3. r \in Seq(Y) /\ Len(r) = m /\ DOMAIN r = 1 .. m
  BY <1>2
<1> QED
  BY <1>2, <1>3

-----------------------------------------------------------------------------
(* A sequence, and one element more or less.                                 *)

\* What sequences of no element and of two are.
LEMMA NoLength == ASSUME NEW X, NEW w \in Seq(X), Len(w) = 0 PROVE w = <<>>
OBVIOUS

LEMMA TwoLong == ASSUME NEW X, NEW w \in Seq(X), Len(w) = 2 PROVE w = <<w[1], w[2]>>
OBVIOUS

\* A sequence is its elements in their order.
LEMMA EqualSeqs ==
  ASSUME NEW X, NEW q \in Seq(X), NEW r \in Seq(X), Len(q) = Len(r),
         \A i \in 1 .. Len(q) : q[i] = r[i]
  PROVE  q = r
OBVIOUS

\* One element more: the type,
LEMMA AppendType ==
  ASSUME NEW X, NEW q \in Seq(X), NEW x \in X
  PROVE  Append(q, x) \in Seq(X)
OBVIOUS

\* the length,
LEMMA AppendLength ==
  ASSUME NEW X, NEW q \in Seq(X), NEW x \in X
  PROVE  Len(Append(q, x)) = Len(q) + 1 /\ Len(q) \in Nat
OBVIOUS

\* and all there is to r, with the Append itself out of sight.
LEMMA AppendParts ==
  ASSUME NEW X, NEW q \in Seq(X), NEW x \in X, NEW r, r = Append(q, x)
  PROVE  /\ Len(q) \in Nat /\ DOMAIN q = 1 .. Len(q) /\ (Len(q) = 0 <=> q = <<>>)
         /\ r \in Seq(X) /\ Len(r) = Len(q) + 1 /\ DOMAIN r = 1 .. Len(q) + 1 /\ r # <<>>
         /\ r[Len(q) + 1] = x /\ \A i \in 1 .. Len(q) : r[i] = q[i]
OBVIOUS

\* Two elements, appended one by one.
LEMMA PairIs ==
  ASSUME NEW X, NEW a \in X, NEW b \in X, NEW q \in Seq(X)
  PROVE  /\ Append(<<>>, a) = <<a>> /\ <<a>> \in Seq(X) /\ Len(<<a>>) = 1 /\ <<a>>[1] = a
         /\ Len(q) = 2 /\ q[1] = a /\ q[2] = b => q = <<a, b>>
OBVIOUS

LEMMA AppendIs ==
  ASSUME NEW X, NEW a \in X, NEW b \in X
  PROVE  Append(<<>>, a) = <<a>> /\ Append(<<a>>, b) = <<a, b>>
<1> DEFINE q == <<a>>
           r == Append(q, b)
<1>1. q \in Seq(X) /\ Len(q) = 1 /\ q[1] = a /\ Append(<<>>, a) = q
  BY PairIs
<1> HIDE DEF q
<1>2. r \in Seq(X) /\ Len(r) = Len(q) + 1 /\ r[Len(q) + 1] = b /\ \A i \in 1 .. Len(q) : r[i] = q[i]
  BY <1>1, AppendParts
<1> HIDE DEF r
<1>3. r \in Seq(X) /\ Len(r) = 2 /\ r[1] = a /\ r[2] = b
  BY <1>1, <1>2
<1>4. r = <<a, b>>
  BY <1>3, PairIs
<1> QED
  BY <1>1, <1>4 DEF q, r

\* One element less: what becomes of the others,
LEMMA TailType ==
  ASSUME NEW X, NEW q \in Seq(X), q # <<>>
  PROVE  /\ Head(q) = q[1] /\ Head(q) \in X /\ Tail(q) \in Seq(X)
         /\ Len(Tail(q)) = Len(q) - 1 /\ Len(q) \in Nat \ {0}
         /\ \A i \in 1 .. Len(q) - 1 : Tail(q)[i] = q[i + 1]
OBVIOUS

\* and all there is to a head and a tail.
LEMMA TailParts ==
  ASSUME NEW X, NEW q \in Seq(X), q # <<>>
  PROVE  /\ Len(q) \in Nat \ {0} /\ DOMAIN q = 1 .. Len(q) /\ 1 \in DOMAIN q
         /\ q[1] = Head(q) /\ Head(q) \in X
         /\ Tail(q) \in Seq(X) /\ Len(Tail(q)) = Len(q) - 1 /\ DOMAIN Tail(q) = 1 .. (Len(q) - 1)
         /\ \A i \in DOMAIN Tail(q) : i + 1 \in DOMAIN q /\ Tail(q)[i] = q[i + 1]
         /\ \A i \in DOMAIN q : i # 1 => i - 1 \in DOMAIN Tail(q) /\ Tail(q)[i - 1] = q[i]
OBVIOUS

\* What is left behind the n-th element.
LEMMA RestType ==
  ASSUME NEW X, NEW q \in Seq(X), NEW n \in 1 .. Len(q)
  PROVE  /\ SubSeq(q, n + 1, Len(q)) \in Seq(X)
         /\ Len(SubSeq(q, n + 1, Len(q))) = Len(q) - n /\ Len(q) \in Nat
OBVIOUS

-----------------------------------------------------------------------------
(* Two sequences, one after the other; the elements of a sequence.           *)

\* All there is to a concatenation.
LEMMA ConcatParts ==
  ASSUME NEW X, NEW q \in Seq(X), NEW r \in Seq(X)
  PROVE  /\ q \o r \in Seq(X) /\ Len(q \o r) = Len(q) + Len(r)
         /\ Len(q) \in Nat /\ Len(r) \in Nat /\ DOMAIN (q \o r) = 1 .. Len(q) + Len(r)
         /\ \A i \in 1 .. Len(q) : (q \o r)[i] = q[i]
         /\ \A i \in 1 .. Len(r) : (q \o r)[Len(q) + i] = r[i]
OBVIOUS

\* The same of c, with the concatenation out of sight.
Joined(c, q, r) == c = q \o r

LEMMA JoinedParts ==
  ASSUME NEW X, NEW q \in Seq(X), NEW r \in Seq(X), NEW c, Joined(c, q, r)
  PROVE  /\ c \in Seq(X) /\ Len(c) = Len(q) + Len(r) /\ DOMAIN c = 1 .. Len(q) + Len(r)
         /\ \A i \in 1 .. Len(q) : c[i] = q[i]
         /\ \A i \in 1 .. Len(r) : c[Len(q) + i] = r[i]
BY DEF Joined

\* The elements with one more,
LEMMA AppendRange ==
  ASSUME NEW X, NEW q \in Seq(X), NEW x \in X
  PROVE  Append(q, x) \in Seq(X) /\ ToSet(Append(q, x)) = ToSet(q) \cup {x}
<1> DEFINE r == Append(q, x)
<1>1. /\ r \in Seq(X) /\ DOMAIN r = DOMAIN q \cup {Len(q) + 1}
      /\ r[Len(q) + 1] = x /\ \A i \in DOMAIN q : r[i] = q[i]
  OBVIOUS
<1> HIDE DEF r
<1>2. ToSet(r) = ToSet(q) \cup {x}
  BY <1>1 DEF ToSet
<1> QED
  BY <1>1, <1>2 DEF r

\* with one less,
LEMMA HeadParts ==
  ASSUME NEW X, NEW q \in Seq(X), q # <<>>
  PROVE  /\ Head(q) \in X /\ Tail(q) \in Seq(X) /\ Head(q) \in ToSet(q)
         /\ ToSet(q) = {Head(q)} \cup ToSet(Tail(q))
<1> DEFINE r == Tail(q)
<1>1. /\ Head(q) = q[1] /\ q[1] \in X /\ r \in Seq(X) /\ Len(q) \in Nat \ {0} /\ Len(r) = Len(q) - 1
      /\ DOMAIN q = 1 .. Len(q) /\ DOMAIN r = 1 .. Len(q) - 1
      /\ \A i \in 1 .. Len(q) - 1 : r[i] = q[i + 1]
  OBVIOUS
<1> HIDE DEF r
<1>2. \A i \in DOMAIN q : i = 1 \/ (i - 1 \in DOMAIN r /\ r[i - 1] = q[i])
  BY <1>1
<1>3. \A i \in DOMAIN r : i + 1 \in DOMAIN q /\ r[i] = q[i + 1]
  BY <1>1
<1>4. 1 \in DOMAIN q
  BY <1>1
<1>5. ToSet(q) = {q[1]} \cup ToSet(r)
  BY <1>2, <1>3, <1>4 DEF ToSet
<1> QED
  BY <1>1, <1>4, <1>5 DEF r, ToSet

\* and of two sequences that agree.
LEMMA SameRange ==
  ASSUME NEW X, NEW q \in Seq(X), NEW r \in Seq(X), Len(q) = Len(r),
         \A i \in 1 .. Len(q) : q[i] = r[i]
  PROVE  ToSet(q) = ToSet(r)
<1>1. DOMAIN q = 1 .. Len(q) /\ DOMAIN r = 1 .. Len(q)
  OBVIOUS
<1> QED
  BY <1>1 DEF ToSet
=============================================================================

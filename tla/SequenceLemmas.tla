-------------------------- MODULE SequenceLemmas --------------------------
(***************************************************************************)
(* Facts about natural numbers and sequences that the proofs of several    *)
(* modules need and the library does not state: induction over the         *)
(* elements of a set, functions defined by recursion, remainders,          *)
(* FlattenSeq, finite sets in order.                                       *)
(***************************************************************************)
EXTENDS Integers, SequencesExt, Orders, WellFoundedInduction, FiniteSetTheorems,
        FunctionTheorems, SequenceTheorems, TLAPS

\* Every set of natural numbers has a least element.
LEMMA LeastNumber ==
  ASSUME NEW T, T \subseteq Nat, T # {}
  PROVE  \E n \in T : \A m \in T : n <= m
  <1> DEFINE R == {ss \in Nat \X Nat : ss[1] < ss[2]}
  <1>1. IsWellFoundedOn(R, Nat)
    BY NatLessThanWellFounded DEF OpToRel
  <1>2. \E x \in T : \A y \in T : ~ (<<y, x>> \in R)
    <2> HIDE DEF R
    <2> QED
      BY <1>1, WFMin
  <1>3. PICK x \in T : \A y \in T : ~ (<<y, x>> \in R)
    BY <1>2
  <1>4. \A y \in T : ~(y < x)
    BY <1>3
  <1> QED
    BY <1>3, <1>4

\* A set that holds 0 and the successors of its elements holds all numbers.
LEMMA SetInduction ==
  ASSUME NEW T, 0 \in T, \A n \in Nat : n \in T => n + 1 \in T
  PROVE  Nat \subseteq T
  <1> DEFINE Missing == {n \in Nat : n \notin T}
  <1>1. SUFFICES ASSUME Missing # {} PROVE FALSE
    OBVIOUS
  <1>2. PICK n \in Missing : \A m \in Missing : n <= m
    <2>1. Missing \subseteq Nat
      OBVIOUS
    <2> HIDE DEF Missing
    <2> QED
      BY <1>1, <2>1, LeastNumber
  <1>3. n # 0
    OBVIOUS
  <1>4. n - 1 \in Nat /\ n - 1 \notin Missing
    BY <1>2, <1>3
  <1>5. n - 1 \in T
    BY <1>4
  <1>6. (n - 1) + 1 \in T
    BY <1>4, <1>5
  <1>7. n \in T
    BY <1>6
  <1> QED
    BY <1>7

\* A function on the natural numbers is given by its first value and the
\* step from one value to the next.
Iterates(f, V, base, G) ==
  /\ f \in [Nat -> V]
  /\ f[0] = base
  /\ \A n \in Nat : f[n + 1] = G[<<n, f[n]>>]

LEMMA Recursion ==
  ASSUME NEW V, NEW base \in V, NEW G \in [Nat \X V -> V]
  PROVE  \E f : Iterates(f, V, base, G)
  <1> DEFINE Good(f, n) == /\ f \in [0..n -> V]
                           /\ f[0] = base
                           /\ \A i \in 0..(n - 1) : f[i + 1] = G[<<i, f[i]>>]
             T == {n \in Nat : \E f : Good(f, n)}
  <1>1. 0 \in T
    <2>1. Good([i \in 0..0 |-> base], 0)
      OBVIOUS
    <2> QED
      BY <2>1
  <1>2. ASSUME NEW n \in Nat, n \in T PROVE n + 1 \in T
    <2>1. PICK f : Good(f, n)
      BY <1>2
    <2> DEFINE g == [i \in 0..(n + 1) |-> IF i = n + 1 THEN G[<<n, f[n]>>] ELSE f[i]]
    <2>2. f[n] \in V
      BY <2>1
    <2>3. G[<<n, f[n]>>] \in V
      BY <2>2
    <2>4. g \in [0..(n + 1) -> V]
      BY <2>1, <2>3
    <2>5. g[0] = base
      BY <2>1
    <2>6. ASSUME NEW i \in 0..n PROVE g[i + 1] = G[<<i, g[i]>>]
      <3>1. CASE i = n
        <4>1. g[n + 1] = G[<<n, f[n]>>]
          OBVIOUS
        <4>2. g[n] = f[n]
          OBVIOUS
        <4> QED
          BY <3>1, <4>1, <4>2
      <3>2. CASE i # n
        <4>1. i \in 0..(n - 1) /\ i + 1 \in 0..n /\ i + 1 # n + 1
          BY <3>2
        <4>2. g[i + 1] = f[i + 1] /\ g[i] = f[i]
          BY <4>1
        <4> QED
          BY <4>1, <4>2, <2>1
      <3> QED
        BY <3>1, <3>2
    <2>7. Good(g, n + 1)
      <3>1. (n + 1) - 1 = n
        OBVIOUS
      <3> HIDE DEF g
      <3> QED
        BY <2>4, <2>5, <2>6, <3>1
    <2> HIDE DEF g, Good
    <2>8. \E q : Good(q, n + 1)
      BY <2>7
    <2>9. n + 1 \in Nat
      OBVIOUS
    <2> QED
      BY <2>8, <2>9
  <1>3. Nat \subseteq T
    <2> HIDE DEF T
    <2> QED
      BY <1>1, <1>2, SetInduction
  <1>4. ASSUME NEW m \in Nat, NEW n \in Nat, m <= n, NEW f, NEW g, Good(f, m), Good(g, n)
        PROVE  \A i \in 0..m : f[i] = g[i]
    <2> DEFINE A == {i \in Nat : i <= m => f[i] = g[i]}
    <2>1. 0 \in A
      BY <1>4
    <2>2. ASSUME NEW i \in Nat, i \in A PROVE i + 1 \in A
      <3>1. CASE i + 1 <= m
        <4>1. i \in 0..(m - 1) /\ i \in 0..(n - 1) /\ f[i] = g[i]
          BY <3>1, <2>2, <1>4
        <4>2. f[i + 1] = G[<<i, f[i]>>] /\ g[i + 1] = G[<<i, g[i]>>]
          BY <4>1, <1>4
        <4> QED
          BY <4>1, <4>2
      <3> QED
        BY <3>1
    <2>3. Nat \subseteq A
      <3> HIDE DEF A
      <3> QED
        BY <2>1, <2>2, SetInduction
    <2> QED
      BY <2>3
  <1> DEFINE F(n) == CHOOSE f : Good(f, n)
             h == [n \in Nat |-> F(n)[n]]
  <1>5. \A n \in Nat : Good(F(n), n)
    <2> SUFFICES ASSUME NEW n \in Nat PROVE Good(F(n), n)
      OBVIOUS
    <2>1. \E f : Good(f, n)
      BY <1>3
    <2> HIDE DEF Good
    <2> QED
      BY <2>1
  <1>6. h \in [Nat -> V]
    <2>1. \A n \in Nat : F(n)[n] \in V
      <3> HIDE DEF F
      <3> QED
        BY <1>5
    <2> HIDE DEF F
    <2> QED
      BY <2>1
  <1>7. h[0] = base
    <2> HIDE DEF F
    <2> QED
      BY <1>5
  <1>8. ASSUME NEW n \in Nat PROVE h[n + 1] = G[<<n, h[n]>>]
    <2>1. Good(F(n), n) /\ Good(F(n + 1), n + 1)
      <3> HIDE DEF Good, F
      <3> QED
        BY <1>5
    <2> HIDE DEF F
    <2>2. F(n)[n] = F(n + 1)[n]
      <3>1. n + 1 \in Nat /\ n <= n + 1 /\ n \in 0..n
        OBVIOUS
      <3> HIDE DEF Good
      <3> QED
        BY <3>1, <2>1, <1>4
    <2>3. F(n + 1)[n + 1] = G[<<n, F(n + 1)[n]>>]
      <3>1. n \in 0..((n + 1) - 1)
        OBVIOUS
      <3> QED
        BY <2>1, <3>1
    <2>4. h[n] = F(n)[n] /\ h[n + 1] = F(n + 1)[n + 1]
      OBVIOUS
    <2> HIDE DEF h
    <2> QED
      BY <2>2, <2>3, <2>4
  <1>9. Iterates(h, V, base, G)
    <2> HIDE DEF h
    <2> QED
      BY <1>6, <1>7, <1>8 DEF Iterates
  <1> QED
    BY <1>9
\* A function on the first numbers, given by its first value and the step
\* from one value to the next.
Unrolls(f, n, V, base, G) ==
  /\ f \in [0..n -> V]
  /\ f[0] = base
  /\ \A k \in 1..n : f[k] = G[<<k, f[k - 1]>>]

LEMMA FiniteRecursion ==
  ASSUME NEW n \in Nat, NEW V, NEW base \in V, NEW G \in [Nat \X V -> V]
  PROVE  \E f : Unrolls(f, n, V, base, G)
  <1> DEFINE H == [x \in Nat \X V |-> G[<<x[1] + 1, x[2]>>]]
  <1>1. H \in [Nat \X V -> V]
    OBVIOUS
  <1>2. PICK g : Iterates(g, V, base, H)
    <2> HIDE DEF H
    <2> QED
      BY <1>1, Recursion
  <1>3. g \in [Nat -> V] /\ g[0] = base
    BY <1>2 DEF Iterates
  <1>4. ASSUME NEW k \in 1..n PROVE g[k] = G[<<k, g[k - 1]>>]
    <2>1. PICK j \in Nat : j = k - 1
      OBVIOUS
    <2>2. g[j + 1] = H[<<j, g[j]>>]
      BY <1>2 DEF Iterates
    <2>3. g[j] \in V
      BY <1>3
    <2>4. H[<<j, g[j]>>] = G[<<j + 1, g[j]>>]
      BY <2>3
    <2>5. j + 1 = k
      BY <2>1
    <2> QED
      BY <2>1, <2>2, <2>4, <2>5
  <1> DEFINE f == [k \in 0..n |-> g[k]]
  <1>5. Unrolls(f, n, V, base, G)
    <2>1. f \in [0..n -> V] /\ f[0] = base
      BY <1>3
    <2>2. \A k \in 1..n : f[k] = g[k] /\ f[k - 1] = g[k - 1]
      OBVIOUS
    <2> HIDE DEF f
    <2> QED
      BY <1>4, <2>1, <2>2 DEF Unrolls
  <1> QED
    BY <1>5
---------------------------------------------------------------------------
\* q puts n entries in another order.
Arranges(q, n) ==
  /\ q \in [1..n -> 1..n]
  /\ \A i \in 1..n, j \in 1..n : q[i] = q[j] => i = j
  /\ \A k \in 1..n : \E i \in 1..n : q[i] = k

\* A list with every index has each once.
LEMMA SurjectionArranges ==
  ASSUME NEW n \in Nat, NEW q \in [1..n -> 1..n],
         \A k \in 1..n : \E i \in 1..n : q[i] = k
  PROVE  Arranges(q, n)
  <1>1. q \in Surjection(1..n, 1..n)
    BY DEF Surjection
  <1>2. IsFiniteSet(1..n)
    BY FS_Interval
  <1>3. q \in Injection(1..n, 1..n)
    BY <1>1, <1>2, FS_Surjection
  <1>4. \A i \in 1..n, j \in 1..n : q[i] = q[j] => i = j
    BY <1>3 DEF Injection, IsInjective
  <1> QED
    BY <1>4 DEF Arranges
---------------------------------------------------------------------------
(* Remainders.                                                             *)

LEMMA Remainder ==
  ASSUME NEW a \in Int, NEW m \in Nat \ {0}, NEW q \in Int, NEW r \in 0..(m - 1),
         a = m * q + r
  PROVE  a % m = r
  OBVIOUS

LEMMA Division ==
  ASSUME NEW a \in Int, NEW m \in Nat \ {0}
  PROVE  \E q \in Int : a = m * q + (a % m) /\ a % m \in 0..(m - 1) /\ a \div m = q
  <1>1. a \div m \in Int
    OBVIOUS
  <1>2. m * (a \div m) <= a
    OBVIOUS
  <1>3. a < m * (a \div m) + m
    OBVIOUS
  <1>4. PICK q : q = a \div m
    OBVIOUS
  <1>5. q \in Int /\ m * q <= a /\ a < m * q + m
    BY <1>1, <1>2, <1>3, <1>4
  <1>6. PICK r : r = a - m * q
    OBVIOUS
  <1>7. m * q \in Int
    BY <1>5
  <1>8. r \in 0..(m - 1) /\ a = m * q + r
    BY <1>5, <1>6, <1>7
  <1>9. a % m = r
    BY <1>5, <1>8, Remainder
  <1> QED
    BY <1>4, <1>5, <1>8, <1>9

LEMMA Quotient ==
  ASSUME NEW a \in Int, NEW m \in Nat \ {0}, NEW q \in Int,
         m * q <= a, a < m * q + m
  PROVE  a \div m = q
  OBVIOUS

\* What is less than the next multiple is not beyond this one.
LEMMA Multiples ==
  ASSUME NEW m \in Nat \ {0}, NEW p \in Int, NEW q \in Int, m * p < m * q + m
  PROVE  p <= q
  <1> SUFFICES ASSUME ~(p <= q) PROVE FALSE
    OBVIOUS
  <1>1. PICK d \in Nat : p = q + 1 + d
    <2>1. p - q - 1 \in Nat /\ p = q + 1 + (p - q - 1)
      OBVIOUS
    <2> QED
      BY <2>1
  <1>2. m * p = m * q + m + m * d /\ m * d >= 0 /\ m * d \in Int /\ m * q \in Int
    BY <1>1
  <1> QED
    BY <1>2

LEMMA SameRemainder ==
  ASSUME NEW a \in Int, NEW b \in Int, NEW m \in Nat \ {0}, NEW q \in Int,
         a = b + m * q
  PROVE  a % m = b % m
  <1>1. PICK p \in Int : b = m * p + (b % m) /\ b % m \in 0..(m - 1)
    BY Division
  <1>2. PICK r \in 0..(m - 1) : r = b % m
    BY <1>1
  <1>3. b = m * p + r
    BY <1>1, <1>2
  <1>4. PICK s \in Int : s = p + q
    OBVIOUS
  <1>5. m * s = m * p + m * q
    BY <1>4
  <1>6. m * p \in Int /\ m * q \in Int /\ r \in Int
    OBVIOUS
  <1>7. a = m * s + r
    BY <1>3, <1>5, <1>6
  <1>8. a % m = r
    BY <1>7, Remainder
  <1> QED
    BY <1>2, <1>8
---------------------------------------------------------------------------
\* s was put together from the first n of seqs: g says where every element
\* comes from, and those of an earlier sequence come first.
Traces(g, s, seqs, n) ==
  /\ g \in [1..Len(s) -> 1..n]
  /\ \A i \in 1..Len(s), j \in 1..Len(s) : i <= j => g[i] <= g[j]
  /\ \A i \in 1..Len(s) : \E k \in 1..Len(seqs[g[i]]) : s[i] = seqs[g[i]][k]

LEMMA TracesNext ==
  ASSUME NEW S, NEW seqs \in Seq(Seq(S)), NEW n \in Nat, n + 1 <= Len(seqs),
         NEW s \in Seq(S), NEW g, Traces(g, s, seqs, n)
  PROVE  \E h : Traces(h, s \o seqs[n + 1], seqs, n + 1)
  <1> DEFINE t == seqs[n + 1]
             h == [i \in 1..(Len(s) + Len(t)) |-> IF i <= Len(s) THEN g[i] ELSE n + 1]
  <1>1. t \in Seq(S)
    OBVIOUS
  <1> HIDE DEF t
  <1>2. s \o t \in Seq(S) /\ Len(s \o t) = Len(s) + Len(t)
    BY <1>1
  <1>3. \A i \in 1..Len(s) : g[i] \in 1..n
    BY DEF Traces
  <1>4. h \in [1..Len(s \o t) -> 1..(n + 1)]
    BY <1>1, <1>2, <1>3
  <1>5. \A i \in 1..Len(s \o t), j \in 1..Len(s \o t) : i <= j => h[i] <= h[j]
    BY <1>1, <1>2, <1>3 DEF Traces
  <1>6. ASSUME NEW i \in 1..Len(s \o t)
        PROVE  \E k \in 1..Len(seqs[h[i]]) : (s \o t)[i] = seqs[h[i]][k]
    <2>1. CASE i <= Len(s)
      <3>1. i \in 1..Len(s) /\ h[i] = g[i] /\ (s \o t)[i] = s[i]
        BY <2>1, <1>1, <1>2
      <3> HIDE DEF h
      <3> QED
        BY <3>1 DEF Traces
    <2>2. CASE i > Len(s)
      <3>1. i - Len(s) \in 1..Len(t) /\ h[i] = n + 1 /\ (s \o t)[i] = t[i - Len(s)]
        BY <2>2, <1>1, <1>2
      <3> HIDE DEF h
      <3> QED
        BY <3>1 DEF t
    <2> QED
      BY <2>1, <2>2, <1>1, <1>2
  <1>7. Traces(h, s \o t, seqs, n + 1)
    <2> HIDE DEF h
    <2> QED
      BY <1>4, <1>5, <1>6 DEF Traces
  <1> QED
    BY <1>7 DEF t

\* Two functions that begin alike and go on alike.
InStep(f, g, d) == \A k \in 1..d : f[k - 1] = g[k - 1] => f[k] = g[k]

LEMMA GoOnAlike ==
  ASSUME NEW d \in Nat, NEW f, NEW g, f[0] = g[0], InStep(f, g, d)
  PROVE  \A k \in 0..d : f[k] = g[k]
  <1> DEFINE T == {n \in Nat : n \in 0..d => f[n] = g[n]}
  <1>1. 0 \in T
    OBVIOUS
  <1>2. ASSUME NEW n \in Nat, n \in T PROVE n + 1 \in T
    <2>1. n + 1 \in Nat /\ (n + 1) - 1 = n
      OBVIOUS
    <2>2. CASE n + 1 \in 0..d
      <3>1. n + 1 \in 1..d /\ n \in 0..d
        BY <2>2
      <3> QED
        BY <1>2, <2>1, <3>1 DEF InStep
    <2> QED
      BY <2>1, <2>2
  <1> HIDE DEF T
  <1>3. Nat \subseteq T
    BY <1>1, <1>2, SetInduction
  <1> QED
    BY <1>3 DEF T
---------------------------------------------------------------------------
\* f has what FlattenSeq makes of the first sequences, for every number of
\* them.
Unfolds(f, S, seqs) ==
  /\ f \in [0..Len(seqs) -> Seq(S)]
  /\ f[0] = <<>>
  /\ \A i \in 1..Len(seqs) : f[i] = f[i - 1] \o seqs[i]
  /\ FlattenSeq(seqs) = f[Len(seqs)]

LEMMA FlattenUnfolds ==
  ASSUME NEW S, NEW seqs \in Seq(Seq(S))
  PROVE  \E f : Unfolds(f, S, seqs)
  <1> DEFINE N == Len(seqs)
             V == Seq(S)
             Rule(f) == f = [i \in 1..N |-> IF i = 1 THEN seqs[i] ELSE f[i - 1] \o seqs[i]]
             flatten == CHOOSE f : Rule(f)
             G == [x \in Nat \X V |-> IF x[1] + 1 \in 1..N THEN x[2] \o seqs[x[1] + 1] ELSE x[2]]
  <1>1. N \in Nat /\ \A i \in 1..N : seqs[i] \in V
    OBVIOUS
  <1>2. PICK f : Iterates(f, V, <<>>, G)
    <2>1. <<>> \in V
      OBVIOUS
    <2>2. G \in [Nat \X V -> V]
      <3>1. ASSUME NEW x \in Nat \X V, x[1] + 1 \in 1..N PROVE x[2] \o seqs[x[1] + 1] \in V
        BY <1>1, <3>1
      <3> QED
        BY <3>1
    <2> HIDE DEF G, V
    <2> QED
      BY <2>1, <2>2, Recursion
  <1>3. /\ f \in [Nat -> V]
        /\ f[0] = <<>>
        /\ \A n \in Nat : f[n + 1] = G[<<n, f[n]>>]
    <2> HIDE DEF G, V
    <2> QED
      BY <1>2 DEF Iterates
  <1>4. ASSUME NEW i \in 1..N PROVE f[i] = f[i - 1] \o seqs[i]
    <2>1. i - 1 \in Nat /\ (i - 1) + 1 = i /\ f[i - 1] \in V
      BY <1>1, <1>3
    <2>2. f[(i - 1) + 1] = G[<<i - 1, f[i - 1]>>]
      <3> HIDE DEF G
      <3> QED
        BY <1>3, <2>1
    <2>3. G[<<i - 1, f[i - 1]>>] = f[i - 1] \o seqs[i]
      BY <2>1
    <2> QED
      BY <2>1, <2>2, <2>3
  <1> HIDE DEF G
  <1> DEFINE h == [i \in 0..N |-> f[i]]
  <1>5. h \in [0..N -> V] /\ h[0] = <<>> /\ \A i \in 1..N : h[i] = h[i - 1] \o seqs[i]
    <2>1. \A i \in 0..N : f[i] \in V
      BY <1>3
    <2>2. 0 \in 0..N /\ \A i \in 1..N : i \in 0..N /\ i - 1 \in 0..N
      BY <1>1
    <2> HIDE DEF N, V
    <2> QED
      BY <1>3, <1>4, <2>1, <2>2
  <1>6. FlattenSeq(seqs) = h[N]
    <2>1. CASE N = 0
      <3>1. FlattenSeq(seqs) = seqs /\ seqs = <<>>
        BY <2>1 DEF FlattenSeq
      <3>2. h[N] = <<>>
        <4> HIDE DEF N, h
        <4> QED
          BY <1>5, <2>1
      <3> QED
        BY <3>1, <3>2
    <2>2. CASE N # 0
      <3>1. 1 \in 1..N /\ N \in 1..N
        <4> HIDE DEF N
        <4> QED
          BY <1>1, <2>2
      <3>2. Rule([i \in 1..N |-> f[i]])
        <4>1. f[1] = seqs[1]
          <5>1. f[1] = <<>> \o seqs[1]
            <6>1. 1 - 1 = 0
              OBVIOUS
            <6> HIDE DEF N
            <6> QED
              BY <1>3, <1>4, <3>1, <6>1
          <5>2. seqs[1] \in Seq(S)
            BY <1>1, <3>1
          <5> QED
            BY <5>1, <5>2
        <4>2. \A i \in 1..N : i # 1 => i - 1 \in 1..N
          BY <1>1
        <4> HIDE DEF N, V
        <4> QED
          BY <1>4, <4>1, <4>2
      <3>3. Rule(flatten)
        <4> HIDE DEF Rule
        <4> QED
          BY <3>2
      <3>4. FlattenSeq(seqs) = flatten[N]
        BY <2>2 DEF FlattenSeq
      <3>5. flatten[1] = seqs[1] /\ \A i \in 1..N : i # 1 => flatten[i] = flatten[i - 1] \o seqs[i]
        <4>1. flatten = [i \in 1..N |-> IF i = 1 THEN seqs[i] ELSE flatten[i - 1] \o seqs[i]]
          BY <3>3
        <4> HIDE DEF N, flatten
        <4> QED
          BY <3>1, <4>1
      <3> DEFINE g == [i \in 0..N |-> IF i = 0 THEN <<>> ELSE flatten[i]]
      <3> HIDE DEF flatten
      <3>6. g[0] = h[0]
        <4>1. 0 \in 0..N
          BY <1>1
        <4> QED
          BY <1>5, <4>1
      <3>7. InStep(g, h, N)
        <4> SUFFICES ASSUME NEW k \in 1..N, g[k - 1] = h[k - 1] PROVE g[k] = h[k]
          BY DEF InStep
        <4>1. g[k] = flatten[k] /\ seqs[k] \in Seq(S) /\ k - 1 \in 0..N
          BY <1>1
        <4>2. h[k] = h[k - 1] \o seqs[k]
          BY <1>5
        <4>3. CASE k = 1
          <5>1. h[k - 1] = <<>>
            BY <1>5, <4>3
          <5>2. <<>> \o seqs[k] = seqs[k]
            BY <4>1
          <5> HIDE DEF g, h
          <5> QED
            BY <3>5, <4>1, <4>2, <4>3, <5>1, <5>2
        <4>4. CASE k # 1
          <5>1. g[k - 1] = flatten[k - 1]
            BY <4>1, <4>4
          <5> HIDE DEF g, h
          <5> QED
            BY <3>5, <4>1, <4>2, <4>4, <5>1
        <4> QED
          BY <4>3, <4>4
      <3>8. g[N] = flatten[N]
        BY <3>1
      <3>9. g[N] = h[N]
        <4>1. N \in 0..N
          BY <1>1
        <4> HIDE DEF g, h, N
        <4> QED
          BY <1>1, <3>6, <3>7, <4>1, GoOnAlike
      <3> QED
        BY <3>4, <3>8, <3>9
    <2> QED
      BY <2>1, <2>2
  <1> HIDE DEF h
  <1>7. Unfolds(h, S, seqs)
    BY <1>5, <1>6 DEF Unfolds
  <1> QED
    BY <1>7

LEMMA FlattenEmpty == FlattenSeq(<<>>) = <<>>
  BY DEF FlattenSeq

\* One sequence more.
LEMMA FlattenAppend ==
  ASSUME NEW S, NEW seqs \in Seq(Seq(S)), NEW x \in Seq(S)
  PROVE  /\ FlattenSeq(seqs) \in Seq(S)
         /\ FlattenSeq(Append(seqs, x)) = FlattenSeq(seqs) \o x
  <1> DEFINE N == Len(seqs)
             more == Append(seqs, x)
  <1>1. /\ N \in Nat /\ more \in Seq(Seq(S)) /\ Len(more) = N + 1
        /\ more[N + 1] = x /\ \A i \in 1..N : more[i] = seqs[i]
    OBVIOUS
  <1> HIDE DEF more
  <1>2. PICK f : Unfolds(f, S, seqs)
    BY FlattenUnfolds
  <1>3. PICK g : Unfolds(g, S, more)
    BY <1>1, FlattenUnfolds
  <1>4. InStep(f, g, N)
    <2> SUFFICES ASSUME NEW k \in 1..N, f[k - 1] = g[k - 1] PROVE f[k] = g[k]
      BY DEF InStep
    <2>1. k \in 1..Len(seqs) /\ k \in 1..Len(more)
      BY <1>1
    <2>2. f[k] = f[k - 1] \o seqs[k]
      BY <1>2, <2>1 DEF Unfolds
    <2>3. g[k] = g[k - 1] \o more[k]
      BY <1>3, <2>1 DEF Unfolds
    <2> QED
      BY <1>1, <2>2, <2>3
  <1>5. f[0] = g[0]
    BY <1>2, <1>3 DEF Unfolds
  <1>6. f[N] = g[N]
    <2>1. N \in 0..N
      BY <1>1
    <2> HIDE DEF N
    <2> QED
      BY <1>1, <1>4, <1>5, <2>1, GoOnAlike
  <1>7. g[N + 1] = g[N] \o x
    <2>1. N + 1 \in 1..Len(more) /\ (N + 1) - 1 = N
      BY <1>1
    <2>2. g[N + 1] = g[(N + 1) - 1] \o more[N + 1]
      <3> HIDE DEF N
      <3> QED
        BY <1>3, <2>1 DEF Unfolds
    <2> QED
      BY <1>1, <2>1, <2>2
  <1>8. FlattenSeq(seqs) = f[N] /\ f[N] \in Seq(S)
    BY <1>1, <1>2 DEF Unfolds
  <1>9. FlattenSeq(more) = g[N + 1]
    BY <1>1, <1>3 DEF Unfolds
  <1> QED
    BY <1>6, <1>7, <1>8, <1>9 DEF more

\* What FlattenSeq makes of a sequence of sequences.
LEMMA FlattenFacts ==
  ASSUME NEW S, NEW seqs \in Seq(Seq(S))
  PROVE  /\ FlattenSeq(seqs) \in Seq(S)
         /\ \E g : Traces(g, FlattenSeq(seqs), seqs, Len(seqs))
  <1> DEFINE N == Len(seqs)
  <1>1. N \in Nat /\ \A i \in 1..N : seqs[i] \in Seq(S)
    OBVIOUS
  <1>2. PICK f : Unfolds(f, S, seqs)
    BY FlattenUnfolds
  <1>3. /\ f[0] = <<>>
        /\ \A n \in 0..N : f[n] \in Seq(S)
        /\ \A i \in 1..N : f[i] = f[i - 1] \o seqs[i]
        /\ FlattenSeq(seqs) = f[N]
    BY <1>2 DEF Unfolds
  <1> DEFINE T == {n \in Nat : n \in 0..N => \E g : Traces(g, f[n], seqs, n)}
  <1>4. 0 \in T
    <2>1. Traces([i \in 1..0 |-> 1], <<>>, seqs, 0)
      BY DEF Traces
    <2> QED
      BY <1>3, <2>1
  <1>5. ASSUME NEW n \in Nat, n \in T PROVE n + 1 \in T
    <2> SUFFICES ASSUME n + 1 \in 0..N PROVE \E g : Traces(g, f[n + 1], seqs, n + 1)
      OBVIOUS
    <2>1. n \in 0..N /\ n + 1 \in 1..N /\ (n + 1) - 1 = n /\ n + 1 <= Len(seqs)
      BY <1>1
    <2>2. PICK g : Traces(g, f[n], seqs, n)
      BY <1>5, <2>1
    <2>3. f[n + 1] = f[n] \o seqs[n + 1] /\ f[n] \in Seq(S)
      BY <1>3, <2>1
    <2> QED
      BY <2>1, <2>2, <2>3, TracesNext
  <1>6. Nat \subseteq T
    <2> HIDE DEF T
    <2> QED
      BY <1>4, <1>5, SetInduction
  <1>7. N \in 0..N
    BY <1>1
  <1> QED
    BY <1>1, <1>3, <1>6, <1>7
---------------------------------------------------------------------------
(* Finite sets in order: an element is where its rank puts it.             *)

\* R has the pairs of which the first element comes before the second one.
StrictOrder(R, S) ==
  /\ \A x \in S : <<x, x>> \notin R
  /\ \A x \in S, y \in S, z \in S : <<x, y>> \in R /\ <<y, z>> \in R => <<x, z>> \in R
  /\ \A x \in S, y \in S : x = y \/ <<x, y>> \in R \/ <<y, x>> \in R

Below(R, S, x) == {y \in S : <<y, x>> \in R}

Rank(R, S, x) == Cardinality(Below(R, S, x))

\* The rank of an element is below the size of the set, and grows.
LEMMA RankGrows ==
  ASSUME NEW S, NEW R, StrictOrder(R, S), IsFiniteSet(S), NEW x \in S
  PROVE  /\ Rank(R, S, x) \in 0..(Cardinality(S) - 1)
         /\ \A z \in S : <<x, z>> \in R => Rank(R, S, x) < Rank(R, S, z)
  <1>1. IsFiniteSet(Below(R, S, x)) /\ Rank(R, S, x) \in Nat
    <2>1. Below(R, S, x) \in SUBSET S
      BY DEF Below
    <2> QED
      BY <2>1, FS_Subset, FS_CardinalityType DEF Rank
  <1>2. /\ IsFiniteSet(Below(R, S, x) \cup {x})
        /\ Cardinality(Below(R, S, x) \cup {x}) = Rank(R, S, x) + 1
    <2>1. x \notin Below(R, S, x)
      BY DEF Below, StrictOrder
    <2> QED
      BY <1>1, <2>1, FS_AddElement DEF Rank
  <1>3. \A T \in SUBSET S : /\ IsFiniteSet(T) /\ Cardinality(T) \in Nat
                            /\ Cardinality(T) <= Cardinality(S)
    BY FS_Subset, FS_CardinalityType
  <1>4. Rank(R, S, x) \in 0..(Cardinality(S) - 1)
    <2>1. Below(R, S, x) \cup {x} \in SUBSET S
      BY DEF Below
    <2>2. Cardinality(S) \in Nat
      BY FS_CardinalityType
    <2>3. Rank(R, S, x) + 1 <= Cardinality(S)
      BY <1>2, <1>3, <2>1
    <2> QED
      BY <1>1, <2>2, <2>3
  <1>5. ASSUME NEW z \in S, <<x, z>> \in R
        PROVE  Rank(R, S, x) < Rank(R, S, z)
    <2>1. Below(R, S, z) \in SUBSET S
      BY DEF Below
    <2>2. Below(R, S, x) \cup {x} \in SUBSET Below(R, S, z)
      BY <1>5 DEF Below, StrictOrder
    <2>3. Rank(R, S, x) + 1 <= Rank(R, S, z)
      <3>1. IsFiniteSet(Below(R, S, z))
        BY <1>3, <2>1
      <3>2. Cardinality(Below(R, S, x) \cup {x}) <= Cardinality(Below(R, S, z))
        BY <2>2, <3>1, FS_Subset
      <3> QED
        BY <1>2, <3>2 DEF Rank
    <2>4. Rank(R, S, z) \in Nat
      BY <1>3, <2>1 DEF Rank
    <2> QED
      BY <1>1, <2>3, <2>4
  <1> QED
    BY <1>4, <1>5

\* Elements are told apart by their rank.
LEMMA RankIsOwn ==
  ASSUME NEW S, NEW R, StrictOrder(R, S), IsFiniteSet(S), NEW x \in S, NEW y \in S,
         Rank(R, S, x) = Rank(R, S, y)
  PROVE  x = y
  <1>1. Rank(R, S, x) \in 0..(Cardinality(S) - 1) /\ Cardinality(S) \in Nat
    BY RankGrows, FS_CardinalityType
  <1>2. Rank(R, S, x) \in Int
    BY <1>1
  <1>3. <<x, y>> \in R => Rank(R, S, x) < Rank(R, S, y)
    BY RankGrows
  <1>4. <<y, x>> \in R => Rank(R, S, y) < Rank(R, S, x)
    BY RankGrows
  <1>5. x = y \/ <<x, y>> \in R \/ <<y, x>> \in R
    BY DEF StrictOrder
  <1> QED
    BY <1>2, <1>3, <1>4, <1>5

Ranks(S) == 0..(Cardinality(S) - 1)

\* Every rank is taken.
LEMMA RankTaken ==
  ASSUME NEW S, NEW R, StrictOrder(R, S), IsFiniteSet(S), NEW k \in Ranks(S)
  PROVE  \E x \in S : Rank(R, S, x) = k
  <1> DEFINE n == Cardinality(S)
             f == [x \in S |-> Rank(R, S, x)]
  <1>1. n \in Nat
    BY FS_CardinalityType
  <1>2. IsFiniteSet(0..(n - 1)) /\ Cardinality(0..(n - 1)) = n
    <2>1. 0 \in Int /\ n - 1 \in Int
      BY <1>1
    <2>2. Cardinality(0..(n - 1)) = IF 0 > n - 1 THEN 0 ELSE (n - 1) - 0 + 1
      BY <2>1, FS_Interval
    <2> QED
      BY <1>1, <2>1, <2>2, FS_Interval
  <1>3. f \in Injection(S, 0..(n - 1))
    <2>1. f \in [S -> 0..(n - 1)]
      BY RankGrows
    <2>2. ASSUME NEW x \in S, NEW z \in S, f[x] = f[z]
          PROVE  x = z
      <3>1. Rank(R, S, x) = Rank(R, S, z)
        BY <2>2
      <3> HIDE DEF f, n
      <3> QED
        BY <3>1, RankIsOwn
    <2> HIDE DEF f
    <2> QED
      BY <2>1, <2>2, Fun_IsInj
  <1>4. f \in Surjection(S, 0..(n - 1))
    <2> HIDE DEF f
    <2>1. Cardinality(S) = Cardinality(0..(n - 1))
      BY <1>2
    <2> QED
      BY <1>2, <1>3, <2>1, FS_Injection
  <1>5. \E x \in S : f[x] = k
    <2> HIDE DEF f
    <2> QED
      BY <1>4 DEF Surjection, Ranks
  <1> QED
    BY <1>5

\* A function that puts every element where its rank says lists the set.
IsListing(a, R, S) ==
  /\ a \in [1..Cardinality(S) -> S]
  /\ \A i \in 1..Cardinality(S) : Rank(R, S, a[i]) = i - 1

LEMMA ListedInOrder ==
  ASSUME NEW S, NEW R, StrictOrder(R, S), IsFiniteSet(S), NEW a, IsListing(a, R, S)
  PROVE  /\ a \in Seq(S) /\ Len(a) = Cardinality(S) /\ Cardinality(S) \in Nat
         /\ {a[i] : i \in DOMAIN a} = S
         /\ \A i \in 1..Len(a), j \in 1..Len(a) : i < j => <<a[i], a[j]>> \in R
  <1> DEFINE n == Cardinality(S)
  <1>1. n \in Nat
    BY FS_CardinalityType
  <1>2. /\ a \in Seq(S) /\ Len(a) = n /\ DOMAIN a = 1..n
    <2>1. a \in [1..n -> S]
      BY DEF IsListing
    <2> HIDE DEF n
    <2> QED
      BY <1>1, <2>1, SeqDef
  <1>3. ASSUME NEW x \in S
        PROVE  \E i \in 1..n : a[i] = x
    <2> DEFINE i == Rank(R, S, x) + 1
    <2>1. Rank(R, S, x) \in 0..(n - 1)
      BY RankGrows
    <2>2. i \in 1..n /\ Rank(R, S, x) \in Nat /\ i - 1 = Rank(R, S, x)
      <3> HIDE DEF n
      <3> QED
        BY <1>1, <2>1
    <2> HIDE DEF i
    <2>3. a[i] \in S /\ Rank(R, S, a[i]) = Rank(R, S, x)
      BY <2>2 DEF IsListing
    <2>4. a[i] = x
      BY <2>3, RankIsOwn
    <2> QED
      BY <2>2, <2>4
  <1>4. ASSUME NEW i \in 1..n, NEW j \in 1..n, i < j
        PROVE  <<a[i], a[j]>> \in R
    <2>1. a[i] \in S /\ a[j] \in S /\ Rank(R, S, a[i]) = i - 1 /\ Rank(R, S, a[j]) = j - 1
      BY DEF IsListing
    <2>2. i \in Int /\ j \in Int
      OBVIOUS
    <2>3. a[i] # a[j]
      BY <1>4, <2>1, <2>2
    <2>4. ~ <<a[j], a[i]>> \in R
      <3>1. <<a[j], a[i]>> \in R => Rank(R, S, a[j]) < Rank(R, S, a[i])
        BY <2>1, RankGrows
      <3> QED
        BY <1>4, <2>1, <2>2, <3>1
    <2> QED
      BY <2>1, <2>3, <2>4 DEF StrictOrder
  <1>5. \A i \in 1..n : a[i] \in S
    BY DEF IsListing
  <1> HIDE DEF n
  <1> QED
    BY <1>1, <1>2, <1>3, <1>4, <1>5 DEF n

Less == {w \in Nat \X Nat : w[1] < w[2]}

LEMMA LessIsOrder ==
  ASSUME NEW S, S \subseteq Nat
  PROVE  StrictOrder(Less, S)
  <1>1. \A x \in S, y \in S : <<x, y>> \in Less <=> x < y
    BY DEF Less
  <1>2. \A x \in S : x \in Nat
    OBVIOUS
  <1>3. \A x \in S : <<x, x>> \notin Less
    BY <1>1, <1>2
  <1>4. \A x \in S, y \in S, z \in S :
          <<x, y>> \in Less /\ <<y, z>> \in Less => <<x, z>> \in Less
    BY <1>1, <1>2
  <1>5. ASSUME NEW x \in S, NEW y \in S
        PROVE  x = y \/ <<x, y>> \in Less \/ <<y, x>> \in Less
    <2>1. x \in Nat /\ y \in Nat
      BY <1>2
    <2>2. x = y \/ x < y \/ y < x
      BY <2>1
    <2> QED
      BY <1>1, <2>2
  <1> QED
    BY <1>3, <1>4, <1>5 DEF StrictOrder

\* Ascending lists a finite set of numbers, each once, in their order.
LEMMA AscendingLists ==
  ASSUME NEW S, S \subseteq Nat, IsFiniteSet(S)
  PROVE  IsListing(Ascending(S), Less, S)
  <1> DEFINE n == Cardinality(S)
             a == Ascending(S)
             P(x, i) == Cardinality({y \in S : y < x}) = i - 1
  <1>1. n \in Nat /\ StrictOrder(Less, S)
    BY FS_CardinalityType, LessIsOrder
  <1>2. a = [i \in 1..n |-> CHOOSE x \in S : P(x, i)]
    BY DEF Ascending, InOrder
  <1>3. ASSUME NEW x \in S PROVE Rank(Less, S, x) = Cardinality({y \in S : y < x})
    <2>1. {y \in S : y < x} = Below(Less, S, x)
      <3>1. \A y \in S : y < x <=> <<y, x>> \in Less
        BY DEF Less
      <3> QED
        BY <3>1 DEF Below
    <2> QED
      BY <2>1 DEF Rank
  <1>4. ASSUME NEW i \in 1..n
        PROVE  a[i] \in S /\ Rank(Less, S, a[i]) = i - 1
    <2>1. i - 1 \in 0..(n - 1)
      BY <1>1
    <2>2. \E x \in S : Rank(Less, S, x) = i - 1
      <3> DEFINE k == i - 1
      <3>1. k \in Ranks(S)
        BY <2>1 DEF Ranks
      <3>2. StrictOrder(Less, S)
        BY <1>1
      <3>3. \A R : StrictOrder(R, S) => \E x \in S : Rank(R, S, x) = k
        <4> HIDE DEF k, n, P, a
        <4> QED
          BY <3>1, RankTaken
      <3>4. \E x \in S : Rank(Less, S, x) = k
        <4> HIDE DEF k, n, P, a
        <4> QED
          BY <3>2, <3>3
      <3> QED
        BY <3>4 DEF k
    <2>3. \E x \in S : P(x, i)
      BY <1>3, <2>2
    <2>4. a[i] = CHOOSE x \in S : P(x, i)
      BY <1>2
    <2>5. a[i] \in S /\ P(a[i], i)
      <3> HIDE DEF P, a
      <3> QED
        BY <2>3, <2>4
    <2> QED
      BY <1>3, <2>5
  <1>5. a \in [1..n -> S]
    BY <1>2, <1>4
  <1> QED
    BY <1>4, <1>5 DEF IsListing

LEMMA AscendingProperties ==
  ASSUME NEW S, S \subseteq Nat, IsFiniteSet(S)
  PROVE  /\ Cardinality(S) \in Nat
         /\ Ascending(S) \in Seq(S)
         /\ Len(Ascending(S)) = Cardinality(S)
         /\ {Ascending(S)[i] : i \in DOMAIN Ascending(S)} = S
         /\ \A i \in 1..Cardinality(S), j \in 1..Cardinality(S) :
              i < j => Ascending(S)[i] < Ascending(S)[j]
  <1> DEFINE a == Ascending(S)
  <1>1. IsListing(a, Less, S) /\ StrictOrder(Less, S)
    BY AscendingLists, LessIsOrder
  <1> HIDE DEF a
  <1>2. /\ a \in Seq(S) /\ Len(a) = Cardinality(S) /\ Cardinality(S) \in Nat
        /\ {a[i] : i \in DOMAIN a} = S
        /\ \A i \in 1..Len(a), j \in 1..Len(a) : i < j => <<a[i], a[j]>> \in Less
    BY <1>1, ListedInOrder
  <1>3. \A i \in 1..Len(a), j \in 1..Len(a) : i < j => a[i] < a[j]
    BY <1>2 DEF Less
  <1> QED
    BY <1>2, <1>3 DEF a

\* A number behind all others comes last.
LEMMA AscendingGrows ==
  ASSUME NEW S, S \subseteq Nat, IsFiniteSet(S), NEW m \in Nat, \A x \in S : x < m
  PROVE  Ascending(S \cup {m}) = Append(Ascending(S), m)
  <1> DEFINE n == Cardinality(S)
             T == S \cup {m}
             a == Ascending(S)
             b == Ascending(T)
  <1>1. m \notin S
    <2>1. ~ m < m
      OBVIOUS
    <2> QED
      BY <2>1
  <1>2. n \in Nat /\ T \subseteq Nat /\ IsFiniteSet(T) /\ Cardinality(T) = n + 1
    BY <1>1, FS_CardinalityType, FS_AddElement
  <1>3. IsListing(a, Less, S) /\ IsListing(b, Less, T) /\ StrictOrder(Less, T)
    BY <1>2, AscendingLists, LessIsOrder
  <1>4. a \in Seq(S) /\ Len(a) = n /\ b \in Seq(T) /\ Len(b) = n + 1
    BY <1>2, AscendingProperties
  <1> HIDE DEF a, b
  <1>5. ASSUME NEW x \in S PROVE Below(Less, T, x) = Below(Less, S, x)
    <2>1. <<m, x>> \notin Less
      <3>1. x < m /\ x \in Nat
        OBVIOUS
      <3> QED
        BY <3>1 DEF Less
    <2> QED
      BY <2>1 DEF Below
  <1>6. Below(Less, T, m) = S
    <2>1. \A x \in S : <<x, m>> \in Less
      BY DEF Less
    <2>2. <<m, m>> \notin Less
      BY DEF Less
    <2> QED
      BY <2>1, <2>2 DEF Below
  <1>7. ASSUME NEW i \in 1..n PROVE b[i] = a[i]
    <2>1. a[i] \in S /\ Rank(Less, S, a[i]) = i - 1
      BY <1>3 DEF IsListing
    <2>2. Rank(Less, T, a[i]) = i - 1
      BY <1>5, <2>1 DEF Rank
    <2>3. i \in 1..Cardinality(T)
      BY <1>2
    <2>4. b[i] \in T /\ Rank(Less, T, b[i]) = i - 1
      BY <1>3, <2>3 DEF IsListing
    <2>5. a[i] \in T
      BY <2>1
    <2> HIDE DEF T
    <2> QED
      BY <1>2, <1>3, <2>2, <2>4, <2>5, RankIsOwn
  <1>8. b[n + 1] = m
    <2>1. Rank(Less, T, m) = n
      BY <1>6 DEF Rank
    <2>2. n + 1 \in 1..Cardinality(T) /\ (n + 1) - 1 = n
      BY <1>2
    <2>3. b[n + 1] \in T /\ Rank(Less, T, b[n + 1]) = n
      BY <1>3, <2>2 DEF IsListing
    <2>4. m \in T
      OBVIOUS
    <2> HIDE DEF T
    <2> QED
      BY <1>2, <1>3, <2>1, <2>3, <2>4, RankIsOwn
  <1> HIDE DEF n
  <1>9. Append(a, m) \in Seq(T) /\ Len(Append(a, m)) = n + 1
    BY <1>2, <1>4
  <1>10. \A i \in 1..(n + 1) : Append(a, m)[i] = b[i]
    BY <1>2, <1>4, <1>7, <1>8
  <1> HIDE DEF T
  <1>11. b = Append(a, m)
    BY <1>4, <1>9, <1>10, SeqEqual
  <1> QED
    BY <1>11 DEF a, b, T
===========================================================================

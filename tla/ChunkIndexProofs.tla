------------------------- MODULE ChunkIndexProofs -------------------------
(***************************************************************************)
(* What the operators of ChunkIndex compute, for files and chunks of every *)
(* size: the rolling checksum, the index files, the search in them.        *)
(***************************************************************************)
EXTENDS ChunkIndex, SequenceLemmas

(* Remainders.                                                             *)

\* A sum of remainders, and a difference that is not below 0.
Reduces(a, b, c, m) == ((a % m) + b + m - (c % m)) % m = (a + b - c) % m

LEMMA Reduced ==
  ASSUME NEW a \in Nat, NEW b \in Nat, NEW c \in Nat, NEW m \in Nat \ {0}
  PROVE  Reduces(a, b, c, m)
  <1>1. a \in Int /\ c \in Int
    OBVIOUS
  <1>2. PICK p \in Int : a = m * p + (a % m) /\ a % m \in 0..(m - 1)
    BY <1>1, Division
  <1>3. PICK q \in Int : c = m * q + (c % m) /\ c % m \in 0..(m - 1)
    BY <1>1, Division
  <1>4. PICK r \in 0..(m - 1) : r = a % m
    BY <1>2
  <1>5. PICK s \in 0..(m - 1) : s = c % m
    BY <1>3
  <1>6. PICK x \in Int : x = q - p + 1
    OBVIOUS
  <1>7. m * x = m * q - m * p + m /\ m * p \in Int /\ m * q \in Int
    BY <1>6
  <1>8. PICK y \in Int : y = r + b + m - s
    OBVIOUS
  <1>9. PICK z \in Int : z = a + b - c
    OBVIOUS
  <1>10. y = z + m * x
    BY <1>2, <1>3, <1>4, <1>5, <1>7, <1>8, <1>9
  <1>11. y % m = z % m
    BY <1>10, SameRemainder
  <1> QED
    BY <1>4, <1>5, <1>8, <1>9, <1>11 DEF Reduces
--------------------------------------------------------------------------
(* Pieces of files.                                                        *)

\* How many bytes a piece has.
LengthOf(file, offset, count) ==
  IF offset < Len(file) THEN Least(count, Len(file) - offset) ELSE 0

LEMMA PieceFacts ==
  ASSUME NEW S, NEW file \in Seq(S), NEW offset \in Nat, NEW count \in Nat
  PROVE  /\ Piece(file, offset, count) \in Seq(S)
         /\ Len(Piece(file, offset, count)) = LengthOf(file, offset, count)
         /\ LengthOf(file, offset, count) \in Nat
         /\ \A i \in 1..LengthOf(file, offset, count) :
              Piece(file, offset, count)[i] = file[offset + i]
  <1> DEFINE m == offset + 1
             n == Least(offset + count, Len(file))
             l == LengthOf(file, offset, count)
             q == SubSeq(file, m, n)
  <1>1. Len(file) \in Nat /\ n \in Nat /\ n <= Len(file) /\ m \in Nat
    BY DEF Least
  <1>2. Piece(file, offset, count) = q
    BY DEF Piece
  <1>3. l \in Nat /\ (offset < Len(file) => l = n - offset)
    BY <1>1 DEF LengthOf, Least
  <1>4. CASE offset < Len(file)
    <2>1. m \in 1..(Len(file) + 1) /\ n \in (m - 1)..Len(file)
      BY <1>1, <1>4 DEF Least
    <2>2. /\ q \in Seq(S) /\ Len(q) = n - m + 1
          /\ \A i \in 1..(n - m + 1) : q[i] = file[m + i - 1]
      BY <2>1, SubSeqProperties
    <2>3. n - m + 1 = l
      BY <1>1, <1>3, <1>4
    <2>4. \A i \in 1..l : m + i - 1 = offset + i
      BY <1>3
    <2> HIDE DEF l, q
    <2>5. \A i \in 1..l : q[i] = file[offset + i]
      BY <2>2, <2>3, <2>4
    <2> QED
      BY <1>2, <1>3, <2>2, <2>3, <2>5 DEF l
  <1>5. CASE ~(offset < Len(file))
    <2>1. l = 0
      BY <1>5 DEF LengthOf
    <2>2. n < m
      BY <1>1, <1>5
    <2>3. q = <<>>
      <3> HIDE DEF n, m
      <3> QED
        BY <1>1, <2>2
    <2> HIDE DEF l, q
    <2>4. <<>> \in Seq(S) /\ Len(<<>>) = 0
      OBVIOUS
    <2> QED
      BY <1>2, <2>1, <2>3, <2>4 DEF l
  <1> QED
    BY <1>4, <1>5

\* Equal pieces, and their bytes.
Coincide(file, a, m, other, b, n) ==
  /\ LengthOf(file, a, m) = LengthOf(other, b, n)
  /\ \A i \in 1..LengthOf(file, a, m) : file[a + i] = other[b + i]

LEMMA SamePieces ==
  ASSUME NEW S, NEW file \in Seq(S), NEW other \in Seq(S),
         NEW a \in Nat, NEW m \in Nat, NEW b \in Nat, NEW n \in Nat,
         Coincide(file, a, m, other, b, n)
  PROVE  Piece(file, a, m) = Piece(other, b, n)
  <1> DEFINE s == Piece(file, a, m)
             t == Piece(other, b, n)
             l == LengthOf(file, a, m)
  <1>1. s \in Seq(S) /\ Len(s) = l /\ l \in Nat
    BY PieceFacts
  <1>2. \A i \in 1..l : s[i] = file[a + i]
    BY PieceFacts
  <1>3. t \in Seq(S) /\ Len(t) = l
    BY PieceFacts DEF Coincide
  <1>4. \A i \in 1..l : t[i] = other[b + i]
    <2>1. \A i \in 1..LengthOf(other, b, n) : t[i] = other[b + i]
      BY PieceFacts
    <2> QED
      BY <2>1 DEF Coincide
  <1> HIDE DEF s, t
  <1>5. \A i \in 1..l : s[i] = t[i]
    BY <1>2, <1>4 DEF Coincide
  <1> HIDE DEF l
  <1>6. s = t
    BY <1>1, <1>3, <1>5, SeqEqual
  <1> QED
    BY <1>6 DEF s, t

ByteAt(file, offset, i) == file[offset + i]

LEMMA SameBytes ==
  ASSUME NEW S, NEW file \in Seq(S), NEW other \in Seq(S),
         NEW a \in Nat, NEW m \in Nat, NEW b \in Nat, NEW n \in Nat,
         Piece(file, a, m) = Piece(other, b, n),
         NEW i \in 1..LengthOf(file, a, m)
  PROVE  /\ LengthOf(file, a, m) = LengthOf(other, b, n)
         /\ ByteAt(file, a, i) = ByteAt(other, b, i)
  <1> DEFINE s == Piece(file, a, m)
             t == Piece(other, b, n)
  <1>1. Len(s) = LengthOf(file, a, m) /\ Len(t) = LengthOf(other, b, n)
    BY PieceFacts
  <1>2. s[i] = file[a + i]
    BY PieceFacts
  <1>3. \A j \in 1..LengthOf(other, b, n) : t[j] = other[b + j]
    BY PieceFacts
  <1>4. s = t
    OBVIOUS
  <1> HIDE DEF s, t
  <1>5. s[i] = t[i] /\ t[i] = other[b + i]
    BY <1>1, <1>3, <1>4
  <1> QED
    BY <1>1, <1>2, <1>4, <1>5 DEF ByteAt
--------------------------------------------------------------------------
(* Checksums.                                                              *)

Sums == [alpha : Nat, beta : Nat]

\* s has the sums of FullChecksum after every number of bytes.
SumsOf(s, piece) ==
  /\ s \in [0..Len(piece) -> Sums]
  /\ s[0] = [alpha |-> 0, beta |-> 0]
  /\ \A k \in 1..Len(piece) :
       /\ s[k].alpha = s[k - 1].alpha + piece[k]
       /\ s[k].beta = s[k - 1].beta + (Len(piece) - k + 1) * piece[k]
  /\ FullChecksum(piece) = [alpha |-> s[Len(piece)].alpha % ChecksumModulo,
                            beta  |-> s[Len(piece)].beta % ChecksumModulo]

LEMMA FullChecksumSums ==
  ASSUME NEW piece \in Seq(Nat)
  PROVE  \E s : SumsOf(s, piece)
  <1> DEFINE n == Len(piece)
             zero == [alpha |-> 0, beta |-> 0]
             Next(k, sum) == [alpha |-> sum.alpha + piece[k],
                              beta  |-> sum.beta + (n - k + 1) * piece[k]]
             Rule(f) == f = [k \in 0..n |-> IF k = 0 THEN [alpha |-> 0, beta |-> 0]
                                            ELSE [alpha |-> f[k - 1].alpha + piece[k],
                                                  beta  |-> f[k - 1].beta + (n - k + 1) * piece[k]]]
             sum == CHOOSE f : Rule(f)
             G == [x \in Nat \X Sums |-> IF x[1] \in 1..n THEN Next(x[1], x[2]) ELSE zero]
  <1>1. n \in Nat /\ \A k \in 1..n : piece[k] \in Nat
    OBVIOUS
  <1>2. zero \in Sums
    BY DEF Sums
  <1>3. ASSUME NEW k \in 1..n, NEW x \in Sums PROVE Next(k, x) \in Sums
    <2>1. x.alpha \in Nat /\ x.beta \in Nat
      BY DEF Sums
    <2>2. piece[k] \in Nat /\ n - k + 1 \in Nat
      BY <1>1
    <2>3. (n - k + 1) * piece[k] \in Nat
      BY <2>2
    <2> HIDE DEF n
    <2>4. x.alpha + piece[k] \in Nat /\ x.beta + (n - k + 1) * piece[k] \in Nat
      BY <2>1, <2>2, <2>3
    <2> QED
      BY <2>4 DEF Sums
  <1>4. G \in [Nat \X Sums -> Sums]
    <2> HIDE DEF Next, zero, n
    <2> QED
      BY <1>2, <1>3
  <1>5. PICK f : Unrolls(f, n, Sums, zero, G)
    <2> HIDE DEF G, zero, n
    <2> QED
      BY <1>1, <1>2, <1>4, FiniteRecursion
  <1>6. f \in [0..n -> Sums] /\ f[0] = zero
    <2> HIDE DEF G, zero, n
    <2> QED
      BY <1>5 DEF Unrolls
  <1>7. ASSUME NEW k \in 1..n PROVE f[k] = Next(k, f[k - 1])
    <2>1. f[k] = G[<<k, f[k - 1]>>]
      <3> HIDE DEF G, zero, n
      <3> QED
        BY <1>5 DEF Unrolls
    <2>2. k \in Nat /\ k - 1 \in 0..n
      BY <1>1
    <2>3. f[k - 1] \in Sums
      <3> HIDE DEF n
      <3> QED
        BY <1>6, <2>2
    <2>4. G[<<k, f[k - 1]>>] = Next(k, f[k - 1])
      <3> HIDE DEF Next, zero, n
      <3> QED
        BY <2>2, <2>3
    <2> QED
      BY <2>1, <2>4
  <1>8. Rule(f)
    <2> DEFINE E(k) == IF k = 0 THEN zero ELSE Next(k, f[k - 1])
    <2>1. \A k \in 0..n : f[k] = E(k)
      <3>1. \A k \in 0..n : k = 0 \/ k \in 1..n
        BY <1>1
      <3> HIDE DEF Next, zero, n
      <3> QED
        BY <1>6, <1>7, <3>1
    <2>2. f = [k \in 0..n |-> E(k)]
      <3> HIDE DEF E, n
      <3> QED
        BY <1>6, <2>1
    <2> QED
      BY <2>2
  <1>9. Rule(sum)
    <2> HIDE DEF Rule
    <2> QED
      BY <1>8
  <1>10. FullChecksum(piece) = [alpha |-> sum[n].alpha % ChecksumModulo,
                                beta  |-> sum[n].beta % ChecksumModulo]
    BY DEF FullChecksum
  <1>11. sum[0] = zero /\ \A k \in 1..n : sum[k] = Next(k, sum[k - 1])
    <2>1. sum = [k \in 0..n |-> IF k = 0 THEN zero ELSE Next(k, sum[k - 1])]
      BY <1>9
    <2>2. 0 \in 0..n /\ \A k \in 1..n : k \in 0..n /\ k # 0
      BY <1>1
    <2> HIDE DEF sum, zero, Next, n
    <2> QED
      BY <2>1, <2>2
  <1>12. \A k \in 0..n : f[k] = sum[k]
    <2>1. f[0] = sum[0]
      BY <1>6, <1>11
    <2>2. InStep(f, sum, n)
      <3> HIDE DEF sum, zero, Next, n
      <3> QED
        BY <1>7, <1>11 DEF InStep
    <2> HIDE DEF sum, n
    <2> QED
      BY <1>1, <2>1, <2>2, GoOnAlike
  <1>13. f[n] = sum[n]
    BY <1>1, <1>12
  <1>14. SumsOf(f, piece)
    <2>1. FullChecksum(piece) = [alpha |-> f[n].alpha % ChecksumModulo,
                                 beta  |-> f[n].beta % ChecksumModulo]
      BY <1>10, <1>13
    <2>2. \A k \in 1..n : /\ f[k].alpha = f[k - 1].alpha + piece[k]
                          /\ f[k].beta = f[k - 1].beta + (n - k + 1) * piece[k]
      <3> SUFFICES ASSUME NEW k \in 1..n
                   PROVE  /\ f[k].alpha = f[k - 1].alpha + piece[k]
                          /\ f[k].beta = f[k - 1].beta + (n - k + 1) * piece[k]
        OBVIOUS
      <3>1. f[k] = [alpha |-> f[k - 1].alpha + piece[k],
                    beta  |-> f[k - 1].beta + (n - k + 1) * piece[k]]
        BY <1>7
      <3> HIDE DEF n
      <3> QED
        BY <3>1
    <2> QED
      BY <1>6, <2>1, <2>2 DEF SumsOf
  <1> QED
    BY <1>14

LEMMA MinusNumber ==
  ASSUME NEW a \in Nat, NEW b \in Nat
  PROVE  Minus(a, b) \in Nat
  <1>1. ChecksumModulo \in Nat \ {0}
    BY ChunkIndexAssumption
  <1>2. PICK r \in 0..(ChecksumModulo - 1) : r = b % ChecksumModulo
    <2>1. b \in Int
      OBVIOUS
    <2> QED
      BY <1>1, <2>1, Division
  <1>3. PICK x \in Int : x = a + ChecksumModulo - r
    BY <1>1
  <1>4. x % ChecksumModulo \in 0..(ChecksumModulo - 1)
    BY <1>1, Division
  <1> QED
    BY <1>1, <1>2, <1>3, <1>4 DEF Minus

\* What the sums of a window say of the window one byte later.
LEMMA SlidingSums ==
  ASSUME NEW w \in Seq(Nat), NEW v \in Seq(Nat), NEW n \in Nat \ {0},
         Len(w) = n, Len(v) = n, \A i \in 1..(n - 1) : v[i] = w[i + 1]
  PROVE  FullChecksum(v) = Rolled(FullChecksum(w), w[1], v[n], n)
  <1>1. \A i \in 1..n : w[i] \in Nat /\ v[i] \in Nat
    OBVIOUS
  <1>2. PICK s : SumsOf(s, w)
    BY FullChecksumSums
  <1>3. PICK t : SumsOf(t, v)
    BY FullChecksumSums
  <1>4. \A i \in 0..n : /\ s[i].alpha \in Nat /\ s[i].beta \in Nat
                        /\ t[i].alpha \in Nat /\ t[i].beta \in Nat
    BY <1>2, <1>3 DEF SumsOf, Sums
  <1>0. PICK out \in Nat : out = w[1]
    BY <1>1
  <1> DEFINE T == {i \in Nat : i \in 0..(n - 1) =>
                     /\ t[i].alpha = s[i + 1].alpha - out
                     /\ t[i].beta = s[i + 1].beta + t[i].alpha - n * out}
  <1>5. n * out \in Nat
    OBVIOUS
  <1>6. 0 \in T
    <2>1. t[0].alpha = 0 /\ t[0].beta = 0 /\ s[0].alpha = 0 /\ s[0].beta = 0
      BY <1>2, <1>3 DEF SumsOf
    <2>2. 1 \in 1..n
      OBVIOUS
    <2>3. s[1].alpha = s[1 - 1].alpha + w[1] /\ s[1].beta = s[1 - 1].beta + (n - 1 + 1) * w[1]
      BY <1>2, <2>2 DEF SumsOf
    <2>4. n - 1 + 1 = n /\ 1 - 1 = 0 /\ 0 + 1 = 1
      OBVIOUS
    <2>5. s[1].alpha = out /\ s[1].beta = n * out
      BY <2>1, <2>3, <2>4, <1>0, <1>5
    <2> QED
      BY <2>1, <2>4, <2>5, <1>5
  <1>7. ASSUME NEW j \in Nat, j \in T PROVE j + 1 \in T
    <2> SUFFICES ASSUME j + 1 \in 0..(n - 1)
                 PROVE  /\ t[j + 1].alpha = s[j + 1 + 1].alpha - out
                        /\ t[j + 1].beta = s[j + 1 + 1].beta + t[j + 1].alpha - n * out
      OBVIOUS
    <2>1. PICK i \in 1..(n - 1) : i = j + 1
      OBVIOUS
    <2>2. j \in 0..(n - 1) /\ j = i - 1 /\ i \in 1..n /\ i + 1 \in 1..n /\ (i + 1) - 1 = i
      BY <2>1
    <2>3. t[j].alpha = s[i].alpha - out /\ t[j].beta = s[i].beta + t[j].alpha - n * out
      BY <1>7, <2>1, <2>2
    <2>4. PICK b \in Nat : b = v[i] /\ b = w[i + 1]
      BY <1>1, <2>2
    <2>5. t[i].alpha = t[j].alpha + b /\ t[i].beta = t[j].beta + (n - i + 1) * b
      BY <1>3, <2>2, <2>4 DEF SumsOf
    <2>6. /\ s[i + 1].alpha = s[(i + 1) - 1].alpha + w[i + 1]
          /\ s[i + 1].beta = s[(i + 1) - 1].beta + (n - (i + 1) + 1) * w[i + 1]
      BY <1>2, <2>2 DEF SumsOf
    <2>7. n - (i + 1) + 1 = n - i
      OBVIOUS
    <2>8. s[i + 1].alpha = s[i].alpha + b /\ s[i + 1].beta = s[i].beta + (n - i) * b
      BY <2>2, <2>4, <2>6, <2>7
    <2>9. (n - i + 1) * b = (n - i) * b + b /\ (n - i) * b \in Int
      BY <2>4
    <2>10. PICK e \in Nat, f \in Nat, g \in Nat, h \in Nat, k \in Nat, z \in Nat :
             /\ e = s[i].alpha /\ f = s[i].beta /\ g = s[i + 1].alpha /\ h = s[i + 1].beta
             /\ k = n * out /\ z = t[j].alpha
      <3>1. i \in 0..n /\ i + 1 \in 0..n /\ j \in 0..n
        BY <2>2
      <3> QED
        BY <1>4, <1>5, <3>1
    <2>11. z = e - out /\ t[j].beta = f + z - k /\ g = e + b /\ t[i].alpha = z + b
      BY <2>3, <2>5, <2>8, <2>10
    <2>12. t[i].alpha = g - out
      BY <2>11
    <2>13. PICK y \in Int : y = (n - i) * b
      BY <2>9
    <2>14. h = f + y /\ t[i].beta = (f + z - k) + (y + b)
      BY <2>5, <2>8, <2>9, <2>10, <2>11, <2>13
    <2>15. t[i].beta = h + (z + b) - k
      BY <2>14
    <2> QED
      BY <2>1, <2>10, <2>11, <2>12, <2>15
  <1>8. Nat \subseteq T
    <2> HIDE DEF T
    <2> QED
      BY <1>6, <1>7, SetInduction
  <1> DEFINE m == n - 1
  <1>9. m \in 0..(n - 1) /\ m \in Nat /\ m + 1 = n /\ n \in 1..n /\ m \in 0..n /\ n \in 0..n
    OBVIOUS
  <1>10. t[m].alpha = s[n].alpha - out /\ t[m].beta = s[n].beta + t[m].alpha - n * out
    <2> HIDE DEF m
    <2> QED
      BY <1>8, <1>9
  <1>11. PICK in \in Nat : in = v[n]
    BY <1>1, <1>9
  <1>12. t[n].alpha = t[m].alpha + in /\ t[n].beta = t[m].beta + in
    <2>1. t[n].alpha = t[n - 1].alpha + v[n] /\ t[n].beta = t[n - 1].beta + (n - n + 1) * v[n]
      BY <1>3, <1>9 DEF SumsOf
    <2>2. (n - n + 1) * v[n] = v[n]
      BY <1>1, <1>9
    <2> QED
      BY <1>11, <2>1, <2>2
  <1>13. PICK a \in Nat, b \in Nat, c \in Nat, d \in Nat, k \in Nat :
           /\ a = s[n].alpha /\ b = s[n].beta /\ c = t[n].alpha /\ d = t[n].beta
           /\ k = n * out
    BY <1>4, <1>5, <1>9
  <1>14. c = a + in - out /\ d = b + c - k
    <2>1. PICK e \in Nat, f \in Nat : e = t[m].alpha /\ f = t[m].beta
      BY <1>4, <1>9
    <2>2. e = a - out /\ f = b + e - k /\ c = e + in /\ d = f + in
      BY <1>10, <1>12, <1>13, <2>1
    <2> QED
      BY <2>2
  <1>15. PICK M \in Nat \ {0} : M = ChecksumModulo
    BY ChunkIndexAssumption
  <1>16. PICK x \in Nat : x = c % M
    <2>1. c \in Int
      OBVIOUS
    <2>2. PICK r \in 0..(M - 1) : r = c % M
      BY <2>1, Division
    <2> QED
      BY <2>2
  <1>17. Minus((a % M) + in, out) = x
    <2>1. Reduces(a, in, out, M)
      BY Reduced
    <2> QED
      BY <1>14, <1>15, <1>16, <2>1 DEF Minus, Reduces
  <1>18. Minus((b % M) + x, k) = d % M
    <2>1. Reduces(b, x, k, M)
      BY Reduced
    <2>2. PICK p \in Int : c = M * p + (c % M)
      <3>1. c \in Int
        OBVIOUS
      <3> QED
        BY <3>1, Division
    <2>3. PICK y \in Int : y = b + x - k
      OBVIOUS
    <2>4. d = y + M * p
      <3>1. PICK q \in Int : q = M * p
        OBVIOUS
      <3>2. c = q + x
        BY <1>16, <2>2, <3>1
      <3> QED
        BY <3>1, <3>2, <1>14, <2>3
    <2>5. d % M = y % M
      <3>1. d \in Int
        OBVIOUS
      <3> QED
        BY <2>4, <3>1, SameRemainder
    <2> QED
      BY <1>15, <2>1, <2>3, <2>5 DEF Minus, Reduces
  <1>19. FullChecksum(w) = [alpha |-> a % M, beta |-> b % M]
    BY <1>2, <1>13, <1>15 DEF SumsOf
  <1>20. FullChecksum(v) = [alpha |-> x, beta |-> d % M]
    BY <1>3, <1>13, <1>15, <1>16 DEF SumsOf
  <1>21. Rolled(FullChecksum(w), w[1], v[n], n) = [alpha |-> x, beta |-> d % M]
    BY <1>0, <1>11, <1>13, <1>17, <1>18, <1>19 DEF Rolled
  <1> QED
    BY <1>20, <1>21

\* A window of a file.
LEMMA WindowFacts ==
  ASSUME NEW file \in Seq(Nat), NEW length \in Nat \ {0},
         NEW k \in 0..(Len(file) - length)
  PROVE  /\ Piece(file, k, length) \in Seq(Nat)
         /\ Len(Piece(file, k, length)) = length
         /\ \A i \in 1..length : Piece(file, k, length)[i] = file[k + i]
  <1>1. Len(file) \in Nat /\ k \in Nat /\ k < Len(file) /\ length <= Len(file) - k
    OBVIOUS
  <1>2. LengthOf(file, k, length) = length
    BY <1>1 DEF LengthOf, Least
  <1>3. k \in Nat /\ length \in Nat
    BY <1>1
  <1>4. Piece(file, k, length) \in Seq(Nat)
    BY <1>3, PieceFacts
  <1>5. Len(Piece(file, k, length)) = LengthOf(file, k, length)
    BY <1>3, PieceFacts
  <1>6. \A i \in 1..LengthOf(file, k, length) : Piece(file, k, length)[i] = file[k + i]
    BY <1>3, PieceFacts
  <1> QED
    BY <1>2, <1>4, <1>5, <1>6

\* sum has the checksum of every window, each made from the one before.
RolledAlong(sum, file, length) ==
  sum = [k \in 0..(Len(file) - length) |->
           IF k = 0
           THEN FullChecksum(Piece(file, 0, length))
           ELSE Rolled(sum[k - 1], file[k], file[k + length], length)]

LEMMA RollingWindows ==
  ASSUME NEW file \in Seq(Nat), NEW length \in Nat \ {0}
  PROVE  RollingSums(file, length) =
           [k \in 0..(Len(file) - length) |-> FullChecksum(Piece(file, k, length))]
  <1> DEFINE n == Len(file) - length
             f == [k \in 0..n |-> FullChecksum(Piece(file, k, length))]
             sum == CHOOSE g : RolledAlong(g, file, length)
  <1>1. n \in Int
    OBVIOUS
  <1>2. ASSUME NEW k \in 0..n, k # 0
        PROVE  f[k] = Rolled(f[k - 1], file[k], file[k + length], length)
    <2>1. PICK j \in 0..n : j = k - 1
      BY <1>1, <1>2
    <2> DEFINE w == Piece(file, j, length)
               v == Piece(file, k, length)
    <2>2. /\ w \in Seq(Nat) /\ Len(w) = length
          /\ \A i \in 1..length : w[i] = file[j + i]
      BY WindowFacts
    <2>3. /\ v \in Seq(Nat) /\ Len(v) = length
          /\ \A i \in 1..length : v[i] = file[k + i]
      BY WindowFacts
    <2>4. f[k] = FullChecksum(v) /\ f[j] = FullChecksum(w)
      OBVIOUS
    <2> HIDE DEF w, v, f
    <2>5. ASSUME NEW i \in 1..(length - 1) PROVE v[i] = w[i + 1]
      <3>1. i \in 1..length /\ i + 1 \in 1..length /\ j + (i + 1) = k + i
        BY <2>1, <1>1
      <3>2. v[i] = file[k + i] /\ w[i + 1] = file[j + (i + 1)]
        BY <2>2, <2>3, <3>1
      <3> QED
        BY <3>1, <3>2
    <2>6. FullChecksum(v) = Rolled(FullChecksum(w), w[1], v[length], length)
      BY <2>2, <2>3, <2>5, SlidingSums
    <2>7. w[1] = file[k] /\ v[length] = file[k + length]
      <3>1. 1 \in 1..length /\ length \in 1..length /\ j + 1 = k
        BY <2>1, <1>1
      <3>2. w[1] = file[j + 1] /\ v[length] = file[k + length]
        BY <2>2, <2>3, <3>1
      <3> QED
        BY <3>1, <3>2
    <2> QED
      BY <2>1, <2>4, <2>6, <2>7
  <1>3. RolledAlong(f, file, length)
    <2> DEFINE E(k) == IF k = 0 THEN FullChecksum(Piece(file, 0, length))
                       ELSE Rolled(f[k - 1], file[k], file[k + length], length)
    <2>1. \A k \in 0..n : f[k] = E(k)
      <3> SUFFICES ASSUME NEW k \in 0..n PROVE f[k] = E(k)
        OBVIOUS
      <3>1. CASE k = 0
        BY <3>1
      <3>2. CASE k # 0
        <4> HIDE DEF f, n
        <4> QED
          BY <3>2, <1>2
      <3> QED
        BY <3>1, <3>2
    <2>2. f = [k \in 0..n |-> f[k]]
      OBVIOUS
    <2>3. f = [k \in 0..n |-> E(k)]
      <3> HIDE DEF f, E, n
      <3> QED
        BY <2>1, <2>2
    <2> HIDE DEF f
    <2> QED
      BY <2>3 DEF RolledAlong
  <1>4. RolledAlong(sum, file, length)
    <2> HIDE DEF f
    <2> QED
      BY <1>3
  <1>5. RollingSums(file, length) = sum
    BY DEF RollingSums, RolledAlong
  <1>6. /\ sum = [k \in 0..n |-> sum[k]]
        /\ 0 \in 0..n => sum[0] = FullChecksum(Piece(file, 0, length))
        /\ \A k \in 0..n : k # 0 =>
             sum[k] = Rolled(sum[k - 1], file[k], file[k + length], length)
    <2>1. sum = [k \in 0..n |->
                   IF k = 0 THEN FullChecksum(Piece(file, 0, length))
                   ELSE Rolled(sum[k - 1], file[k], file[k + length], length)]
      BY <1>4 DEF RolledAlong
    <2> HIDE DEF sum, n
    <2> QED
      BY <2>1
  <1>7. \A k \in 0..n : sum[k] = f[k]
    <2>1. CASE n < 0
      BY <1>1, <2>1
    <2>2. CASE ~(n < 0)
      <3>1. n \in Nat /\ 0 \in 0..n
        BY <1>1, <2>2
      <3>2. f[0] = sum[0]
        <4>1. f[0] = FullChecksum(Piece(file, 0, length))
          BY <3>1
        <4> HIDE DEF f, sum, n
        <4> QED
          BY <1>6, <3>1, <4>1
      <3>3. InStep(f, sum, n)
        <4> SUFFICES ASSUME NEW k \in 1..n, f[k - 1] = sum[k - 1] PROVE f[k] = sum[k]
          BY DEF InStep
        <4>1. k \in 0..n /\ k # 0
          BY <1>1
        <4> HIDE DEF f, sum, n
        <4> QED
          BY <1>2, <1>6, <4>1
      <3> HIDE DEF f, sum, n
      <3>4. \A k \in 0..n : f[k] = sum[k]
        BY <3>1, <3>2, <3>3, GoOnAlike
      <3> QED
        BY <3>4
    <2> QED
      BY <2>1, <2>2
  <1>8. sum = f
    <2>1. f = [k \in 0..n |-> f[k]]
      OBVIOUS
    <2> HIDE DEF f, sum, n
    <2> QED
      BY <1>6, <1>7, <2>1
  <1> QED
    BY <1>5, <1>8

LEMMA ChecksumNumber ==
  ASSUME NEW piece \in Seq(Nat)
  PROVE  Checksum(FullChecksum(piece)) \in Nat
  <1>1. PICK s : SumsOf(s, piece)
    BY FullChecksumSums
  <1>2. PICK a \in Nat, b \in Nat : a = s[Len(piece)].alpha /\ b = s[Len(piece)].beta
    <2>1. Len(piece) \in 0..Len(piece)
      OBVIOUS
    <2> QED
      BY <1>1, <2>1 DEF SumsOf, Sums
  <1>3. PICK m \in Nat \ {0} : m = ChecksumModulo
    BY ChunkIndexAssumption
  <1>4. PICK x \in 0..(m - 1) : x = a % m
    <2>1. a \in Int
      OBVIOUS
    <2> QED
      BY <2>1, Division
  <1>5. PICK y \in 0..(m - 1) : y = b % m
    <2>1. b \in Int
      OBVIOUS
    <2> QED
      BY <2>1, Division
  <1>6. FullChecksum(piece) = [alpha |-> x, beta |-> y]
    BY <1>1, <1>2, <1>3, <1>4, <1>5 DEF SumsOf
  <1>7. Checksum(FullChecksum(piece)) = x + y * m
    BY <1>3, <1>6 DEF Checksum
  <1>8. x \in Nat /\ y \in Nat /\ m \in Nat
    OBVIOUS
  <1>9. x + y * m \in Nat
    BY <1>8
  <1> QED
    BY <1>7, <1>9
--------------------------------------------------------------------------
(* The index files.                                                        *)

EntryType == [checksum : Nat, relative : Nat]

Taken(R, S, rank) == \E x \in S : Rank(R, S, x) = rank

LEMMA PlaceTaken ==
  ASSUME NEW S, NEW R, StrictOrder(R, S), IsFiniteSet(S), NEW rank \in Nat,
         rank < Cardinality(S)
  PROVE  Taken(R, S, rank)
  <1>1. Cardinality(S) \in Nat
    BY FS_CardinalityType
  <1>2. rank \in Ranks(S)
    BY <1>1 DEF Ranks
  <1> QED
    BY <1>2, RankTaken DEF Taken

\* The order of the windows in a file, as a set of pairs.
ComesBefore(entry, j, k) == Before(entry[j], entry[k]) \/ (entry[j] = entry[k] /\ j < k)

Earlier(entry, V) == {w \in V \X V : ComesBefore(entry, w[1], w[2])}

LEMMA EarlierIsOrder ==
  ASSUME NEW V, V \subseteq Nat, NEW entry, \A k \in V : entry[k] \in EntryType
  PROVE  StrictOrder(Earlier(entry, V), V)
  <1> DEFINE R == Earlier(entry, V)
             Comes(j, k) == ComesBefore(entry, j, k)
  <1>1. \A x \in V, y \in V : <<x, y>> \in R <=> Comes(x, y)
    BY DEF Earlier
  <1>2. \A x \in V : x \in Nat /\ entry[x].checksum \in Nat /\ entry[x].relative \in Nat
    BY DEF EntryType
  <1> HIDE DEF R
  <1>3. \A x \in V : <<x, x>> \notin R
    BY <1>1, <1>2 DEF ComesBefore, Before
  <1>4. ASSUME NEW x \in V, NEW y \in V, NEW z \in V, <<x, y>> \in R, <<y, z>> \in R
        PROVE  <<x, z>> \in R
    <2>1. Comes(x, y) /\ Comes(y, z)
      BY <1>1, <1>4
    <2>2. /\ x \in Nat /\ entry[x].checksum \in Nat /\ entry[x].relative \in Nat
          /\ y \in Nat /\ entry[y].checksum \in Nat /\ entry[y].relative \in Nat
          /\ z \in Nat /\ entry[z].checksum \in Nat /\ entry[z].relative \in Nat
      BY <1>2
    <2>3. ComesBefore(entry, x, z)
      <3>1. CASE Before(entry[x], entry[y]) /\ Before(entry[y], entry[z])
        <4>1. Before(entry[x], entry[z])
          BY <2>2, <3>1 DEF Before
        <4> QED
          BY <4>1 DEF ComesBefore
      <3>2. CASE entry[x] = entry[y] /\ x < y /\ entry[y] = entry[z] /\ y < z
        <4>1. x < z
          BY <2>2, <3>2
        <4> QED
          BY <3>2, <4>1 DEF ComesBefore
      <3>3. CASE \/ entry[x] = entry[y] /\ Before(entry[y], entry[z])
                 \/ Before(entry[x], entry[y]) /\ entry[y] = entry[z]
        BY <3>3 DEF ComesBefore
      <3> QED
        BY <2>1, <3>1, <3>2, <3>3 DEF ComesBefore
    <2>4. Comes(x, z)
      BY <2>3
    <2> HIDE DEF Comes
    <2> QED
      BY <1>1, <2>4
  <1>5. ASSUME NEW x \in V, NEW y \in V
        PROVE  x = y \/ <<x, y>> \in R \/ <<y, x>> \in R
    <2>1. CASE entry[x].checksum = entry[y].checksum /\ entry[x].relative = entry[y].relative
      <3>1. entry[x] \in EntryType /\ entry[y] \in EntryType
        OBVIOUS
      <3>2. entry[x] = entry[y]
        BY <2>1, <3>1 DEF EntryType
      <3>3. x = y \/ x < y \/ y < x
        <4>1. x \in Nat /\ y \in Nat
          BY <1>2
        <4> QED
          BY <4>1
      <3>4. x = y \/ Comes(x, y) \/ Comes(y, x)
        BY <3>2, <3>3 DEF ComesBefore
      <3> HIDE DEF Comes
      <3> QED
        BY <1>1, <3>4
    <2>2. CASE ~(entry[x].checksum = entry[y].checksum /\ entry[x].relative = entry[y].relative)
      <3>1. Before(entry[x], entry[y]) \/ Before(entry[y], entry[x])
        BY <1>2, <2>2 DEF Before
      <3>2. Comes(x, y) \/ Comes(y, x)
        BY <3>1 DEF ComesBefore
      <3> HIDE DEF Comes
      <3> QED
        BY <1>1, <3>2
    <2> QED
      BY <2>1, <2>2
  <1>6. StrictOrder(R, V)
    BY <1>3, <1>4, <1>5 DEF StrictOrder
  <1> QED
    BY <1>6 DEF R

\* The order of the windows that SortedFile takes their entries in.
WindowOrder(entry, V) ==
  InOrder(V, LAMBDA j, k : Before(entry[j], entry[k]) \/ (entry[j] = entry[k] /\ j < k))

LEMMA WindowsListed ==
  ASSUME NEW V, V \subseteq Nat, IsFiniteSet(V),
         NEW entry, \A k \in V : entry[k] \in EntryType
  PROVE  IsListing(WindowOrder(entry, V), Earlier(entry, V), V)
  <1> DEFINE n == Cardinality(V)
             a == WindowOrder(entry, V)
             R == Earlier(entry, V)
             Comes(j, k) == ComesBefore(entry, j, k)
             P(x, i) == Cardinality({y \in V : Comes(y, x)}) = i - 1
  <1>1. n \in Nat /\ StrictOrder(R, V)
    BY FS_CardinalityType, EarlierIsOrder
  <1>2. a = [i \in 1..n |-> CHOOSE x \in V : P(x, i)]
    BY DEF WindowOrder, InOrder, ComesBefore
  <1>3. ASSUME NEW x \in V PROVE Rank(R, V, x) = Cardinality({y \in V : Comes(y, x)})
    <2>1. {y \in V : Comes(y, x)} = Below(R, V, x)
      <3>1. \A y \in V : Comes(y, x) <=> <<y, x>> \in R
        BY DEF Earlier
      <3> HIDE DEF R, Comes
      <3> QED
        BY <3>1 DEF Below
    <2> QED
      BY <2>1 DEF Rank
  <1> HIDE DEF R, Comes
  <1>4. ASSUME NEW i \in 1..n
        PROVE  a[i] \in V /\ Rank(R, V, a[i]) = i - 1
    <2>1. i - 1 \in 0..(n - 1)
      BY <1>1
    <2>2. \E x \in V : Rank(R, V, x) = i - 1
      <3>1. PICK k \in Nat : k = i - 1 /\ k < n
        BY <1>1, <2>1
      <3>2. StrictOrder(R, V) /\ k < Cardinality(V)
        BY <1>1, <3>1
      <3>3. Taken(R, V, k)
        BY <3>2, PlaceTaken
      <3> QED
        BY <3>1, <3>3 DEF Taken
    <2>3. \E x \in V : P(x, i)
      BY <1>3, <2>2
    <2>4. a[i] = CHOOSE x \in V : P(x, i)
      BY <1>2
    <2>5. a[i] \in V /\ P(a[i], i)
      <3> HIDE DEF P, a
      <3> QED
        BY <2>3, <2>4
    <2> QED
      BY <1>3, <2>5
  <1>5. a \in [1..n -> V]
    BY <1>2, <1>4
  <1>6. IsListing(a, R, V)
    BY <1>4, <1>5 DEF IsListing
  <1> QED
    BY <1>6 DEF R

\* The number of the file of an entry counts the entries before it.
LEMMA FileNumberFacts ==
  ASSUME NEW W, W \subseteq Nat, IsFiniteSet(W), NEW k \in W
  PROVE  /\ Rank(Less, W, k) \in Nat /\ Rank(Less, W, k) <= k
         /\ Rank(Less, W, k) < Cardinality(W) /\ Cardinality(W) \in Nat
         /\ FileNumber(W, k) = Rank(Less, W, k) \div BlocksPerFile
         /\ FileNumber(W, k) \in Nat
         /\ FileNumber(W, k) * BlocksPerFile <= Rank(Less, W, k)
  <1>1. k \in Nat /\ StrictOrder(Less, W) /\ Cardinality(W) \in Nat
    BY LessIsOrder, FS_CardinalityType
  <1>2. PICK r \in Int : r = Rank(Less, W, k) /\ r \in 0..(Cardinality(W) - 1)
    <2>1. Rank(Less, W, k) \in 0..(Cardinality(W) - 1)
      BY <1>1, RankGrows
    <2> QED
      BY <1>1, <2>1
  <1>3. {j \in W : j < k} = Below(Less, W, k)
    <2>1. \A j \in W : j < k <=> <<j, k>> \in Less
      BY <1>1 DEF Less
    <2> QED
      BY <2>1 DEF Below
  <1>4. r <= k
    <2>1. Below(Less, W, k) \subseteq 0..(k - 1)
      <3>1. \A j \in W : j < k => j \in 0..(k - 1)
        BY <1>1
      <3> QED
        BY <1>3, <3>1
    <2>2. IsFiniteSet(0..(k - 1)) /\ Cardinality(0..(k - 1)) = k
      <3>1. 0 \in Int /\ k - 1 \in Int
        BY <1>1
      <3>2. Cardinality(0..(k - 1)) = IF 0 > k - 1 THEN 0 ELSE (k - 1) - 0 + 1
        BY <3>1, FS_Interval
      <3> QED
        BY <1>1, <3>1, <3>2, FS_Interval
    <2>3. Cardinality(Below(Less, W, k)) <= Cardinality(0..(k - 1))
      BY <2>1, <2>2, FS_Subset
    <2> QED
      BY <1>2, <2>2, <2>3 DEF Rank
  <1>5. PICK b \in Nat \ {0} : b = BlocksPerFile
    BY ChunkIndexAssumption
  <1>6. FileNumber(W, k) = r \div b
    BY <1>2, <1>3, <1>5 DEF FileNumber, Rank
  <1>7. PICK q \in Int : r = b * q + (r % b) /\ r % b \in 0..(b - 1) /\ r \div b = q
    BY Division
  <1>8. PICK s \in 0..(b - 1) : s = r % b
    BY <1>7
  <1>9. b * q <= r /\ q \in Nat
    <2>1. r = b * q + s /\ r >= 0 /\ s < b /\ s >= 0
      BY <1>2, <1>7, <1>8
    <2>2. b * q \in Int
      OBVIOUS
    <2>3. b * q <= r /\ b * q > -b
      BY <2>1, <2>2
    <2>4. ~(q <= -1)
      <3> SUFFICES ASSUME q <= -1 PROVE FALSE
        OBVIOUS
      <3>1. b * q <= b * (-1)
        OBVIOUS
      <3> QED
        BY <2>2, <2>3, <3>1
    <2> QED
      BY <2>3, <2>4
  <1>10. q * b = b * q
    OBVIOUS
  <1> QED
    BY <1>1, <1>2, <1>4, <1>5, <1>6, <1>7, <1>9, <1>10

\* The entries that are written to file n.
EntriesOf(previous, W, length, lost, n) ==
  {Entry(previous, W, k, length) : k \in {j \in W : WrittenTo(W, j, lost) = n}}

LEMMA WindowsTyped ==
  ASSUME NEW previous \in Seq(Nat), NEW next, NEW length \in Nat \ {0}
  PROVE  LET W == RelevantWindows(previous, next, length)
         IN  /\ W \subseteq 0..(Len(previous) - length)
             /\ W \subseteq Nat
             /\ IsFiniteSet(W)
             /\ W = {k \in 0..(Len(previous) - length) :
                       IsRelevant(ChecksumFilter(next, length),
                                  Checksum(FullChecksum(Piece(previous, k, length))))}
  <1> DEFINE W == RelevantWindows(previous, next, length)
             N == Len(previous) - length
             sums == RollingSums(previous, length)
             filter == ChecksumFilter(next, length)
  <1>1. sums = [k \in 0..N |-> FullChecksum(Piece(previous, k, length))]
    BY RollingWindows
  <1>2. W = {k \in DOMAIN sums : IsRelevant(filter, Checksum(sums[k]))}
    BY DEF RelevantWindows
  <1>3. W = {k \in 0..N : IsRelevant(filter, Checksum(FullChecksum(Piece(previous, k, length))))}
    <2> HIDE DEF W, N, sums, filter
    <2> QED
      BY <1>1, <1>2
  <1>4. N \in Int /\ IsFiniteSet(0..N)
    BY FS_Interval
  <1>5. W \subseteq 0..N
    BY <1>3
  <1>6. W \subseteq Nat /\ IsFiniteSet(W)
    <2>1. 0..N \subseteq Nat
      <3> HIDE DEF N
      <3> QED
        BY <1>4
    <2> HIDE DEF W, N
    <2>2. W \in SUBSET (0..N)
      BY <1>5
    <2> QED
      BY <1>4, <2>1, <2>2, FS_Subset
  <1> QED
    BY <1>3, <1>5, <1>6

\* No offset in the file needs more than 32 bits.
OffsetsFit(previous) == Len(previous) <= OffsetModulo

\* The offset of a window, from the base of its file.
Relative(W, k) == k - FileNumber(W, k) * BlocksPerFile

\* Cut down to 32 bits.
IsCast(cast, offset) == cast = offset % OffsetModulo

LEMMA EntryTyped ==
  ASSUME NEW previous \in Seq(Nat), NEW length \in Nat \ {0},
         NEW W, W \subseteq 0..(Len(previous) - length), IsFiniteSet(W), NEW k \in W
  PROVE  /\ Entry(previous, W, k, length) \in EntryType
         /\ Entry(previous, W, k, length).checksum
              = Checksum(FullChecksum(Piece(previous, k, length)))
         /\ Relative(W, k) \in Nat
         /\ IsCast(Entry(previous, W, k, length).relative, Relative(W, k))
  <1>1. k \in 0..(Len(previous) - length) /\ k \in Nat /\ W \subseteq Nat
    OBVIOUS
  <1>2. RollingSums(previous, length)[k] = FullChecksum(Piece(previous, k, length))
    BY <1>1, RollingWindows
  <1>3. PICK c \in Nat : c = Checksum(FullChecksum(Piece(previous, k, length)))
    <2>1. Piece(previous, k, length) \in Seq(Nat)
      BY <1>1, WindowFacts
    <2> QED
      BY <2>1, ChecksumNumber
  <1>4. PICK n \in Nat, b \in Nat \ {0} : n = FileNumber(W, k) /\ b = BlocksPerFile
    BY <1>1, FileNumberFacts, ChunkIndexAssumption
  <1>5. PICK d \in Nat : d = k - FileNumber(W, k) * BlocksPerFile
    <2>1. PICK r \in Nat : r = Rank(Less, W, k)
      BY <1>1, FileNumberFacts
    <2>2. r <= k
      BY <1>1, <2>1, FileNumberFacts
    <2>3. n * b <= r
      BY <1>1, <1>4, <2>1, FileNumberFacts
    <2>4. PICK e \in Nat : e = n * b
      OBVIOUS
    <2>5. k - e \in Nat
      BY <1>1, <2>1, <2>2, <2>3, <2>4
    <2> QED
      BY <1>4, <2>4, <2>5
  <1>6. PICK m \in Nat \ {0} : m = OffsetModulo
    BY ChunkIndexAssumption
  <1>7. PICK r \in Nat : r = d % m
    OBVIOUS
  <1>8. Entry(previous, W, k, length) = [checksum |-> c, relative |-> r]
    BY <1>2, <1>3, <1>5, <1>6, <1>7 DEF Entry
  <1> QED
    BY <1>3, <1>5, <1>6, <1>7, <1>8 DEF EntryType, Relative, IsCast

LEMMA EntryFits ==
  ASSUME NEW previous \in Seq(Nat), NEW length \in Nat \ {0},
         NEW W, W \subseteq 0..(Len(previous) - length), IsFiniteSet(W), NEW k \in W,
         OffsetsFit(previous)
  PROVE  Entry(previous, W, k, length).relative = Relative(W, k)
  <1>1. k \in 0..(Len(previous) - length) /\ k \in Nat /\ W \subseteq Nat
    OBVIOUS
  <1>2. PICK d \in Nat : d = Relative(W, k)
    BY EntryTyped
  <1>3. PICK m \in Nat \ {0} : m = OffsetModulo
    BY ChunkIndexAssumption
  <1>4. d < m
    <2>1. Len(previous) \in Nat /\ k < Len(previous) /\ Len(previous) <= m
      BY <1>1, <1>3 DEF OffsetsFit
    <2>2. PICK n \in Nat : n = FileNumber(W, k)
      BY <1>1, FileNumberFacts
    <2>3. PICK b \in Nat : b = BlocksPerFile
      BY ChunkIndexAssumption
    <2>4. PICK e \in Nat : e = n * b
      BY <2>2, <2>3
    <2>5. d = k - e
      BY <1>2, <2>2, <2>3, <2>4 DEF Relative
    <2> QED
      BY <1>1, <2>1, <2>5
  <1>5. d % m = d
    <2>1. d \in 0..(m - 1) /\ d = m * 0 + d /\ 0 \in Int /\ d \in Int
      BY <1>4
    <2> QED
      BY <2>1, Remainder
  <1>6. IsCast(Entry(previous, W, k, length).relative, Relative(W, k))
    BY EntryTyped
  <1> QED
    BY <1>2, <1>3, <1>5, <1>6 DEF IsCast

\* The windows of file n, and all entries.
WindowsOf(W, lost, n) == {j \in W : WrittenTo(W, j, lost) = n}

AllEntries(previous, W, length) == [k \in W |-> Entry(previous, W, k, length)]

IndexFile(previous, W, length, lost, n) ==
  SortedFile(AllEntries(previous, W, length), WindowsOf(W, lost, n))

\* An index file lists its entries in order.
LEMMA FileListed ==
  ASSUME NEW previous \in Seq(Nat), NEW length \in Nat \ {0},
         NEW W, W \subseteq 0..(Len(previous) - length), IsFiniteSet(W), NEW lost, NEW n
  PROVE  LET file == IndexFile(previous, W, length, lost, n)
         IN  /\ file \in Seq(EntryType)
             /\ {file[i] : i \in DOMAIN file} = EntriesOf(previous, W, length, lost, n)
             /\ \A i \in 1..Len(file), j \in 1..Len(file) :
                  i < j => file[i].checksum <= file[j].checksum
  <1> DEFINE S == EntriesOf(previous, W, length, lost, n)
             V == WindowsOf(W, lost, n)
             entry == AllEntries(previous, W, length)
             order == WindowOrder(entry, V)
             file == IndexFile(previous, W, length, lost, n)
             R == Earlier(entry, V)
  <1>1. V \subseteq W /\ V \subseteq Nat /\ IsFiniteSet(V)
    <2>1. V \subseteq W /\ W \subseteq Nat
      BY DEF WindowsOf
    <2> HIDE DEF V
    <2> QED
      BY <2>1, FS_Subset
  <1>2. \A k \in V : entry[k] \in EntryType
    BY <1>1, EntryTyped DEF AllEntries
  <1>3. S = {entry[k] : k \in V}
    BY DEF EntriesOf, WindowsOf, AllEntries
  <1>4. file = [i \in DOMAIN order |-> entry[order[i]]]
    BY DEF IndexFile, SortedFile, WindowOrder
  <1> HIDE DEF S, V, entry
  <1>5. IsListing(order, R, V) /\ StrictOrder(R, V)
    BY <1>1, <1>2, WindowsListed, EarlierIsOrder
  <1> HIDE DEF order, R, file
  <1>6. /\ order \in Seq(V) /\ {order[i] : i \in DOMAIN order} = V
        /\ \A i \in 1..Len(order), j \in 1..Len(order) : i < j => <<order[i], order[j]>> \in R
    BY <1>1, <1>5, ListedInOrder
  <1>7. DOMAIN order = 1..Len(order) /\ Len(order) \in Nat
    BY <1>6
  <1>8. \A i \in 1..Len(order) : order[i] \in V /\ entry[order[i]] \in EntryType
    BY <1>2, <1>6
  <1>9. /\ Len(file) = Len(order) /\ DOMAIN file = 1..Len(order)
        /\ file \in Seq(EntryType)
        /\ \A i \in 1..Len(order) : file[i] = entry[order[i]]
    BY <1>4, <1>7, <1>8
  <1>10. {file[i] : i \in DOMAIN file} = S
    <2>1. ASSUME NEW x \in S PROVE x \in {file[i] : i \in DOMAIN file}
      <3>1. PICK k \in V : x = entry[k]
        BY <1>3
      <3>2. PICK i \in DOMAIN order : k = order[i]
        BY <1>6
      <3> QED
        BY <1>7, <1>9, <3>1, <3>2
    <2>2. \A i \in DOMAIN file : file[i] \in S
      BY <1>3, <1>8, <1>9
    <2> QED
      BY <2>1, <2>2
  <1>11. ASSUME NEW i \in 1..Len(file), NEW j \in 1..Len(file), i < j
         PROVE  file[i].checksum <= file[j].checksum
    <2>1. <<order[i], order[j]>> \in R
      BY <1>6, <1>9, <1>11
    <2>2. Before(file[i], file[j]) \/ file[i] = file[j]
      BY <1>9, <2>1 DEF R, Earlier, ComesBefore
    <2>3. file[i] \in EntryType /\ file[j] \in EntryType
      BY <1>8, <1>9
    <2> QED
      BY <2>2, <2>3 DEF Before, EntryType
  <1> QED
    BY <1>9, <1>10, <1>11 DEF S, file

\* The numbers of the files that are written.
Written(previous, W, length, lost) ==
  {n \in (0..(Cardinality(W) \div BlocksPerFile)) \ lost : WindowsOf(W, lost, n) # {}}

LEMMA GeneratedFiles ==
  ASSUME NEW previous, NEW next, NEW length, NEW lost
  PROVE  LET W == RelevantWindows(previous, next, length)
             order == Ascending(Written(previous, W, length, lost))
         IN  Generate(previous, next, length, lost) =
               [i \in 1..Len(order) |-> IndexFile(previous, W, length, lost, order[i])]
  BY DEF Generate, Written, IndexFile, AllEntries, WindowsOf

LEMMA WrittenNumbers ==
  ASSUME NEW previous, NEW W, IsFiniteSet(W), NEW length, NEW lost
  PROVE  /\ Written(previous, W, length, lost) \subseteq Nat
         /\ IsFiniteSet(Written(previous, W, length, lost))
  <1>1. Cardinality(W) \in Int
    BY FS_CardinalityType
  <1>2. PICK b \in Nat \ {0} : b = BlocksPerFile
    BY ChunkIndexAssumption
  <1>3. PICK l \in Int : l = Cardinality(W) \div b
    BY <1>1, Division
  <1>4. IsFiniteSet(0..l)
    BY FS_Interval
  <1>5. Written(previous, W, length, lost) \subseteq 0..l
    BY <1>2, <1>3 DEF Written
  <1> QED
    BY <1>4, <1>5, FS_Subset

\* Generate makes index files, whichever of them cannot be written.
LEMMA IndexTyped ==
  ASSUME NEW previous \in Seq(Nat), NEW next, NEW length \in Nat \ {0}, NEW lost
  PROVE  Generate(previous, next, length, lost) \in Seq(Seq(EntryType))
  <1> DEFINE W == RelevantWindows(previous, next, length)
             order == Ascending(Written(previous, W, length, lost))
             File(i) == IndexFile(previous, W, length, lost, order[i])
  <1>1. W \subseteq 0..(Len(previous) - length) /\ IsFiniteSet(W)
    BY WindowsTyped
  <1>2. Len(order) \in Nat
    <2> HIDE DEF W
    <2>1. /\ Written(previous, W, length, lost) \subseteq Nat
          /\ IsFiniteSet(Written(previous, W, length, lost))
      BY <1>1, WrittenNumbers
    <2> QED
      BY <2>1, AscendingProperties
  <1>3. Generate(previous, next, length, lost) = [i \in 1..Len(order) |-> File(i)]
    BY GeneratedFiles
  <1>4. \A i \in 1..Len(order) : File(i) \in Seq(EntryType)
    <2> HIDE DEF W, order
    <2> QED
      BY <1>1, FileListed
  <1> HIDE DEF File, order
  <1> QED
    BY <1>2, <1>3, <1>4

\* The first numbers in their order.
LEMMA AscendingFirst ==
  ASSUME NEW m \in Nat
  PROVE  /\ Len(Ascending(0..(m - 1))) = m
         /\ \A i \in 1..m : Ascending(0..(m - 1))[i] = i - 1
  <1> DEFINE S == 0..(m - 1)
             a == Ascending(S)
  <1>1. \A x \in Nat : IsFiniteSet(0..(x - 1)) /\ Cardinality(0..(x - 1)) = x
    <2> SUFFICES ASSUME NEW x \in Nat
                 PROVE  IsFiniteSet(0..(x - 1)) /\ Cardinality(0..(x - 1)) = x
      OBVIOUS
    <2>1. 0 \in Int /\ x - 1 \in Int
      OBVIOUS
    <2>2. Cardinality(0..(x - 1)) = IF 0 > x - 1 THEN 0 ELSE (x - 1) - 0 + 1
      BY <2>1, FS_Interval
    <2> QED
      BY <2>1, <2>2, FS_Interval
  <1>2. S \subseteq Nat /\ IsFiniteSet(S) /\ Cardinality(S) = m
    BY <1>1
  <1>3. Len(a) = m
    <2> HIDE DEF S
    <2> QED
      BY <1>2, AscendingProperties
  <1>4. IsListing(a, Less, S)
    <2> HIDE DEF S
    <2> QED
      BY <1>2, AscendingLists
  <1>5. ASSUME NEW x \in S PROVE Rank(Less, S, x) = x
    <2>1. Below(Less, S, x) = 0..(x - 1)
      <3>1. x \in Nat /\ x <= m - 1
        OBVIOUS
      <3>2. \A y \in S : <<y, x>> \in Less <=> y < x
        BY DEF Less
      <3>3. \A y : y \in 0..(x - 1) <=> y \in S /\ y < x
        BY <3>1
      <3> HIDE DEF S
      <3> QED
        BY <3>2, <3>3 DEF Below
    <2> QED
      BY <1>1, <2>1 DEF Rank
  <1>6. \A i \in 1..m : a[i] = i - 1
    <2> SUFFICES ASSUME NEW i \in 1..m PROVE a[i] = i - 1
      OBVIOUS
    <2>1. a[i] \in S /\ Rank(Less, S, a[i]) = i - 1
      <3> HIDE DEF S, a
      <3> QED
        BY <1>2, <1>4 DEF IsListing
    <2> HIDE DEF S, a
    <2> QED
      BY <1>5, <2>1
  <1> QED
    BY <1>3, <1>6

\* If every file can be written, an entry is in the file of its number.
LEMMA WrittenAtOnce ==
  ASSUME NEW W, W \subseteq Nat, IsFiniteSet(W), NEW k \in W
  PROVE  WrittenTo(W, k, {}) = FileNumber(W, k)
  <1>1. PICK n \in Nat : n = FileNumber(W, k)
    BY FileNumberFacts
  <1>2. Cardinality({}) = 0
    BY FS_EmptySet
  <1>3. (n..(n + Cardinality({}))) \ {} = {n}
    BY <1>2
  <1>4. WrittenTo(W, k, {}) = Min({n})
    BY <1>1, <1>3 DEF WrittenTo
  <1>5. Min({n}) = n
    BY DEF Min
  <1> QED
    BY <1>1, <1>4, <1>5

\* The files are numbered without a gap: every rank is taken.
LEMMA NoGap ==
  ASSUME NEW previous, NEW W, W \subseteq Nat, IsFiniteSet(W), NEW length
  PROVE  \E m \in Nat :
           /\ Written(previous, W, length, {}) = 0..(m - 1)
           /\ \A k \in W : FileNumber(W, k) \in 0..(m - 1)
  <1> DEFINE N == Cardinality(W)
  <1>1. N \in Nat /\ StrictOrder(Less, W)
    BY FS_CardinalityType, LessIsOrder
  <1>2. PICK b \in Nat \ {0} : b = BlocksPerFile
    BY ChunkIndexAssumption
  <1>3. ASSUME NEW n
        PROVE  WindowsOf(W, {}, n) # {}
                 <=> \E k \in W : FileNumber(W, k) = n
    BY WrittenAtOnce DEF WindowsOf
  <1>4. PICK l \in Int, r \in 0..(b - 1) : l = N \div b /\ N = b * l + r
    <2>1. N \in Int
      BY <1>1
    <2> HIDE DEF N
    <2> QED
      BY <2>1, Division
  <1>5. PICK q \in Int, t \in 0..(b - 1) : N - 1 = b * q + t
    <2>1. N - 1 \in Int
      BY <1>1
    <2> HIDE DEF N
    <2> QED
      BY <2>1, Division
  <1>6. b * q \in Int /\ b * l \in Int
    OBVIOUS
  <1>7. ASSUME NEW k \in W
        PROVE  FileNumber(W, k) \in Nat /\ FileNumber(W, k) <= q
    <2>1. PICK x \in Nat, n \in Nat : x = Rank(Less, W, k) /\ n = FileNumber(W, k)
      BY FileNumberFacts
    <2>2. x < N /\ n * b <= x
      BY <1>2, <2>1, FileNumberFacts
    <2>3. b * n = n * b /\ b * n \in Int
      OBVIOUS
    <2>4. b * n < b * q + b
      <3> HIDE DEF N
      <3> QED
        BY <1>1, <1>5, <1>6, <2>2, <2>3
    <2>5. n <= q
      BY <2>4, Multiples
    <2> QED
      BY <2>1, <2>5
  <1>8. ASSUME NEW n \in 0..q
        PROVE  n \in 0..l /\ \E k \in W : FileNumber(W, k) = n
    <2>1. n \in Nat /\ b * n \in Nat
      OBVIOUS
    <2>2. b * n <= b * q
      <3>1. PICK d \in Nat : q = n + d
        <4>1. q - n \in Nat /\ q = n + (q - n)
          OBVIOUS
        <4> QED
          BY <4>1
      <3>2. b * q = b * n + b * d /\ b * d \in Nat
        BY <3>1
      <3> QED
        BY <2>1, <3>2
    <2>3. PICK x \in Nat : x = b * n
      BY <2>1
    <2>4. x \in 0..(N - 1)
      <3> HIDE DEF N
      <3> QED
        BY <1>1, <1>5, <1>6, <2>2, <2>3
    <2>5. n <= l
      <3>1. b * n < b * l + b
        <4> HIDE DEF N
        <4> QED
          BY <1>1, <1>4, <1>6, <2>3, <2>4
      <3> QED
        BY <2>1, <3>1, Multiples
    <2>6. x < N
      BY <1>1, <2>4
    <2>7. PICK k \in W : Rank(Less, W, k) = x
      <3>1. StrictOrder(Less, W)
        BY <1>1
      <3>2. Taken(Less, W, x)
        BY <2>3, <2>6, <3>1, PlaceTaken
      <3> QED
        BY <3>2 DEF Taken
    <2>8. x \div b = n
      <3>1. b * n <= x /\ x < b * n + b /\ n \in Int /\ x \in Int
        BY <2>1, <2>3
      <3> QED
        BY <3>1, Quotient
    <2>9. FileNumber(W, k) = n
      BY <1>2, <2>7, <2>8, FileNumberFacts
    <2> QED
      BY <2>1, <2>5, <2>9
  <1>9. Written(previous, W, length, {}) = 0..q
    <2>1. Written(previous, W, length, {}) = {n \in 0..l : \E k \in W : FileNumber(W, k) = n}
      BY <1>2, <1>3, <1>4 DEF Written
    <2>2. ASSUME NEW n, n \in 0..q
          PROVE  n \in {x \in 0..l : \E k \in W : FileNumber(W, k) = x}
      BY <1>8, <2>2
    <2>3. ASSUME NEW n \in 0..l, NEW k \in W, FileNumber(W, k) = n
          PROVE  n \in 0..q
      BY <1>7, <2>3
    <2> QED
      BY <2>1, <2>2, <2>3
  <1>10. q + 1 \in Nat /\ (q + 1) - 1 = q
    <2>1. ~(q < -1)
      <3> SUFFICES ASSUME q < -1 PROVE FALSE
        OBVIOUS
      <3>1. PICK d \in Nat : q = -2 - d
        <4>1. -2 - q \in Nat /\ q = -2 - (-2 - q)
          OBVIOUS
        <4> QED
          BY <4>1
      <3>2. b * q = b * (-2) - b * d /\ b * d \in Nat /\ b * (-2) = -b - b
        BY <3>1
      <3> HIDE DEF N
      <3> QED
        BY <1>1, <1>5, <3>2
    <2> QED
      BY <2>1
  <1>11. \A k \in W : FileNumber(W, k) \in 0..q
    BY <1>7
  <1> QED
    BY <1>9, <1>10, <1>11

\* The index, when every file could be written: file f has the entries with
\* number f - 1.
LEMMA IndexLaidOut ==
  ASSUME NEW previous \in Seq(Nat), NEW next, NEW length \in Nat \ {0}
  PROVE  LET W == RelevantWindows(previous, next, length)
             index == Generate(previous, next, length, {})
         IN  /\ Len(index) \in Nat /\ DOMAIN index = 1..Len(index)
             /\ \A f \in 1..Len(index) :
                  /\ index[f] \in Seq(EntryType)
                  /\ {index[f][i] : i \in DOMAIN index[f]}
                       = {Entry(previous, W, k, length) : k \in {j \in W : FileNumber(W, j) = f - 1}}
                  /\ \A i \in 1..Len(index[f]), j \in 1..Len(index[f]) :
                       i < j => index[f][i].checksum <= index[f][j].checksum
             /\ \A k \in W : FileNumber(W, k) + 1 \in 1..Len(index)
  <1> DEFINE W == RelevantWindows(previous, next, length)
             index == Generate(previous, next, length, {})
             order == Ascending(Written(previous, W, length, {}))
             File(i) == IndexFile(previous, W, length, {}, order[i])
  <1>1. W \subseteq 0..(Len(previous) - length) /\ IsFiniteSet(W) /\ W \subseteq Nat
    BY WindowsTyped
  <1>2. PICK m \in Nat : /\ Written(previous, W, length, {}) = 0..(m - 1)
                         /\ \A k \in W : FileNumber(W, k) \in 0..(m - 1)
    <2> HIDE DEF W
    <2> QED
      BY <1>1, NoGap
  <1>3. Len(order) = m /\ \A i \in 1..m : order[i] = i - 1
    <2> HIDE DEF W
    <2> QED
      BY <1>2, AscendingFirst
  <1>4. index = [i \in 1..Len(order) |-> File(i)]
    BY GeneratedFiles
  <1>5. Len(index) = m /\ DOMAIN index = 1..m /\ \A f \in 1..m : index[f] = File(f)
    <2> HIDE DEF index, File, order, W
    <2> QED
      BY <1>3, <1>4
  <1>6. ASSUME NEW f \in 1..m
        PROVE  /\ index[f] \in Seq(EntryType)
               /\ {index[f][i] : i \in DOMAIN index[f]}
                    = {Entry(previous, W, k, length) : k \in {j \in W : FileNumber(W, j) = f - 1}}
               /\ \A i \in 1..Len(index[f]), j \in 1..Len(index[f]) :
                    i < j => index[f][i].checksum <= index[f][j].checksum
    <2> DEFINE n == f - 1
               S == EntriesOf(previous, W, length, {}, n)
               file == IndexFile(previous, W, length, {}, n)
    <2>1. index[f] = file
      <3> HIDE DEF index, W, order
      <3> QED
        BY <1>3, <1>5
    <2>2. S = {Entry(previous, W, k, length) : k \in {j \in W : FileNumber(W, j) = n}}
      <3>1. \A j \in W : WrittenTo(W, j, {}) = FileNumber(W, j)
        <4> HIDE DEF W
        <4> QED
          BY <1>1, WrittenAtOnce
      <3>2. {j \in W : WrittenTo(W, j, {}) = n} = {j \in W : FileNumber(W, j) = n}
        <4> HIDE DEF W, n
        <4> QED
          BY <3>1
      <3> QED
        BY <3>2 DEF EntriesOf
    <2>3. /\ file \in Seq(EntryType)
          /\ {file[i] : i \in DOMAIN file} = S
          /\ \A i \in 1..Len(file), j \in 1..Len(file) :
               i < j => file[i].checksum <= file[j].checksum
      <3> HIDE DEF W, n
      <3> QED
        BY <1>1, FileListed
    <2> HIDE DEF index, S, file
    <2> QED
      BY <2>1, <2>2, <2>3
  <1>7. \A k \in W : FileNumber(W, k) + 1 \in 1..m
    <2> HIDE DEF W
    <2> QED
      BY <1>2
  <1> HIDE DEF index, W
  <1> QED
    BY <1>5, <1>6, <1>7 DEF index, W
--------------------------------------------------------------------------
(* The search in an index file.                                            *)

Middle(range) == (range[1] + range[2]) \div 2

Width(range) == range[2] - range[1]

\* Where Hit has its answer, and where it looks otherwise.
Stops(file, checksum, range) ==
  \/ Middle(range) = Len(file)
  \/ file[Middle(range) + 1].checksum = checksum
  \/ range[1] = range[2]

Answer(file, checksum, range) ==
  IF Middle(range) # Len(file) /\ file[Middle(range) + 1].checksum = checksum
  THEN Middle(range) ELSE NoMatch

Narrower(file, checksum, range) ==
  IF file[Middle(range) + 1].checksum > checksum
  THEN <<range[1], Middle(range)>>
  ELSE <<IF range[1] = Middle(range) THEN Middle(range) + 1 ELSE Middle(range), range[2]>>

Search(h, file, checksum, range) ==
  LET n         == Len(file)
      beginning == range[1]
      end       == range[2]
      pos       == (beginning + end) \div 2
  IN  IF pos = n THEN NoMatch
      ELSE IF file[pos + 1].checksum = checksum THEN pos
      ELSE IF beginning = end THEN NoMatch
      ELSE IF file[pos + 1].checksum > checksum
      THEN h[<<beginning, pos>>]
      ELSE h[<<IF beginning = pos THEN pos + 1 ELSE pos, end>>]

Searches(h, file, checksum) ==
  h = [range \in Ranges(Len(file)) |-> Search(h, file, checksum, range)]

\* What a search may give.
Found(file, checksum) ==
  {NoMatch} \cup {p \in 0..(Len(file) - 1) : file[p + 1].checksum = checksum}

LEMMA RangeFacts ==
  ASSUME NEW file \in Seq(EntryType), NEW checksum, NEW r \in Ranges(Len(file))
  PROVE  /\ r[1] \in Nat /\ r[2] \in Nat /\ Middle(r) \in Nat
         /\ r[1] <= Middle(r) /\ Middle(r) <= r[2] /\ r[2] <= Len(file)
         /\ Width(r) \in 0..Len(file)
         /\ Middle(r) = Len(file) => r[1] = Len(file)
         /\ Answer(file, checksum, r) \in Found(file, checksum)
         /\ ~Stops(file, checksum, r) =>
              /\ Narrower(file, checksum, r) \in Ranges(Len(file))
              /\ Width(Narrower(file, checksum, r)) < Width(r)
              /\ Middle(r) < r[2]
  <1>1. PICK b \in Nat, e \in Nat, n \in Nat :
           r = <<b, e>> /\ n = Len(file) /\ b <= e /\ e <= n
    BY DEF Ranges
  <1>2. r[1] = b /\ r[2] = e
    BY <1>1
  <1>3. PICK p \in Nat : p = Middle(r) /\ b <= p /\ p <= e /\ (b < e => p < e)
    <2>1. (b + e) \div 2 \in Nat /\ b <= (b + e) \div 2 /\ (b + e) \div 2 <= e
      BY <1>1
    <2>2. b < e => (b + e) \div 2 < e
      OBVIOUS
    <2> QED
      BY <1>2, <2>1, <2>2 DEF Middle
  <1>4. Answer(file, checksum, r) \in Found(file, checksum)
    <2>1. CASE p # n /\ file[p + 1].checksum = checksum
      <3>1. Answer(file, checksum, r) = p
        BY <1>1, <1>3, <2>1 DEF Answer
      <3>2. p \in 0..(n - 1)
        BY <1>1, <1>3, <2>1
      <3> QED
        BY <1>1, <2>1, <3>1, <3>2 DEF Found
    <2>2. CASE ~(p # n /\ file[p + 1].checksum = checksum)
      BY <1>1, <1>3, <2>2 DEF Answer, Found
    <2> QED
      BY <2>1, <2>2
  <1>5. ASSUME ~Stops(file, checksum, r)
        PROVE  /\ Narrower(file, checksum, r) \in Ranges(n)
               /\ Width(Narrower(file, checksum, r)) < Width(r)
               /\ p < e
    <2>1. b # e /\ p # n
      BY <1>1, <1>2, <1>3, <1>5 DEF Stops
    <2>2. b < e /\ p < e
      BY <1>1, <1>3, <2>1
    <2>3. CASE file[p + 1].checksum > checksum
      <3>1. Narrower(file, checksum, r) = <<b, p>>
        BY <1>2, <1>3, <2>3 DEF Narrower
      <3>2. b \in 0..n /\ p \in 0..n
        BY <1>1, <1>3
      <3> QED
        BY <1>2, <1>3, <2>2, <3>1, <3>2 DEF Ranges, Width
    <2>4. CASE ~(file[p + 1].checksum > checksum)
      <3>1. PICK q \in Nat : q = IF b = p THEN p + 1 ELSE p
        OBVIOUS
      <3>2. Narrower(file, checksum, r) = <<q, e>>
        BY <1>2, <1>3, <2>4, <3>1 DEF Narrower
      <3>3. q \in 0..n /\ e \in 0..n /\ q <= e /\ b < q
        BY <1>1, <1>3, <2>2, <3>1
      <3> QED
        BY <1>2, <2>2, <3>2, <3>3 DEF Ranges, Width
    <2> QED
      BY <2>2, <2>3, <2>4
  <1>6. Width(r) \in 0..n
    BY <1>1, <1>2 DEF Width
  <1>7. p = n => b = n
    BY <1>1, <1>3
  <1> QED
    BY <1>1, <1>2, <1>3, <1>4, <1>5, <1>6, <1>7

LEMMA SearchStep ==
  ASSUME NEW h, NEW file, NEW checksum, NEW range
  PROVE  Search(h, file, checksum, range) =
           IF Stops(file, checksum, range) THEN Answer(file, checksum, range)
           ELSE h[Narrower(file, checksum, range)]
  BY Zenon DEF Search, Stops, Answer, Narrower, Middle

LEMMA HitSearches ==
  ASSUME NEW file, NEW checksum
  PROVE  Hit(file, checksum) = (CHOOSE h : Searches(h, file, checksum))[<<0, Len(file)>>]
  BY DEF Hit, Searches, Search

\* The recursion of Hit has a solution: every turn of the search looks at a
\* narrower range.
LEMMA SearchDefined ==
  ASSUME NEW file \in Seq(EntryType), NEW checksum
  PROVE  \E h : Searches(h, file, checksum)
  <1> DEFINE n == Len(file)
             R == Ranges(n)
             V == [R -> Found(file, checksum)]
             base == [r \in R |-> NoMatch]
             G == [x \in Nat \X V |-> [r \in R |-> Search(x[2], file, checksum, r)]]
  <1>1. n \in Nat
    OBVIOUS
  <1>2. base \in V
    BY DEF Found
  <1>3. ASSUME NEW h \in V, NEW r \in R
        PROVE  Search(h, file, checksum, r) \in Found(file, checksum)
    <2>1. Answer(file, checksum, r) \in Found(file, checksum)
      BY RangeFacts
    <2>2. CASE Stops(file, checksum, r)
      BY <2>1, <2>2, SearchStep
    <2>3. CASE ~Stops(file, checksum, r)
      <3>1. Narrower(file, checksum, r) \in R
        BY <2>3, RangeFacts
      <3>2. h[Narrower(file, checksum, r)] \in Found(file, checksum)
        <4> HIDE DEF R
        <4> QED
          BY <3>1
      <3> QED
        BY <2>3, <3>2, SearchStep
    <2> QED
      BY <2>2, <2>3
  <1>4. G \in [Nat \X V -> V]
    <2> HIDE DEF R, n
    <2>1. ASSUME NEW x \in Nat \X V
          PROVE  [r \in R |-> Search(x[2], file, checksum, r)] \in V
      <3>1. x[2] \in V
        OBVIOUS
      <3> QED
        BY <1>3, <3>1
    <2> HIDE DEF V
    <2> QED
      BY <2>1
  <1>5. PICK g : Iterates(g, V, base, G)
    <2> HIDE DEF G, V, base
    <2> QED
      BY <1>2, <1>4, Recursion
  <1>6. \A m \in Nat : g[m] \in V
    <2> HIDE DEF G, V, base
    <2> QED
      BY <1>5 DEF Iterates
  <1>7. ASSUME NEW m \in Nat
        PROVE  g[m + 1] = [r \in R |-> Search(g[m], file, checksum, r)]
    <2>1. g[m + 1] = G[<<m, g[m]>>]
      <3> HIDE DEF G, V, base
      <3> QED
        BY <1>5 DEF Iterates
    <2>2. g[m] \in V
      BY <1>6
    <2>3. G[<<m, g[m]>>] = [r \in R |-> Search(g[m], file, checksum, r)]
      <3> HIDE DEF V, R
      <3> QED
        BY <2>2
    <2> QED
      BY <2>1, <2>3
  <1> HIDE DEF G, V, base
  <1> DEFINE T == {m \in Nat : \A r \in R : Width(r) < m => g[m + 1][r] = g[m][r]}
  <1>8. \A r \in R : Width(r) \in 0..n
    BY RangeFacts
  <1> HIDE DEF n, R
  <1>9. 0 \in T
    BY <1>1, <1>8
  <1>10. ASSUME NEW m \in Nat, m \in T PROVE m + 1 \in T
    <2> SUFFICES ASSUME NEW r \in R, Width(r) < m + 1
                 PROVE  g[m + 1 + 1][r] = g[m + 1][r]
      OBVIOUS
    <2>1. /\ g[m + 1 + 1][r] = Search(g[m + 1], file, checksum, r)
          /\ g[m + 1][r] = Search(g[m], file, checksum, r)
      <3>1. m + 1 \in Nat
        OBVIOUS
      <3> QED
        BY <1>7, <3>1
    <2>2. CASE Stops(file, checksum, r)
      BY <2>1, <2>2, SearchStep
    <2>3. CASE ~Stops(file, checksum, r)
      <3> DEFINE q == Narrower(file, checksum, r)
      <3>1. q \in R /\ Width(q) < Width(r)
        BY <2>3, RangeFacts DEF R, n
      <3> HIDE DEF q
      <3>2. Width(q) < m
        BY <1>1, <1>8, <3>1
      <3>3. g[m + 1][q] = g[m][q]
        BY <1>10, <3>1, <3>2
      <3>4. /\ Search(g[m + 1], file, checksum, r) = g[m + 1][q]
            /\ Search(g[m], file, checksum, r) = g[m][q]
        BY <2>3, SearchStep DEF q
      <3> QED
        BY <2>1, <3>3, <3>4
    <2> QED
      BY <2>2, <2>3
  <1>11. Nat \subseteq T
    <2> HIDE DEF T
    <2> QED
      BY <1>9, <1>10, SetInduction
  <1> DEFINE h == g[n + 1]
  <1>12. \A r \in R : g[n + 1 + 1][r] = h[r]
    <2>1. n + 1 \in T
      BY <1>1, <1>11
    <2>2. \A r \in R : Width(r) < n + 1
      BY <1>1, <1>8
    <2> QED
      BY <2>1, <2>2
  <1>13. g[n + 1 + 1] = [r \in R |-> Search(h, file, checksum, r)]
    BY <1>1, <1>7
  <1>14. h = [r \in R |-> h[r]]
    BY <1>1, <1>7
  <1> HIDE DEF h
  <1>15. h = [r \in R |-> Search(h, file, checksum, r)]
    BY <1>12, <1>13, <1>14
  <1>16. Searches(h, file, checksum)
    BY <1>15 DEF Searches, R, n
  <1> QED
    BY <1>16

Sorted(file) ==
  \A i \in 1..Len(file), j \in 1..Len(file) : i < j => file[i].checksum <= file[j].checksum

\* The checksum is in a range of a file.
IsThere(file, checksum, range) ==
  \E p \in Nat : /\ range[1] <= p /\ p <= range[2] /\ p < Len(file)
                 /\ file[p + 1].checksum = checksum

LEMMA SearchSound ==
  ASSUME NEW file \in Seq(EntryType), NEW checksum, NEW h, Searches(h, file, checksum)
  PROVE  \A r \in Ranges(Len(file)) : h[r] \in Found(file, checksum)
  <1> DEFINE R == Ranges(Len(file))
             T == {w \in Nat : \A r \in R : Width(r) < w => h[r] \in Found(file, checksum)}
  <1>1. \A r \in R : Width(r) \in 0..Len(file)
    BY RangeFacts
  <1>2. 0 \in T
    <2> HIDE DEF R
    <2> QED
      BY <1>1
  <1>3. ASSUME NEW w \in Nat, w \in T PROVE w + 1 \in T
    <2> SUFFICES ASSUME NEW r \in R, Width(r) < w + 1
                 PROVE  h[r] \in Found(file, checksum)
      OBVIOUS
    <2>1. h[r] = Search(h, file, checksum, r)
      BY DEF Searches
    <2>2. CASE Stops(file, checksum, r)
      BY <2>1, <2>2, SearchStep, RangeFacts
    <2>3. CASE ~Stops(file, checksum, r)
      <3> DEFINE q == Narrower(file, checksum, r)
      <3>1. q \in R /\ Width(q) < Width(r)
        BY <2>3, RangeFacts
      <3> HIDE DEF q, R
      <3>2. Width(q) < w
        BY <1>1, <3>1
      <3>3. h[r] = h[q]
        BY <2>1, <2>3, SearchStep DEF q
      <3> QED
        BY <1>3, <3>1, <3>2, <3>3
    <2> QED
      BY <2>2, <2>3
  <1>4. Nat \subseteq T
    <2> HIDE DEF T
    <2> QED
      BY <1>2, <1>3, SetInduction
  <1>5. Len(file) + 1 \in T /\ \A r \in R : Width(r) < Len(file) + 1
    <2> HIDE DEF R
    <2> QED
      BY <1>1, <1>4
  <1> QED
    BY <1>5

LEMMA SearchComplete ==
  ASSUME NEW file \in Seq(EntryType), NEW checksum \in Nat, NEW h, Searches(h, file, checksum),
         Sorted(file)
  PROVE  \A r \in Ranges(Len(file)) : IsThere(file, checksum, r) => h[r] # NoMatch
  <1> DEFINE R == Ranges(Len(file))
             T == {w \in Nat : \A r \in R :
                     Width(r) < w /\ IsThere(file, checksum, r) => h[r] # NoMatch}
  <1>1. \A r \in R : Width(r) \in 0..Len(file)
    BY RangeFacts
  <1>2. 0 \in T
    <2> HIDE DEF R
    <2> QED
      BY <1>1
  <1>3. ASSUME NEW w \in Nat, w \in T PROVE w + 1 \in T
    <2> SUFFICES ASSUME NEW r \in R, Width(r) < w + 1, IsThere(file, checksum, r)
                 PROVE  h[r] # NoMatch
      OBVIOUS
    <2>1. h[r] = Search(h, file, checksum, r)
      BY DEF Searches
    <2>2. PICK p \in Nat : /\ r[1] <= p /\ p <= r[2] /\ p < Len(file)
                           /\ file[p + 1].checksum = checksum
      BY DEF IsThere
    <2>3. PICK b \in Nat, e \in Nat, m \in Nat, n \in Nat :
             /\ b = r[1] /\ e = r[2] /\ m = Middle(r) /\ n = Len(file)
             /\ b <= m /\ m <= e /\ e <= n /\ (m = n => b = n)
      <3>1. r[1] \in Nat /\ r[2] \in Nat /\ Middle(r) \in Nat /\ Len(file) \in Nat
        BY RangeFacts
      <3>2. r[1] <= Middle(r) /\ Middle(r) <= r[2] /\ r[2] <= Len(file)
        BY RangeFacts
      <3>3. Middle(r) = Len(file) => r[1] = Len(file)
        BY RangeFacts
      <3> QED
        BY <3>1, <3>2, <3>3
    <2>4. m < n
      BY <2>2, <2>3
    <2>5. CASE file[m + 1].checksum = checksum
      <3>1. Stops(file, checksum, r) /\ Answer(file, checksum, r) = m
        BY <2>3, <2>4, <2>5 DEF Stops, Answer
      <3>2. m # NoMatch
        BY ChunkIndexAssumption
      <3> QED
        BY <2>1, <3>1, <3>2, SearchStep
    <2>6. CASE file[m + 1].checksum # checksum
      <3>1. p # m
        BY <2>2, <2>6
      <3>2. b # e /\ ~Stops(file, checksum, r)
        BY <2>2, <2>3, <2>4, <2>6, <3>1 DEF Stops
      <3> DEFINE q == Narrower(file, checksum, r)
      <3>3. q \in R /\ Width(q) < Width(r)
        BY <3>2, RangeFacts
      <3>4. file[m + 1].checksum \in Nat /\ m + 1 \in 1..Len(file) /\ p + 1 \in 1..Len(file)
        <4>1. m + 1 \in 1..Len(file) /\ p + 1 \in 1..Len(file)
          BY <2>2, <2>3, <2>4
        <4>2. file[m + 1] \in EntryType
          BY <4>1
        <4> QED
          BY <4>1, <4>2 DEF EntryType
      <3>5. IsThere(file, checksum, q)
        <4>1. CASE file[m + 1].checksum > checksum
          <5>1. q = <<b, m>>
            BY <2>3, <4>1 DEF Narrower
          <5>2. p < m
            <6>1. ~(m + 1 < p + 1)
              <7>1. m + 1 < p + 1 => file[m + 1].checksum <= file[p + 1].checksum
                BY <3>4 DEF Sorted
              <7> QED
                BY <2>2, <3>4, <4>1, <7>1
            <6> QED
              BY <3>1, <6>1
          <5>3. q[1] <= p /\ p <= q[2]
            BY <2>2, <2>3, <5>1, <5>2
          <5> QED
            BY <2>2, <5>3 DEF IsThere
        <4>2. CASE ~(file[m + 1].checksum > checksum)
          <5>1. q = <<IF b = m THEN m + 1 ELSE m, e>>
            BY <2>3, <4>2 DEF Narrower
          <5>2. m < p
            <6>1. ~(p + 1 < m + 1)
              <7>1. p + 1 < m + 1 => file[p + 1].checksum <= file[m + 1].checksum
                BY <3>4 DEF Sorted
              <7> QED
                BY <2>2, <2>6, <3>4, <4>2, <7>1
            <6> QED
              BY <3>1, <6>1
          <5>3. q[1] <= p /\ p <= q[2]
            BY <2>2, <2>3, <5>1, <5>2
          <5> QED
            BY <2>2, <5>3 DEF IsThere
        <4> QED
          BY <4>1, <4>2
      <3>6. h[r] = h[q]
        BY <2>1, <3>2, SearchStep
      <3> HIDE DEF q, R
      <3>7. Width(q) < w
        BY <1>1, <3>3
      <3> QED
        BY <1>3, <3>3, <3>5, <3>6, <3>7
    <2> QED
      BY <2>5, <2>6
  <1>4. Nat \subseteq T
    <2> HIDE DEF T
    <2> QED
      BY <1>2, <1>3, SetInduction
  <1>5. Len(file) + 1 \in T /\ \A r \in R : Width(r) < Len(file) + 1
    <2> HIDE DEF R
    <2> QED
      BY <1>1, <1>4
  <1> QED
    BY <1>5

\* The binary search of an index file finds an entry with the checksum, if
\* there is one.
LEMMA HitFacts ==
  ASSUME NEW file \in Seq(EntryType), NEW checksum
  PROVE  /\ Hit(file, checksum) \in Found(file, checksum)
         /\ checksum \in Nat /\ Sorted(file) =>
              \A i \in 1..Len(file) :
                file[i].checksum = checksum => Hit(file, checksum) # NoMatch
  <1> DEFINE h == CHOOSE g : Searches(g, file, checksum)
             r == <<0, Len(file)>>
  <1>1. Searches(h, file, checksum)
    BY SearchDefined
  <1>2. Hit(file, checksum) = h[r]
    BY HitSearches
  <1>3. r \in Ranges(Len(file))
    BY DEF Ranges
  <1> HIDE DEF h
  <1>4. h[r] \in Found(file, checksum)
    BY <1>1, <1>3, SearchSound
  <1>5. ASSUME checksum \in Nat, Sorted(file), NEW i \in 1..Len(file),
               file[i].checksum = checksum
        PROVE  h[r] # NoMatch
    <2>1. i - 1 \in Nat /\ (i - 1) + 1 = i /\ i - 1 < Len(file) /\ 0 <= i - 1 /\ i - 1 <= Len(file)
      OBVIOUS
    <2>2. r[1] = 0 /\ r[2] = Len(file)
      OBVIOUS
    <2>3. IsThere(file, checksum, r)
      <3> HIDE DEF r
      <3> QED
        BY <1>5, <2>1, <2>2 DEF IsThere
    <2> HIDE DEF r
    <2> QED
      BY <1>1, <1>3, <1>5, <2>3, SearchComplete
  <1> QED
    BY <1>2, <1>4, <1>5
--------------------------------------------------------------------------
(* What the index is asked for.                                            *)

\* The offset of an entry is that of its window again.
LEMMA OffsetOfEntry ==
  ASSUME NEW previous \in Seq(Nat), NEW length \in Nat \ {0},
         NEW W, W \subseteq 0..(Len(previous) - length), IsFiniteSet(W), NEW k \in W,
         OffsetsFit(previous)
  PROVE  FileNumber(W, k) * BlocksPerFile + Entry(previous, W, k, length).relative = k
  <1>1. k \in Nat /\ W \subseteq Nat
    OBVIOUS
  <1>2. PICK n \in Nat : n = FileNumber(W, k)
    BY <1>1, FileNumberFacts
  <1>3. PICK b \in Nat : b = BlocksPerFile
    BY ChunkIndexAssumption
  <1>4. PICK e \in Nat : e = n * b
    BY <1>2, <1>3
  <1>5. Entry(previous, W, k, length).relative = Relative(W, k)
    BY EntryFits
  <1> QED
    BY <1>1, <1>2, <1>3, <1>4, <1>5 DEF Relative

\* An offset of an entry with the checksum, in a file the search finds it in.
EntryOffset(index, c, x) ==
  \E f \in DOMAIN index :
    /\ Hit(index[f], c) # NoMatch
    /\ \E i \in DOMAIN index[f] : /\ index[f][i].checksum = c
                                  /\ x = (f - 1) * BlocksPerFile + index[f][i].relative

\* The offset that is read behind the last entry of a file.
UnreadOffset(index, c, unread, x) ==
  \E f \in DOMAIN index : /\ index[f][Len(index[f])].checksum = c
                         /\ x = (f - 1) * BlocksPerFile + unread[f]

LEMMA OffsetsOfIndex ==
  ASSUME NEW index, NEW c, NEW unread
  PROVE  /\ \A x : EntryOffset(index, c, x) => x \in ChunkOffsets(index, c, unread)
         /\ \A x \in ChunkOffsets(index, c, unread) :
              EntryOffset(index, c, x) \/ UnreadOffset(index, c, unread, x)
  <1> DEFINE hits == {f \in DOMAIN index : Hit(index[f], c) # NoMatch}
             InFile(f) == {i \in DOMAIN index[f] : index[f][i].checksum = c}
             Of(f) == {(f - 1) * BlocksPerFile + index[f][i].relative : i \in InFile(f)}
             past == {g \in hits : ReadsPastEnd(index[g], c)}
             extra == {(f - 1) * BlocksPerFile + unread[f] : f \in past}
  <1>1. ChunkOffsets(index, c, unread) = (UNION {Of(f) : f \in hits}) \cup extra
    BY DEF ChunkOffsets
  <1>2. \A x : EntryOffset(index, c, x) <=> \E f \in hits : x \in Of(f)
    BY DEF EntryOffset
  <1>3. \A f \in past : f \in DOMAIN index /\ index[f][Len(index[f])].checksum = c
    BY DEF ReadsPastEnd
  <1> HIDE DEF hits, Of, past
  <1>4. \A x \in extra : UnreadOffset(index, c, unread, x)
    BY <1>3 DEF UnreadOffset
  <1> HIDE DEF extra
  <1> DEFINE all == UNION {Of(f) : f \in hits}
  <1>5. \A x : x \in all <=> EntryOffset(index, c, x)
    BY <1>2
  <1>6. ChunkOffsets(index, c, unread) = all \cup extra
    BY <1>1
  <1> HIDE DEF all
  <1> QED
    BY <1>4, <1>5, <1>6

SumAt(previous, length, k) == Checksum(FullChecksum(Piece(previous, k, length)))

\* With all index files written the index gives the windows with a checksum
\* the filter has, each at its own offset.
LEMMA OffsetsExact ==
  ASSUME NEW previous \in Seq(Nat), NEW next, NEW length \in Nat \ {0},
         OffsetsFit(previous),
         NEW c \in ChecksumFilter(next, length), c \in Nat, NEW x
  PROVE  EntryOffset(Generate(previous, next, length, {}), c, x)
           <=> x \in 0..(Len(previous) - length) /\ SumAt(previous, length, x) = c
  <1> DEFINE W == RelevantWindows(previous, next, length)
             index == Generate(previous, next, length, {})
             Sum(k) == SumAt(previous, length, k)
             E(k) == Entry(previous, W, k, length)
             N == Len(previous) - length
  <1>1. /\ W \subseteq 0..N /\ W \subseteq Nat /\ IsFiniteSet(W)
        /\ W = {k \in 0..N : IsRelevant(ChecksumFilter(next, length), Sum(k))}
    BY WindowsTyped DEF SumAt
  <1>2. /\ Len(index) \in Nat /\ DOMAIN index = 1..Len(index)
        /\ \A f \in 1..Len(index) :
             /\ index[f] \in Seq(EntryType)
             /\ {index[f][i] : i \in DOMAIN index[f]}
                  = {E(k) : k \in {j \in W : FileNumber(W, j) = f - 1}}
        /\ \A k \in W : FileNumber(W, k) + 1 \in 1..Len(index)
    BY IndexLaidOut
  <1>3. \A f \in 1..Len(index) : Sorted(index[f])
    BY IndexLaidOut DEF Sorted
  <1>4. ASSUME NEW k \in W
        PROVE  E(k).checksum = Sum(k) /\ FileNumber(W, k) * BlocksPerFile + E(k).relative = k
    <2> HIDE DEF W
    <2> QED
      BY <1>1, EntryTyped, OffsetOfEntry DEF SumAt
  <1> HIDE DEF index, W, E
  <1>5. ASSUME NEW f \in 1..Len(index), NEW i \in DOMAIN index[f], index[f][i].checksum = c
        PROVE  /\ (f - 1) * BlocksPerFile + index[f][i].relative \in 0..N
               /\ Sum((f - 1) * BlocksPerFile + index[f][i].relative) = c
    <2>1. PICK k \in W : FileNumber(W, k) = f - 1 /\ index[f][i] = E(k)
      BY <1>2
    <2>2. (f - 1) * BlocksPerFile + index[f][i].relative = k
      BY <1>4, <2>1
    <2>3. Sum(k) = c
      BY <1>4, <1>5, <2>1
    <2> HIDE DEF Sum
    <2> QED
      BY <1>1, <2>2, <2>3
  <1>6. ASSUME NEW k \in 0..N, Sum(k) = c
        PROVE  EntryOffset(index, c, k)
    <2>1. k \in W
      BY <1>1, <1>6 DEF IsRelevant
    <2>2. PICK n \in Nat : n = FileNumber(W, k)
      BY <1>1, <2>1, FileNumberFacts
    <2>3. PICK f \in 1..Len(index) : f = n + 1 /\ f - 1 = n
      BY <1>2, <2>1, <2>2
    <2>4. PICK i \in DOMAIN index[f] : index[f][i] = E(k)
      <3>1. E(k) \in {E(j) : j \in {j \in W : FileNumber(W, j) = f - 1}}
        BY <2>1, <2>2, <2>3
      <3>2. E(k) \in {index[f][i] : i \in DOMAIN index[f]}
        BY <1>2, <3>1
      <3> QED
        BY <3>2
    <2>5. index[f][i].checksum = c
      BY <1>4, <1>6, <2>1, <2>4
    <2>6. k = (f - 1) * BlocksPerFile + index[f][i].relative
      BY <1>4, <2>1, <2>2, <2>3, <2>4
    <2>7. index[f] \in Seq(EntryType) /\ Sorted(index[f]) /\ i \in 1..Len(index[f])
      <3>1. index[f] \in Seq(EntryType) /\ Sorted(index[f])
        BY <1>2, <1>3
      <3> QED
        BY <3>1
    <2>8. Hit(index[f], c) # NoMatch
      BY <2>5, <2>7, HitFacts
    <2> QED
      BY <1>2, <2>5, <2>6, <2>8 DEF EntryOffset
  <1> HIDE DEF Sum, N
  <1>7. ASSUME EntryOffset(index, c, x)
        PROVE  x \in 0..N /\ Sum(x) = c
    <2>1. PICK f \in DOMAIN index : \E i \in DOMAIN index[f] :
            /\ index[f][i].checksum = c
            /\ x = (f - 1) * BlocksPerFile + index[f][i].relative
      BY <1>7 DEF EntryOffset
    <2>2. PICK i \in DOMAIN index[f] :
            /\ index[f][i].checksum = c
            /\ x = (f - 1) * BlocksPerFile + index[f][i].relative
      BY <2>1
    <2>3. f \in 1..Len(index)
      BY <1>2
    <2> QED
      BY <1>5, <2>2, <2>3
  <1>8. EntryOffset(index, c, x) <=> x \in 0..N /\ Sum(x) = c
    BY <1>6, <1>7
  <1> QED
    BY <1>8 DEF index, Sum, N

\* The least of some numbers is one of them.
LEMMA MinFacts ==
  ASSUME NEW S, S \subseteq Nat, S # {}
  PROVE  Min(S) \in S /\ \A x \in S : Min(S) <= x
  <1>1. \E n \in S : \A m \in S : n <= m
    BY LeastNumber
  <1> QED
    BY <1>1 DEF Min

\* The files the checksum is found in.
HitFiles(index, c) == {f \in DOMAIN index : Hit(index[f], c) # NoMatch}

\* The first candidate is the offset in an entry with the checksum, of the
\* first file that has one.
LEMMA CandidateFacts ==
  ASSUME NEW index \in Seq(Seq(EntryType)), NEW c
  PROVE  /\ FirstWithChecksum(index, c) \in Nat \cup {NoMatch}
         /\ HitFiles(index, c) # {} =>
              \E f \in HitFiles(index, c), p \in Nat :
                /\ \A g \in HitFiles(index, c) : f <= g
                /\ p \in DOMAIN index[f] /\ index[f][p].checksum = c
                /\ FirstWithChecksum(index, c) = index[f][p].relative
  <1> DEFINE hits == HitFiles(index, c)
             f == Min(hits)
             first == FirstWithChecksum(index, c)
  <1>1. first = IF hits = {} THEN NoMatch
                ELSE index[f][Hit(index[f], c) + 1].relative
    BY DEF FirstWithChecksum, HitFiles
  <1>2. CASE hits = {}
    <2> HIDE DEF hits, first
    <2>1. first = NoMatch
      BY <1>1, <1>2
    <2> QED
      BY <1>2, <2>1 DEF first, hits
  <1>3. CASE hits # {}
    <2>1. f \in hits /\ \A g \in hits : f <= g
      <3>1. hits \subseteq Nat
        BY DEF HitFiles
      <3> HIDE DEF hits
      <3> QED
        BY <1>3, <3>1, MinFacts
    <2>2. f \in DOMAIN index /\ Hit(index[f], c) # NoMatch /\ f \in 1..Len(index)
      BY <2>1 DEF HitFiles
    <2>3. index[f] \in Seq(EntryType)
      BY <2>2
    <2> HIDE DEF f, hits, first
    <2>4. Hit(index[f], c) \in Found(index[f], c)
      BY <2>3, HitFacts
    <2>5. PICK p \in 0..(Len(index[f]) - 1) :
            p = Hit(index[f], c) /\ index[f][p + 1].checksum = c
      BY <2>2, <2>4 DEF Found
    <2>6. p + 1 \in 1..Len(index[f]) /\ p + 1 \in DOMAIN index[f] /\ p + 1 \in Nat
      BY <2>3, <2>5
    <2>7. index[f][p + 1].relative \in Nat
      <3>1. index[f][p + 1] \in EntryType
        BY <2>3, <2>6
      <3> QED
        BY <3>1 DEF EntryType
    <2>8. first = index[f][p + 1].relative
      BY <1>1, <1>3, <2>5
    <2> QED
      BY <2>1, <2>5, <2>6, <2>7, <2>8 DEF first, hits
  <1> QED
    BY <1>2, <1>3

\* A match is real.
LEMMA MatchIsReal ==
  ASSUME NEW index \in Seq(Seq(EntryType)), NEW previous, NEW chunk,
         FindMatchingChunk(index, previous, chunk) # NoMatch
  PROVE  /\ FindMatchingChunk(index, previous, chunk) \in Nat
         /\ Piece(previous, FindMatchingChunk(index, previous, chunk), Len(chunk)) = chunk
  <1> DEFINE first == FirstWithChecksum(index, Checksum(FullChecksum(chunk)))
  <1>1. first \in Nat \cup {NoMatch}
    BY CandidateFacts
  <1>2. FindMatchingChunk(index, previous, chunk) =
          IF first # NoMatch /\ Piece(previous, first, Len(chunk)) = chunk THEN first ELSE NoMatch
    BY DEF FindMatchingChunk
  <1> HIDE DEF first
  <1> QED
    BY <1>1, <1>2

\* The first candidate for a checksum that the first index file has is the
\* offset of a window with it: no base is missing there.
CandidateIsWindow(previous, next, length, c) ==
  LET first == FirstWithChecksum(Generate(previous, next, length, {}), c)
  IN  /\ first \in 0..(Len(previous) - length) /\ first # NoMatch
      /\ SumAt(previous, length, first) = c

LEMMA FirstFileFacts ==
  ASSUME NEW previous \in Seq(Nat), NEW next, NEW length \in Nat \ {0},
         OffsetsFit(previous)
  PROVE  \A window \in RelevantWindows(previous, next, length) :
           FileNumber(RelevantWindows(previous, next, length), window) = 0 =>
             CandidateIsWindow(previous, next, length, SumAt(previous, length, window))
  <1> DEFINE W == RelevantWindows(previous, next, length)
             index == Generate(previous, next, length, {})
             E(j) == Entry(previous, W, j, length)
             N == Len(previous) - length
  <1>1. W \subseteq 0..N /\ W \subseteq Nat /\ IsFiniteSet(W)
    BY WindowsTyped
  <1>2. /\ Len(index) \in Nat /\ DOMAIN index = 1..Len(index)
        /\ \A f \in 1..Len(index) :
             /\ index[f] \in Seq(EntryType)
             /\ {index[f][i] : i \in DOMAIN index[f]}
                  = {E(k) : k \in {j \in W : FileNumber(W, j) = f - 1}}
        /\ \A k \in W : FileNumber(W, k) + 1 \in 1..Len(index)
    BY IndexLaidOut
  <1>3. \A f \in 1..Len(index) : Sorted(index[f])
    BY IndexLaidOut DEF Sorted
  <1>4. ASSUME NEW j \in W
        PROVE  /\ E(j).checksum = SumAt(previous, length, j)
               /\ FileNumber(W, j) = 0 => E(j).relative = j
    <2>1. E(j).checksum = SumAt(previous, length, j) /\ E(j).relative = Relative(W, j)
      <3> HIDE DEF W
      <3>1. E(j).checksum = SumAt(previous, length, j)
        BY <1>1, EntryTyped DEF SumAt
      <3>2. E(j).relative = Relative(W, j)
        BY <1>1, EntryFits
      <3> QED
        BY <3>1, <3>2
    <2>2. j \in Nat /\ BlocksPerFile \in Nat
      BY <1>1, ChunkIndexAssumption
    <2> HIDE DEF W, E
    <2>3. FileNumber(W, j) = 0 => FileNumber(W, j) * BlocksPerFile = 0
      BY <2>2
    <2> QED
      BY <2>1, <2>2, <2>3 DEF Relative
  <1>5. index \in Seq(Seq(EntryType))
    BY IndexTyped
  <1> HIDE DEF index, W, E
  <1>6. ASSUME NEW window \in W, FileNumber(W, window) = 0
        PROVE  CandidateIsWindow(previous, next, length, SumAt(previous, length, window))
    <2> DEFINE c == SumAt(previous, length, window)
               first == FirstWithChecksum(index, c)
    <2>1. c \in Nat
      <3>1. Piece(previous, window, length) \in Seq(Nat)
        <4>1. window \in 0..N
          BY <1>1
        <4> QED
          BY <4>1, WindowFacts
      <3> QED
        BY <3>1, ChecksumNumber DEF SumAt
    <2>2. window \in W /\ FileNumber(W, window) = 0
      BY <1>6
    <2> HIDE DEF c
    <2>3. 1 \in HitFiles(index, c)
      <3>1. 1 \in 1..Len(index)
        BY <1>2, <2>2
      <3>2. PICK i \in DOMAIN index[1] : index[1][i] = E(window)
        <4>1. E(window) \in {E(k) : k \in {j \in W : FileNumber(W, j) = 1 - 1}}
          BY <2>2
        <4>2. E(window) \in {index[1][i] : i \in DOMAIN index[1]}
          BY <1>2, <3>1, <4>1
        <4> QED
          BY <4>2
      <3>3. index[1][i].checksum = c
        BY <1>4, <2>2, <3>2 DEF c
      <3>4. index[1] \in Seq(EntryType) /\ Sorted(index[1]) /\ i \in 1..Len(index[1])
        <4>1. index[1] \in Seq(EntryType) /\ Sorted(index[1])
          BY <1>2, <1>3, <3>1
        <4> QED
          BY <4>1
      <3>5. Hit(index[1], c) # NoMatch
        BY <2>1, <3>3, <3>4, HitFacts
      <3> QED
        BY <1>2, <3>1, <3>5 DEF HitFiles
    <2>4. PICK f \in HitFiles(index, c), p \in Nat :
             /\ \A g \in HitFiles(index, c) : f <= g
             /\ p \in DOMAIN index[f] /\ index[f][p].checksum = c
             /\ first = index[f][p].relative
      BY <1>5, <2>3, CandidateFacts
    <2>5. f = 1 /\ f \in 1..Len(index)
      <3>1. f \in DOMAIN index
        BY DEF HitFiles
      <3>2. f <= 1
        BY <2>3, <2>4
      <3> QED
        BY <1>2, <3>1, <3>2
    <2>6. PICK j \in W : FileNumber(W, j) = 0 /\ index[f][p] = E(j)
      <3>1. index[f][p] \in {index[f][i] : i \in DOMAIN index[f]}
        BY <2>4
      <3>2. index[f][p] \in {E(k) : k \in {j \in W : FileNumber(W, j) = f - 1}}
        BY <1>2, <2>5, <3>1
      <3> QED
        BY <2>5, <3>2
    <2>7. first = j /\ SumAt(previous, length, j) = c
      BY <1>4, <2>4, <2>6
    <2>8. first \in 0..N /\ SumAt(previous, length, first) = c
      BY <1>1, <2>7
    <2>9. first # NoMatch
      BY <1>1, <2>7, ChunkIndexAssumption
    <2> QED
      BY <2>8, <2>9 DEF CandidateIsWindow, c, index, N
  <1> QED
    BY <1>6 DEF W
--------------------------------------------------------------------------
(* The chunks behind a match.                                              *)

\* The chunks number k behind the two offsets.
Alike(a, offsetA, b, offsetB, size, k) ==
  Piece(a, offsetA + k * size, size) = Piece(b, offsetB + k * size, size)

\* All the chunks that are counted are alike.
LEMMA CountFacts ==
  ASSUME NEW a, Len(a) \in Nat, NEW offsetA, NEW b, NEW offsetB, NEW size
  PROVE  /\ CountMatchingChunks(a, offsetA, b, offsetB, size) \in Nat
         /\ \A k \in Nat : k < CountMatchingChunks(a, offsetA, b, offsetB, size) =>
              Alike(a, offsetA, b, offsetB, size, k)
  <1> DEFINE Readable(file, offset, k) ==
               k = 0 \/ offset > Len(file) \/ offset + k * size < Len(file)
             Agree(k) == /\ Readable(a, offsetA, k) /\ Readable(b, offsetB, k)
                         /\ Alike(a, offsetA, b, offsetB, size, k)
             S == {n \in 0..Len(a) : \A k \in 0..n : Agree(k)}
             c == CountMatchingChunks(a, offsetA, b, offsetB, size)
  <1>1. c = Cardinality(S)
    BY DEF CountMatchingChunks, Alike
  <1>2. \A k : Agree(k) => Alike(a, offsetA, b, offsetB, size, k)
    OBVIOUS
  <1> HIDE DEF c, Agree
  <1>3. IsFiniteSet(S) /\ c \in Nat
    <2>1. IsFiniteSet(0..Len(a))
      BY FS_Interval
    <2>2. IsFiniteSet(S)
      BY <2>1, FS_Subset
    <2> QED
      BY <1>1, <2>2, FS_CardinalityType
  <1>4. ASSUME NEW k \in Nat, k < c
        PROVE  Agree(k)
    <2> SUFFICES ASSUME ~Agree(k)
                 PROVE  FALSE
      OBVIOUS
    <2>1. S \subseteq 0..(k - 1)
      <3> SUFFICES ASSUME NEW n \in S, ~(n < k)
                   PROVE  FALSE
        OBVIOUS
      <3>1. k \in 0..n
        OBVIOUS
      <3> QED
        BY <3>1
    <2> HIDE DEF S
    <2>2. IsFiniteSet(0..(k - 1)) /\ Cardinality(0..(k - 1)) = k
      <3>1. 0 \in Int /\ k - 1 \in Int
        OBVIOUS
      <3>2. Cardinality(0..(k - 1)) = IF 0 > k - 1 THEN 0 ELSE (k - 1) - 0 + 1
        BY <3>1, FS_Interval
      <3> QED
        BY <3>1, <3>2, FS_Interval
    <2>3. Cardinality(S) <= k
      BY <2>1, <2>2, FS_Subset
    <2> QED
      BY <1>1, <1>3, <1>4, <2>3
  <1> QED
    BY <1>2, <1>3, <1>4 DEF c
===========================================================================

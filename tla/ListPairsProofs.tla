------------------------- MODULE ListPairsProofs -------------------------
(***************************************************************************)
(* Proofs about ResourceLists and ListPairs: what Merge and Diff make of   *)
(* two lists of any length.  The set operations of the standard library    *)
(* are described by the entries they keep of each path, and the promises   *)
(* of Merge and Diff follow path by path.  The last sections are about     *)
(* Documents and GroupDocuments: a node is what a resource has of the      *)
(* parameters its version expects, and reading it fills in the rest.       *)
(***************************************************************************)
EXTENDS GroupDocuments, SequenceLemmas

(* Selected.                                                               *)

\* f has what is selected of the first entries.
Picks(f, S, list, places) ==
  /\ f \in [0..Len(list) -> Seq(S)]
  /\ f[0] = <<>>
  /\ \A k \in 1..Len(list) :
       f[k] = IF k \in places THEN Append(f[k - 1], list[k]) ELSE f[k - 1]
  /\ Selected(list, places) = f[Len(list)]

LEMMA SelectedUnfolds ==
  ASSUME NEW S, NEW list \in Seq(S), NEW places
  PROVE  \E f : Picks(f, S, list, places)
  <1> DEFINE N == Len(list)
             V == Seq(S)
             Go(k, s) == IF k \in places THEN Append(s, list[k]) ELSE s
             Rule(f) == f = [n \in 0..N |-> IF n = 0 THEN <<>>
                                            ELSE IF n \in places
                                                 THEN Append(f[n - 1], list[n])
                                                 ELSE f[n - 1]]
             selected == CHOOSE f : Rule(f)
             G == [x \in Nat \X V |-> IF x[1] \in 1..N THEN Go(x[1], x[2]) ELSE <<>>]
  <1>1. N \in Nat /\ \A k \in 1..N : list[k] \in S
    OBVIOUS
  <1>2. <<>> \in V
    BY EmptySeq
  <1>3. ASSUME NEW k \in 1..N, NEW s \in V PROVE Go(k, s) \in V
    BY <1>1, AppendProperties
  <1>4. G \in [Nat \X V -> V]
    <2> HIDE DEF N, V, Go
    <2> QED
      BY <1>1, <1>2, <1>3
  <1>5. PICK f : Unrolls(f, N, V, <<>>, G)
    <2> HIDE DEF G, N, V
    <2> QED
      BY <1>1, <1>2, <1>4, FiniteRecursion
  <1>6. f \in [0..N -> V] /\ f[0] = <<>>
    <2> HIDE DEF G, N, V
    <2> QED
      BY <1>5 DEF Unrolls
  <1>7. ASSUME NEW k \in 1..N PROVE f[k] = Go(k, f[k - 1])
    <2>1. f[k] = G[<<k, f[k - 1]>>]
      <3> HIDE DEF G, N, V
      <3> QED
        BY <1>5 DEF Unrolls
    <2>2. k \in Nat /\ k - 1 \in 0..N
      BY <1>1
    <2>3. f[k - 1] \in V
      <3> HIDE DEF N, V
      <3> QED
        BY <1>6, <2>2
    <2> HIDE DEF N, V, Go
    <2> QED
      BY <2>1, <2>2, <2>3
  <1>8. Rule(f)
    <2> DEFINE E(n) == IF n = 0 THEN <<>> ELSE Go(n, f[n - 1])
    <2>1. ASSUME NEW n \in 0..N PROVE f[n] = E(n)
      <3>1. CASE n = 0
        BY <1>6, <3>1
      <3>2. CASE n # 0
        <4>1. n \in 1..N
          BY <1>1, <3>2
        <4> HIDE DEF N, Go
        <4> QED
          BY <1>7, <3>2, <4>1
      <3> QED
        BY <3>1, <3>2
    <2> HIDE DEF N, V
    <2>2. f = [n \in 0..N |-> E(n)]
      <3> HIDE DEF E
      <3> QED
        BY <1>6, <2>1
    <2> QED
      BY <2>2
  <1>9. Rule(selected)
    <2> HIDE DEF Rule
    <2> QED
      BY <1>8
  <1>10. selected[0] = <<>> /\ \A k \in 1..N : selected[k] = Go(k, selected[k - 1])
    <2>1. selected = [n \in 0..N |-> IF n = 0 THEN <<>>
                                     ELSE IF n \in places
                                          THEN Append(selected[n - 1], list[n])
                                          ELSE selected[n - 1]]
      BY <1>9
    <2>2. 0 \in 0..N /\ \A k \in 1..N : k \in 0..N /\ k # 0
      BY <1>1
    <2> HIDE DEF selected, N
    <2> QED
      BY <2>1, <2>2
  <1>11. selected[N] = f[N]
    <2>1. InStep(selected, f, N)
      <3> HIDE DEF selected, N, Go
      <3> QED
        BY <1>7, <1>10 DEF InStep
    <2>2. N \in 0..N
      BY <1>1
    <2> HIDE DEF selected, N, Go
    <2>3. N \in Nat /\ selected[0] = f[0]
      BY <1>1, <1>6, <1>10
    <2>4. \A k \in 0..N : selected[k] = f[k]
      BY <2>1, <2>3, GoOnAlike
    <2> QED
      BY <2>2, <2>4
  <1>12. Selected(list, places) = selected[N]
    BY DEF Selected
  <1> HIDE DEF selected
  <1> QED
    BY <1>6, <1>7, <1>11, <1>12 DEF Picks

\* One entry more.
LEMMA SelectedAppend ==
  ASSUME NEW S, NEW list \in Seq(S), NEW x \in S, NEW places, NEW others,
         \A i \in 1..Len(list) : i \in places <=> i \in others
  PROVE  Selected(Append(list, x), others)
           = IF Len(list) + 1 \in others THEN Append(Selected(list, places), x)
             ELSE Selected(list, places)
  <1>1. PICK more : more = Append(list, x)
    OBVIOUS
  <1>2. PICK n : n = Len(list)
    OBVIOUS
  <1>3. /\ n \in Nat /\ more \in Seq(S) /\ Len(more) = n + 1 /\ more[n + 1] = x
        /\ \A i \in 1..n : more[i] = list[i]
    BY <1>1, <1>2
  <1>4. PICK f : Picks(f, S, list, places)
    BY SelectedUnfolds
  <1>5. PICK g : Picks(g, S, more, others)
    BY <1>3, SelectedUnfolds
  <1>6. /\ f[0] = <<>> /\ Selected(list, places) = f[n]
        /\ \A k \in 1..n :
             f[k] = IF k \in places THEN Append(f[k - 1], list[k]) ELSE f[k - 1]
    BY <1>2, <1>4 DEF Picks
  <1>7. /\ g[0] = <<>> /\ Selected(more, others) = g[n + 1]
        /\ \A k \in 1..(n + 1) :
             g[k] = IF k \in others THEN Append(g[k - 1], more[k]) ELSE g[k - 1]
    BY <1>3, <1>5 DEF Picks
  <1>8. InStep(f, g, n)
    <2> SUFFICES ASSUME NEW k \in 1..n, f[k - 1] = g[k - 1] PROVE f[k] = g[k]
      BY DEF InStep
    <2>1. k \in 1..(n + 1) /\ more[k] = list[k] /\ (k \in places <=> k \in others)
      BY <1>2, <1>3
    <2>2. f[k] = IF k \in places THEN Append(f[k - 1], list[k]) ELSE f[k - 1]
      BY <1>6
    <2>3. g[k] = IF k \in others THEN Append(g[k - 1], more[k]) ELSE g[k - 1]
      BY <1>7, <2>1
    <2> QED
      BY <2>1, <2>2, <2>3
  <1>9. f[n] = g[n]
    <2>1. n \in 0..n /\ f[0] = g[0]
      BY <1>3, <1>6, <1>7
    <2> QED
      BY <1>3, <1>8, <2>1, GoOnAlike
  <1>10. n + 1 \in 1..(n + 1) /\ (n + 1) - 1 = n
    BY <1>3
  <1>11. g[n + 1] = IF n + 1 \in others THEN Append(g[n], x) ELSE g[n]
    BY <1>3, <1>7, <1>10
  <1> QED
    BY <1>1, <1>2, <1>6, <1>7, <1>9, <1>11

LEMMA SelectedEmpty ==
  ASSUME NEW places
  PROVE  Selected(<<>>, places) = <<>>
  <1>1. <<>> \in Seq({}) /\ Len(<<>>) = 0
    BY EmptySeq
  <1>2. PICK f : Picks(f, {}, <<>>, places)
    BY <1>1, SelectedUnfolds
  <1> QED
    BY <1>1, <1>2 DEF Picks

\* g says at which of the first n places every selected entry was.
Places(g, s, list, places, n) ==
  /\ g \in [1..Len(s) -> 1..n \cap places]
  /\ \A i \in 1..Len(s), j \in 1..Len(s) : g[i] = g[j] => i = j
  /\ \A k \in 1..n \cap places : \E i \in 1..Len(s) : g[i] = k
  /\ \A i \in 1..Len(s) : s[i] = list[g[i]]

LEMMA PlacesSkip ==
  ASSUME NEW g, NEW s, NEW list, NEW places, NEW n \in Nat, Places(g, s, list, places, n),
         n + 1 \notin places
  PROVE  Places(g, s, list, places, n + 1)
  <1>1. 1..n \cap places = 1..(n + 1) \cap places
    <2>1. \A k \in 1..(n + 1) : k \in 1..n \/ k = n + 1
      OBVIOUS
    <2>2. \A k \in 1..n : k \in 1..(n + 1)
      OBVIOUS
    <2> QED
      BY <2>1, <2>2
  <1> QED
    BY <1>1 DEF Places

LEMMA PlacesNext ==
  ASSUME NEW S, NEW g, NEW s \in Seq(S), NEW list, NEW places, NEW n \in Nat,
         Places(g, s, list, places, n), n + 1 \in places, list[n + 1] \in S
  PROVE  \E h : Places(h, Append(s, list[n + 1]), list, places, n + 1)
  <1> DEFINE h == [i \in 1..(Len(s) + 1) |-> IF i <= Len(s) THEN g[i] ELSE n + 1]
             t == Append(s, list[n + 1])
  <1>1. /\ Len(s) \in Nat /\ Len(t) = Len(s) + 1 /\ t[Len(s) + 1] = list[n + 1]
        /\ \A i \in 1..Len(s) : t[i] = s[i]
    OBVIOUS
  <1>2. \A i \in 1..Len(s) : g[i] \in 1..n /\ g[i] \in places /\ g[i] # n + 1
    <2>1. \A k \in 1..n : k # n + 1
      OBVIOUS
    <2> QED
      BY <2>1 DEF Places
  <1>3. \A i \in 1..(Len(s) + 1) : i \in 1..Len(s) \/ (i = Len(s) + 1 /\ ~(i <= Len(s)))
    BY <1>1
  <1>4. /\ \A i \in 1..Len(s) : i \in 1..(Len(s) + 1) /\ h[i] = g[i]
        /\ Len(s) + 1 \in 1..(Len(s) + 1) /\ h[Len(s) + 1] = n + 1
    BY <1>1
  <1>5. \A k \in 1..n : k \in 1..(n + 1)
    OBVIOUS
  <1>6. \A k \in 1..(n + 1) : k \in 1..n \/ k = n + 1
    OBVIOUS
  <1> HIDE DEF t
  <1>7. h \in [1..Len(t) -> 1..(n + 1) \cap places]
    <2>1. ASSUME NEW i \in 1..(Len(s) + 1) PROVE h[i] \in 1..(n + 1) \cap places
      <3> HIDE DEF h
      <3>1. n + 1 \in 1..(n + 1)
        OBVIOUS
      <3> QED
        BY <1>2, <1>3, <1>4, <1>5, <3>1
    <2> QED
      BY <1>1, <2>1
  <1> HIDE DEF h
  <1>8. ASSUME NEW i \in 1..(Len(s) + 1), NEW j \in 1..(Len(s) + 1), h[i] = h[j]
        PROVE  i = j
    BY <1>2, <1>3, <1>4, <1>8 DEF Places
  <1>9. ASSUME NEW k \in 1..(n + 1) \cap places
        PROVE  \E i \in 1..(Len(s) + 1) : h[i] = k
    <2>1. CASE k = n + 1
      BY <1>4, <2>1
    <2>2. CASE k # n + 1
      <3>1. k \in 1..n \cap places
        BY <1>6, <2>2
      <3>2. PICK i \in 1..Len(s) : g[i] = k
        BY <3>1 DEF Places
      <3> QED
        BY <1>4, <3>2
    <2> QED
      BY <2>1, <2>2
  <1>10. ASSUME NEW i \in 1..(Len(s) + 1) PROVE t[i] = list[h[i]]
    <2>1. \A k \in 1..Len(s) : s[k] = list[g[k]]
      BY DEF Places
    <2> QED
      BY <1>1, <1>3, <1>4, <2>1
  <1>11. Places(h, t, list, places, n + 1)
    BY <1>1, <1>7, <1>8, <1>9, <1>10 DEF Places
  <1> QED
    BY <1>11 DEF t

\* What Selected makes of a list.
LEMMA SelectedFacts ==
  ASSUME NEW S, NEW list \in Seq(S), NEW places
  PROVE  /\ Selected(list, places) \in Seq(S)
         /\ \E g : Places(g, Selected(list, places), list, places, Len(list))
  <1>1. PICK N : N = Len(list)
    OBVIOUS
  <1>2. PICK f : Picks(f, S, list, places)
    BY SelectedUnfolds
  <1>3. /\ N \in Nat /\ f[0] = <<>> /\ Selected(list, places) = f[N]
        /\ \A k \in 1..N :
             f[k] = IF k \in places THEN Append(f[k - 1], list[k]) ELSE f[k - 1]
        /\ \A k \in 0..N : f[k] \in Seq(S)
        /\ \A k \in 1..N : list[k] \in S
    BY <1>1, <1>2 DEF Picks
  <1> DEFINE T == {n \in Nat : n \in 0..N => \E g : Places(g, f[n], list, places, n)}
  <1>4. 0 \in T
    <2>1. Places([i \in 1..0 |-> 1], <<>>, list, places, 0)
      BY EmptySeq DEF Places
    <2> QED
      BY <1>3, <2>1
  <1>5. ASSUME NEW n \in Nat, n \in T PROVE n + 1 \in T
    <2> SUFFICES ASSUME n + 1 \in 0..N
                 PROVE  \E g : Places(g, f[n + 1], list, places, n + 1)
      OBVIOUS
    <2>1. n \in 0..N /\ n + 1 \in 1..N /\ (n + 1) - 1 = n
      BY <1>3
    <2>2. PICK g : Places(g, f[n], list, places, n)
      BY <1>5, <2>1
    <2>3. f[n] \in Seq(S) /\ list[n + 1] \in S
      BY <1>3, <2>1
    <2>4. f[n + 1] = IF n + 1 \in places THEN Append(f[n], list[n + 1]) ELSE f[n]
      BY <1>3, <2>1
    <2> HIDE DEF T
    <2>5. CASE n + 1 \in places
      <3>1. \E h : Places(h, Append(f[n], list[n + 1]), list, places, n + 1)
        BY <2>2, <2>3, <2>5, PlacesNext
      <3> QED
        BY <2>4, <2>5, <3>1
    <2>6. CASE n + 1 \notin places
      <3>1. Places(g, f[n], list, places, n + 1)
        BY <2>2, <2>6, PlacesSkip
      <3> QED
        BY <2>4, <2>6, <3>1
    <2> QED
      BY <2>5, <2>6
  <1>6. Nat \subseteq T
    <2> HIDE DEF T
    <2> QED
      BY <1>4, <1>5, SetInduction
  <1>7. N \in 0..N
    BY <1>3
  <1>8. \E g : Places(g, f[N], list, places, N)
    BY <1>3, <1>6, <1>7
  <1> QED
    BY <1>1, <1>3, <1>7, <1>8

\* The entries that are selected.
LEMMA SelectedEntries ==
  ASSUME NEW S, NEW list \in Seq(S), NEW places
  PROVE  ToSet(Selected(list, places)) = {list[i] : i \in DOMAIN list \cap places}
  <1>1. PICK s : s = Selected(list, places)
    OBVIOUS
  <1>2. s \in Seq(S) /\ \E g : Places(g, s, list, places, Len(list))
    BY <1>1, SelectedFacts
  <1>3. PICK g : Places(g, s, list, places, Len(list))
    BY <1>2
  <1>4. DOMAIN s = 1..Len(s) /\ DOMAIN list = 1..Len(list)
    BY <1>2
  <1>5. /\ \A i \in 1..Len(s) : g[i] \in DOMAIN list \cap places /\ s[i] = list[g[i]]
        /\ \A k \in DOMAIN list \cap places : \E i \in 1..Len(s) : g[i] = k
    BY <1>3, <1>4 DEF Places
  <1>6. ToSet(s) = {s[i] : i \in 1..Len(s)}
    BY <1>4 DEF ToSet
  <1> QED
    BY <1>1, <1>5, <1>6

\* All or nothing.
LEMMA SelectedNone ==
  ASSUME NEW S, NEW list \in Seq(S), NEW places, \A i \in DOMAIN list : i \notin places
  PROVE  Selected(list, places) = <<>>
  <1>1. Selected(list, places) \in Seq(S)
    BY SelectedFacts
  <1>2. PICK g : Places(g, Selected(list, places), list, places, Len(list))
    BY SelectedFacts
  <1>3. DOMAIN list = 1..Len(list)
    OBVIOUS
  <1>4. \A i \in 1..Len(Selected(list, places)) : FALSE
    BY <1>2, <1>3 DEF Places
  <1>5. PICK s \in Seq(S) : s = Selected(list, places)
    BY <1>1
  <1>6. Len(s) = 0
    BY <1>4, <1>5
  <1> QED
    BY <1>5, <1>6, EmptySeq

LEMMA SelectedAll ==
  ASSUME NEW S, NEW list \in Seq(S), NEW places, \A i \in DOMAIN list : i \in places
  PROVE  Selected(list, places) = list
  <1>1. PICK f : Picks(f, S, list, places)
    BY SelectedUnfolds
  <1>2. PICK N : N = Len(list)
    OBVIOUS
  <1>3. /\ N \in Nat /\ f[0] = <<>> /\ Selected(list, places) = f[N]
        /\ \A k \in 1..N : f[k] = Append(f[k - 1], list[k])
        /\ \A k \in 0..N : f[k] \in Seq(S)
        /\ \A k \in 1..N : list[k] \in S
    <2>1. \A k \in 1..N : k \in places /\ list[k] \in S
      BY <1>2
    <2>2. \A k \in 1..N :
             f[k] = IF k \in places THEN Append(f[k - 1], list[k]) ELSE f[k - 1]
      BY <1>1, <1>2 DEF Picks
    <2>3. /\ N \in Nat /\ f[0] = <<>> /\ Selected(list, places) = f[N]
          /\ \A k \in 0..N : f[k] \in Seq(S)
      BY <1>1, <1>2 DEF Picks
    <2>4. \A k \in 1..N : f[k] = Append(f[k - 1], list[k])
      <3> SUFFICES ASSUME NEW k \in 1..N PROVE f[k] = Append(f[k - 1], list[k])
        OBVIOUS
      <3>1. k \in places
        BY <2>1
      <3>2. f[k] = IF k \in places THEN Append(f[k - 1], list[k]) ELSE f[k - 1]
        BY <2>2
      <3> QED
        BY <3>1, <3>2
    <2> QED
      BY <2>1, <2>3, <2>4
  <1> DEFINE Begins(s, n) == Len(s) = n /\ \A i \in 1..n : s[i] = list[i]
             T == {n \in Nat : n \in 0..N => Begins(f[n], n)}
  <1>4. 0 \in T
    BY <1>3, EmptySeq
  <1>5. ASSUME NEW n \in Nat, n \in T PROVE n + 1 \in T
    <2> SUFFICES ASSUME n + 1 \in 0..N PROVE Begins(f[n + 1], n + 1)
      OBVIOUS
    <2>1. n \in 0..N /\ n + 1 \in 1..N /\ (n + 1) - 1 = n
      BY <1>3
    <2>2. PICK s \in Seq(S) : s = f[n]
      BY <1>3, <2>1
    <2>3. Begins(s, n) /\ f[n + 1] = Append(s, list[n + 1]) /\ list[n + 1] \in S
      BY <1>3, <1>5, <2>1, <2>2
    <2>4. Begins(Append(s, list[n + 1]), n + 1)
      BY <2>3
    <2> QED
      BY <2>3, <2>4
  <1>6. Nat \subseteq T
    <2> HIDE DEF T
    <2> QED
      BY <1>4, <1>5, SetInduction
  <1>7. N \in 0..N
    BY <1>3
  <1>8. f[N] \in Seq(S) /\ Len(f[N]) = N /\ \A i \in 1..N : f[N][i] = list[i]
    BY <1>3, <1>6, <1>7
  <1> QED
    BY <1>2, <1>3, <1>8, SeqEqual
---------------------------------------------------------------------------
(* The entries of one path.                                                *)

LEMMA AtPathEmpty == \A p : AtPath(<<>>, p) = <<>>
  BY SelectedEmpty DEF AtPath

LEMMA AtPathAppend ==
  ASSUME NEW S, NEW list \in Seq(S), NEW x \in S, NEW p
  PROVE  AtPath(Append(list, x), p) = IF x.path = p THEN Append(AtPath(list, p), x)
                                      ELSE AtPath(list, p)
  <1> DEFINE more == Append(list, x)
             places == {i \in DOMAIN list : list[i].path = p}
             others == {i \in DOMAIN more : more[i].path = p}
  <1>1. /\ DOMAIN list = 1..Len(list) /\ DOMAIN more = 1..(Len(list) + 1)
        /\ \A i \in 1..Len(list) : i \in 1..(Len(list) + 1) /\ more[i] = list[i]
        /\ Len(list) + 1 \in 1..(Len(list) + 1) /\ more[Len(list) + 1] = x
    OBVIOUS
  <1> HIDE DEF more
  <1>2. \A i \in 1..Len(list) : i \in places <=> i \in others
    BY <1>1
  <1>3. Len(list) + 1 \in others <=> x.path = p
    BY <1>1
  <1> HIDE DEF places, others
  <1>4. Selected(Append(list, x), others)
          = IF Len(list) + 1 \in others THEN Append(Selected(list, places), x)
            ELSE Selected(list, places)
    BY <1>2, SelectedAppend
  <1> USE DEF more, places, others
  <1>5. AtPath(list, p) = Selected(list, places) /\ AtPath(more, p) = Selected(more, others)
    BY DEF AtPath
  <1> QED
    <2> HIDE DEF places, others
    <2> QED
      BY <1>3, <1>4, <1>5

LEMMA AtPathFacts ==
  ASSUME NEW S, NEW list \in Seq(S), NEW p
  PROVE  /\ AtPath(list, p) \in Seq(S)
         /\ ToSet(AtPath(list, p)) = {r \in ToSet(list) : r.path = p}
         /\ \A i \in 1..Len(AtPath(list, p)) :
              AtPath(list, p)[i] \in ToSet(list) /\ AtPath(list, p)[i].path = p
         /\ p \in PathsOf(list) <=> Len(AtPath(list, p)) # 0
  <1> DEFINE places == {i \in DOMAIN list : list[i].path = p}
  <1>1. PICK s : s = Selected(list, places)
    OBVIOUS
  <1>2. AtPath(list, p) = s
    BY <1>1 DEF AtPath
  <1>3. s \in Seq(S) /\ ToSet(s) = {list[i] : i \in DOMAIN list \cap places}
    <2> HIDE DEF places
    <2> QED
      BY <1>1, SelectedFacts, SelectedEntries
  <1>4. ToSet(s) = {r \in ToSet(list) : r.path = p}
    BY <1>3 DEF ToSet
  <1>5. DOMAIN s = 1..Len(s) /\ Len(s) \in Nat
    BY <1>3
  <1>6. \A i \in 1..Len(s) : s[i] \in ToSet(s)
    BY <1>5 DEF ToSet
  <1>7. \A i \in 1..Len(s) : s[i] \in ToSet(list) /\ s[i].path = p
    BY <1>4, <1>6
  <1>8. p \in PathsOf(list) <=> ToSet(s) # {}
    BY <1>4 DEF PathsOf, ToSet
  <1>9. ToSet(s) # {} <=> Len(s) # 0
    <2>1. Len(s) # 0 => 1 \in 1..Len(s)
      BY <1>5
    <2>2. Len(s) = 0 => 1..Len(s) = {}
      OBVIOUS
    <2>3. ToSet(s) = {s[i] : i \in 1..Len(s)}
      BY <1>5 DEF ToSet
    <2> QED
      BY <2>1, <2>2, <2>3
  <1> QED
    BY <1>2, <1>3, <1>4, <1>7, <1>8, <1>9

\* No path is listed twice if and only if no path has two entries.
LEMMA UniqueAt ==
  ASSUME NEW S, NEW list \in Seq(S)
  PROVE  UniquePaths(list) <=> \A p : Len(AtPath(list, p)) <= 1
  <1>1. DOMAIN list = 1..Len(list)
    OBVIOUS
  <1>2. ASSUME UniquePaths(list), NEW p PROVE Len(AtPath(list, p)) <= 1
    <2> DEFINE places == {i \in DOMAIN list : list[i].path = p}
    <2>1. PICK s : s = Selected(list, places) /\ s \in Seq(S)
      BY SelectedFacts
    <2>2. PICK g : Places(g, s, list, places, Len(list))
      BY <2>1, SelectedFacts
    <2>3. /\ \A i \in 1..Len(s) : g[i] \in DOMAIN list /\ list[g[i]].path = p
          /\ \A i \in 1..Len(s), j \in 1..Len(s) : g[i] = g[j] => i = j
      BY <1>1, <2>2 DEF Places
    <2>4. SUFFICES ASSUME ~(Len(s) <= 1) PROVE FALSE
      BY <2>1 DEF AtPath
    <2>5. 1 \in 1..Len(s) /\ 2 \in 1..Len(s) /\ 1 # 2
      BY <2>1, <2>4
    <2>6. g[1] = g[2]
      BY <1>2, <2>3, <2>5 DEF UniquePaths
    <2> QED
      BY <2>3, <2>5, <2>6
  <1>3. ASSUME \A p : Len(AtPath(list, p)) <= 1,
               NEW i \in DOMAIN list, NEW j \in DOMAIN list, list[i].path = list[j].path
        PROVE  i = j
    <2> DEFINE p == list[i].path
               places == {k \in DOMAIN list : list[k].path = p}
    <2>1. PICK s : s = Selected(list, places) /\ s \in Seq(S)
      BY SelectedFacts
    <2>2. PICK g : Places(g, s, list, places, Len(list))
      BY <2>1, SelectedFacts
    <2>3. AtPath(list, p) = s
      BY <2>1 DEF AtPath
    <2>4. Len(s) <= 1
      BY <1>3, <2>3
    <2>5. i \in DOMAIN list \cap places /\ j \in DOMAIN list \cap places
      BY <1>3
    <2> HIDE DEF p, places
    <2>6. PICK k \in 1..Len(s) : g[k] = i
      BY <1>1, <2>2, <2>5 DEF Places
    <2>7. PICK l \in 1..Len(s) : g[l] = j
      BY <1>1, <2>2, <2>5 DEF Places
    <2>8. k = l
      BY <2>1, <2>4
    <2> QED
      BY <2>6, <2>7, <2>8
  <1> QED
    BY <1>2, <1>3 DEF UniquePaths

\* It does not matter which is done first.
Shifts(a, b, x) == Append(a \o b, x) = a \o Append(b, x)

LEMMA ConcatAppend ==
  ASSUME NEW S, NEW a \in Seq(S), NEW b \in Seq(S), NEW x \in S
  PROVE  Shifts(a, b, x)
  <1>1. PICK c : c = a \o b
    OBVIOUS
  <1>2. PICK d \in Seq(S) : d = Append(b, x)
    <2>1. Append(b, x) \in Seq(S)
      BY AppendProperties
    <2> QED
      BY <2>1
  <1>3. /\ c \in Seq(S) /\ Len(c) = Len(a) + Len(b)
        /\ \A i \in 1..(Len(a) + Len(b)) :
             c[i] = IF i <= Len(a) THEN a[i] ELSE b[i - Len(a)]
    BY <1>1, ConcatProperties
  <1>4. /\ d \in Seq(S) /\ Len(d) = Len(b) + 1 /\ d[Len(b) + 1] = x
        /\ \A i \in 1..Len(b) : d[i] = b[i]
    BY <1>2
  <1>5. PICK l : l = Append(c, x)
    OBVIOUS
  <1>6. PICK r : r = a \o d
    OBVIOUS
  <1>7. Len(a) \in Nat /\ Len(b) \in Nat
    OBVIOUS
  <1>8. /\ l \in Seq(S) /\ Len(l) = Len(a) + Len(b) + 1
        /\ l[Len(a) + Len(b) + 1] = x
        /\ \A i \in 1..(Len(a) + Len(b)) : l[i] = c[i]
    BY <1>3, <1>5
  <1>9. /\ r \in Seq(S) /\ Len(r) = Len(a) + Len(b) + 1
        /\ \A i \in 1..(Len(a) + Len(b) + 1) :
             r[i] = IF i <= Len(a) THEN a[i] ELSE d[i - Len(a)]
    <2>1. /\ r \in Seq(S) /\ Len(r) = Len(a) + Len(d)
          /\ \A i \in 1..(Len(a) + Len(d)) :
               r[i] = IF i <= Len(a) THEN a[i] ELSE d[i - Len(a)]
      BY <1>6, ConcatProperties
    <2>2. Len(a) + Len(d) = Len(a) + Len(b) + 1
      BY <1>4, <1>7
    <2> QED
      BY <2>1, <2>2
  <1>10. ASSUME NEW i \in 1..(Len(a) + Len(b) + 1) PROVE l[i] = r[i]
    <2>1. CASE i <= Len(a)
      <3>1. i \in 1..(Len(a) + Len(b))
        BY <1>7, <2>1
      <3> QED
        BY <1>3, <1>8, <1>9, <2>1, <3>1
    <2>2. CASE i > Len(a) /\ i <= Len(a) + Len(b)
      <3>1. i - Len(a) \in 1..Len(b) /\ i \in 1..(Len(a) + Len(b)) /\ ~(i <= Len(a))
        BY <1>7, <2>2
      <3> QED
        BY <1>3, <1>4, <1>8, <1>9, <3>1
    <2>3. CASE i = Len(a) + Len(b) + 1
      <3>1. i - Len(a) = Len(b) + 1 /\ ~(i <= Len(a))
        BY <1>7, <2>3
      <3> QED
        BY <1>4, <1>8, <1>9, <2>3, <3>1
    <2> QED
      BY <1>7, <2>1, <2>2, <2>3
  <1>11. l = r
    BY <1>8, <1>9, <1>10, SeqEqual
  <1> QED
    BY <1>1, <1>2, <1>5, <1>6, <1>11 DEF Shifts

\* One list behind the other.
LEMMA AtPathConcat ==
  ASSUME NEW S, NEW s \in Seq(S), NEW t \in Seq(S), NEW p
  PROVE  AtPath(s \o t, p) = AtPath(s, p) \o AtPath(t, p)
  <1> DEFINE Splits(u) == AtPath(s \o u, p) = AtPath(s, p) \o AtPath(u, p)
             T == {n \in Nat : \A u \in Seq(S) : Len(u) = n => Splits(u)}
  <1>0. \A u \in Seq(S) : AtPath(u, p) \in Seq(S)
    BY AtPathFacts
  <1>1. 0 \in T
    <2> SUFFICES ASSUME NEW u \in Seq(S), Len(u) = 0 PROVE Splits(u)
      OBVIOUS
    <2>1. u = <<>>
      BY EmptySeq
    <2>2. s \o <<>> = s /\ AtPath(s, p) \o <<>> = AtPath(s, p)
      BY <1>0, ConcatEmptySeq
    <2> QED
      BY <2>1, <2>2, AtPathEmpty
  <1>2. ASSUME NEW n \in Nat, n \in T PROVE n + 1 \in T
    <2> SUFFICES ASSUME NEW u \in Seq(S), Len(u) = n + 1 PROVE Splits(u)
      OBVIOUS
    <2>1. PICK v \in Seq(S), x \in S : u = Append(v, x) /\ Len(v) = n
      <3> DEFINE v == SubSeq(u, 1, n)
                 x == u[n + 1]
      <3>1. v \in Seq(S) /\ Len(v) = n /\ x \in S /\ \A i \in 1..n : v[i] = u[i]
        OBVIOUS
      <3> HIDE DEF v
      <3>2. /\ Append(v, x) \in Seq(S) /\ Len(Append(v, x)) = n + 1
            /\ \A i \in 1..(n + 1) : Append(v, x)[i] = u[i]
        BY <3>1
      <3>3. u = Append(v, x)
        BY <3>2, SeqEqual
      <3> QED
        BY <3>1, <3>3
    <2>2. Splits(v)
      BY <1>2, <2>1
    <2>3. PICK w \in Seq(S) : w = s \o v
      <3>1. s \o v \in Seq(S)
        BY ConcatProperties
      <3> QED
        BY <3>1
    <2>4. s \o u = Append(w, x)
      <3>1. Shifts(s, v, x)
        BY ConcatAppend
      <3> QED
        BY <2>1, <2>3, <3>1 DEF Shifts
    <2>5. AtPath(w, p) = AtPath(s, p) \o AtPath(v, p)
      BY <2>2, <2>3
    <2>6. AtPath(Append(w, x), p) = IF x.path = p THEN Append(AtPath(w, p), x)
                                    ELSE AtPath(w, p)
      BY AtPathAppend
    <2>7. AtPath(Append(v, x), p) = IF x.path = p THEN Append(AtPath(v, p), x)
                                    ELSE AtPath(v, p)
      BY AtPathAppend
    <2>8. PICK a \in Seq(S) : a = AtPath(s, p)
      BY <1>0
    <2>9. PICK b \in Seq(S) : b = AtPath(v, p)
      BY <1>0
    <2>10. Append(a \o b, x) = a \o Append(b, x)
      <3>1. Shifts(a, b, x)
        BY ConcatAppend
      <3> QED
        BY <3>1 DEF Shifts
    <2> QED
      BY <2>1, <2>4, <2>5, <2>6, <2>7, <2>8, <2>9, <2>10
  <1>3. Nat \subseteq T
    <2> HIDE DEF T
    <2> QED
      BY <1>1, <1>2, SetInduction
  <1>4. Len(t) \in Nat
    OBVIOUS
  <1> QED
    BY <1>3, <1>4

\* A list of one path.
LEMMA AtPathOwn ==
  ASSUME NEW S, NEW list \in Seq(S), NEW p, \A i \in DOMAIN list : list[i].path = p
  PROVE  /\ AtPath(list, p) = list
         /\ \A q : q # p => AtPath(list, q) = <<>>
  BY SelectedAll, SelectedNone DEF AtPath
---------------------------------------------------------------------------
(* Lists put together path by path.                                        *)

\* Every part holds entries of its own path only.
OwnParts(parts, P, S) ==
  /\ parts \in [P -> Seq(S)]
  /\ \A p \in P : \A i \in DOMAIN parts[p] : parts[p][i].path = p

LEMMA InPathOrderFacts ==
  ASSUME NEW S, NEW P, P \subseteq Nat, IsFiniteSet(P), NEW parts, OwnParts(parts, P, S)
  PROVE  /\ InPathOrder(parts) \in Seq(S)
         /\ \A p : AtPath(InPathOrder(parts), p) = IF p \in P THEN parts[p] ELSE <<>>
  <1>1. PICK order : order = Ascending(P)
    OBVIOUS
  <1>2. PICK n : n = Cardinality(P)
    OBVIOUS
  <1>3. /\ n \in Nat /\ order \in Seq(P) /\ Len(order) = n
        /\ {order[i] : i \in DOMAIN order} = P
        /\ \A i \in 1..n, j \in 1..n : i < j => order[i] < order[j]
    <2>1. /\ Cardinality(P) \in Nat
          /\ Ascending(P) \in Seq(P)
          /\ Len(Ascending(P)) = Cardinality(P)
          /\ {Ascending(P)[i] : i \in DOMAIN Ascending(P)} = P
          /\ \A i \in 1..Cardinality(P), j \in 1..Cardinality(P) :
               i < j => Ascending(P)[i] < Ascending(P)[j]
      BY AscendingProperties
    <2> QED
      BY ONLY <1>1, <1>2, <2>1
  <1>4. /\ DOMAIN order = 1..n
        /\ \A i \in 1..n : order[i] \in P
    BY <1>3
  <1>5. PICK seqs : seqs = [i \in 1..n |-> parts[order[i]]]
    OBVIOUS
  <1>6. /\ seqs \in Seq(Seq(S)) /\ Len(seqs) = n
        /\ \A i \in 1..n : seqs[i] = parts[order[i]] /\ parts[order[i]] \in Seq(S)
    <2>1. \A i \in 1..n : parts[order[i]] \in Seq(S)
      BY <1>4 DEF OwnParts
    <2>2. seqs \in [1..n -> Seq(S)]
      BY <1>5, <2>1
    <2>3. n \in Nat
      BY <1>3
    <2>4. seqs \in Seq(Seq(S)) /\ Len(seqs) = n
      BY <2>2, <2>3
    <2> QED
      BY <1>5, <2>1, <2>4
  <1>7. InPathOrder(parts) = FlattenSeq(seqs)
    <2>1. DOMAIN parts = P
      BY DEF OwnParts
    <2> QED
      BY <1>1, <1>3, <1>5, <2>1 DEF InPathOrder
  <1>8. PICK f : Unfolds(f, S, seqs)
    BY <1>6, FlattenUnfolds
  <1>9. /\ \A k \in 0..n : f[k] \in Seq(S)
        /\ f[0] = <<>> /\ FlattenSeq(seqs) = f[n]
        /\ \A k \in 1..n : f[k] = f[k - 1] \o parts[order[k]]
    BY <1>6, <1>8 DEF Unfolds
  <1>10. ASSUME NEW p
         PROVE  AtPath(f[n], p) = IF p \in P THEN parts[p] ELSE <<>>
    <2> DEFINE Met(k) == \E i \in 1..k : order[i] = p
               Part(k) == IF Met(k) THEN parts[p] ELSE <<>>
               T == {k \in Nat : k \in 0..n => AtPath(f[k], p) = Part(k)}
    <2>1. 0 \in T
      <3>1. ~Met(0)
        OBVIOUS
      <3> QED
        BY <1>9, <3>1, AtPathEmpty
    <2>2. ASSUME NEW k \in Nat, k \in T PROVE k + 1 \in T
      <3> SUFFICES ASSUME k + 1 \in 0..n PROVE AtPath(f[k + 1], p) = Part(k + 1)
        OBVIOUS
      <3>1. k \in 0..n /\ k + 1 \in 1..n /\ (k + 1) - 1 = k
        BY <1>3
      <3>2. AtPath(f[k], p) = Part(k)
        BY <2>2, <3>1
      <3>3. PICK s \in Seq(S) : s = f[k]
        BY <1>9, <3>1
      <3>4. PICK t \in Seq(S) : t = parts[order[k + 1]]
        BY <1>6, <3>1
      <3>5. f[k + 1] = s \o t
        BY <1>9, <3>1, <3>3, <3>4
      <3>6. AtPath(f[k + 1], p) = AtPath(s, p) \o AtPath(t, p)
        BY <3>5, AtPathConcat
      <3>7. \A i \in DOMAIN t : t[i].path = order[k + 1]
        BY <1>4, <3>1, <3>4 DEF OwnParts
      <3>8. Met(k + 1) <=> Met(k) \/ order[k + 1] = p
        <4>1. \A i \in 1..(k + 1) : i \in 1..k \/ i = k + 1
          OBVIOUS
        <4>2. k + 1 \in 1..(k + 1) /\ \A i \in 1..k : i \in 1..(k + 1)
          OBVIOUS
        <4> QED
          BY <4>1, <4>2
      <3>9. CASE order[k + 1] = p
        <4>1. ~Met(k)
          <5>1. \A i \in 1..k : i \in 1..n /\ i < k + 1
            BY <1>3, <3>1
          <5>2. \A i \in 1..k : order[i] < order[k + 1]
            BY <1>3, <3>1, <5>1
          <5>3. order[k + 1] \in Nat
            BY <1>4, <3>1
          <5> QED
            BY <3>9, <5>2, <5>3
        <4>2. AtPath(t, p) = t
          BY <3>7, <3>9, AtPathOwn
        <4>3. <<>> \o t = t
          BY ConcatEmptySeq
        <4> HIDE DEF Met
        <4> QED
          BY <3>2, <3>3, <3>4, <3>6, <3>8, <3>9, <4>1, <4>2, <4>3
      <3>10. CASE order[k + 1] # p
        <4>1. AtPath(t, p) = <<>>
          <5>1. PICK q : q = order[k + 1]
            OBVIOUS
          <5>2. \A i \in DOMAIN t : t[i].path = q
            BY <3>7, <5>1
          <5>3. \A r : r # q => AtPath(t, r) = <<>>
            BY <5>2, AtPathOwn
          <5> QED
            BY <3>10, <5>1, <5>3
        <4>2. PICK a \in Seq(S) : a = AtPath(s, p)
          BY AtPathFacts
        <4>3. a \o <<>> = a
          BY ConcatEmptySeq
        <4> HIDE DEF Met
        <4> QED
          BY <3>2, <3>3, <3>6, <3>8, <3>10, <4>1, <4>2, <4>3
      <3> QED
        BY <3>9, <3>10
    <2>3. Nat \subseteq T
      <3> HIDE DEF T
      <3> QED
        BY <2>1, <2>2, SetInduction
    <2>4. AtPath(f[n], p) = Part(n)
      <3>1. n \in Nat /\ n \in 0..n
        BY <1>3
      <3> QED
        BY <2>3, <3>1
    <2>5. Met(n) <=> p \in P
      BY <1>3, <1>4
    <2> QED
      BY <2>4, <2>5
  <1>11. n \in 0..n
    BY <1>3
  <1> QED
    BY <1>7, <1>9, <1>10, <1>11

LEMMA PathsAreNumbers ==
  ASSUME NEW S, \A r \in S : r.path \in Nat, NEW list \in Seq(S)
  PROVE  PathsOf(list) \subseteq Nat /\ IsFiniteSet(PathsOf(list))
  <1>1. DOMAIN list = 1..Len(list) /\ Len(list) \in Nat /\ \A i \in 1..Len(list) : list[i] \in S
    OBVIOUS
  <1>2. IsFiniteSet(1..Len(list))
    BY <1>1, FS_Interval
  <1>3. PathsOf(list) = {list[i].path : i \in 1..Len(list)}
    BY <1>1 DEF PathsOf
  <1>4. IsFiniteSet({list[i].path : i \in 1..Len(list)})
    <2> DEFINE f == [i \in 1..Len(list) |-> list[i].path]
               V == {list[i].path : i \in 1..Len(list)}
    <2>1. f \in Surjection(1..Len(list), V)
      <3>1. f \in [1..Len(list) -> V] /\ \A v \in V : \E i \in 1..Len(list) : f[i] = v
        OBVIOUS
      <3> HIDE DEF f, V
      <3> QED
        BY <3>1, Fun_IsSurj
    <2> HIDE DEF f, V
    <2>2. IsFiniteSet(V)
      BY <1>2, <2>1, FS_Surjection
    <2> QED
      BY <2>2 DEF V
  <1> QED
    BY <1>1, <1>3, <1>4
---------------------------------------------------------------------------
(* The set operations: what they keep of every path.                       *)

LEMMA PathMeansEntries ==
  ASSUME NEW S, NEW list \in Seq(S), NEW p, p \notin PathsOf(list)
  PROVE  AtPath(list, p) = <<>>
  <1>1. PICK s \in Seq(S) : s = AtPath(list, p)
    BY AtPathFacts
  <1>2. Len(s) = 0
    BY <1>1, AtPathFacts
  <1> QED
    BY <1>1, <1>2, EmptySeq

\* What is left of a sequence without its first n elements.
LEMMA BeyondFacts ==
  ASSUME NEW S, NEW s \in Seq(S), NEW n \in Nat
  PROVE  /\ Beyond(s, n) \in Seq(S)
         /\ Len(Beyond(s, n)) = IF n <= Len(s) THEN Len(s) - n ELSE 0
         /\ \A i \in 1..Len(Beyond(s, n)) : Beyond(s, n)[i] = s[n + i] /\ n + i \in 1..Len(s)
  BY DEF Beyond

\* What SetUnion keeps of a path.
UnionPart(first, second, p) ==
  AtPath(first, p) \o Beyond(AtPath(second, p), Len(AtPath(first, p)))

LEMMA UnionFacts ==
  ASSUME NEW S, \A r \in S : r.path \in Nat, NEW first \in Seq(S), NEW second \in Seq(S)
  PROVE  /\ SetUnion(first, second) \in Seq(S)
         /\ \A p : AtPath(SetUnion(first, second), p) = UnionPart(first, second, p)
  <1> DEFINE P == PathsOf(first) \cup PathsOf(second)
             parts == [p \in P |-> UnionPart(first, second, p)]
  <1>1. P \subseteq Nat /\ IsFiniteSet(P)
    BY PathsAreNumbers, FS_Union
  <1>2. SetUnion(first, second) = InPathOrder(parts)
    BY DEF SetUnion, UnionPart
  <1>3. ASSUME NEW p
        PROVE  /\ UnionPart(first, second, p) \in Seq(S)
               /\ \A i \in DOMAIN UnionPart(first, second, p) :
                    UnionPart(first, second, p)[i].path = p
    <2>1. PICK a \in Seq(S) : a = AtPath(first, p)
      BY AtPathFacts
    <2>2. PICK b \in Seq(S) : b = AtPath(second, p)
      BY AtPathFacts
    <2>3. /\ \A i \in 1..Len(a) : a[i].path = p
          /\ \A i \in 1..Len(b) : b[i].path = p
      BY <2>1, <2>2, AtPathFacts
    <2>4. PICK c \in Seq(S) : c = Beyond(b, Len(a))
      BY BeyondFacts
    <2>5. \A i \in 1..Len(c) : c[i].path = p
      <3>1. \A i \in 1..Len(c) : c[i] = b[Len(a) + i] /\ Len(a) + i \in 1..Len(b)
        BY <2>4, BeyondFacts
      <3> QED
        BY <2>3, <3>1
    <2>6. PICK u : u = a \o c
      OBVIOUS
    <2>7. /\ u \in Seq(S) /\ Len(u) = Len(a) + Len(c)
          /\ \A i \in 1..(Len(a) + Len(c)) :
               u[i] = IF i <= Len(a) THEN a[i] ELSE c[i - Len(a)]
      BY <2>6, ConcatProperties
    <2>8. UnionPart(first, second, p) = u
      BY <2>1, <2>2, <2>4, <2>6 DEF UnionPart
    <2>9. ASSUME NEW i \in 1..(Len(a) + Len(c)) PROVE u[i].path = p
      <3>1. CASE i <= Len(a)
        <4>1. i \in 1..Len(a)
          BY <3>1
        <4>2. u[i] = a[i]
          BY <2>7, <3>1
        <4> QED
          BY <2>3, <4>1, <4>2
      <3>2. CASE ~(i <= Len(a))
        <4>1. i - Len(a) \in 1..Len(c)
          BY <3>2
        <4> QED
          BY <2>5, <2>7, <3>2, <4>1
      <3> QED
        BY <3>1, <3>2
    <2>10. DOMAIN u = 1..(Len(a) + Len(c))
      BY <2>7
    <2> QED
      BY <2>7, <2>8, <2>9, <2>10
  <1>4. OwnParts(parts, P, S)
    <2> HIDE DEF P
    <2> QED
      BY <1>3 DEF OwnParts
  <1>5. ASSUME NEW p, p \notin P PROVE UnionPart(first, second, p) = <<>>
    <2>1. AtPath(first, p) = <<>> /\ AtPath(second, p) = <<>>
      BY <1>5, PathMeansEntries
    <2>2. Beyond(<<>>, Len(<<>>)) = <<>>
      BY EmptySeq DEF Beyond
    <2>3. <<>> \o <<>> = <<>>
      OBVIOUS
    <2> QED
      BY <2>1, <2>2, <2>3 DEF UnionPart
  <1>6. \A p \in P : parts[p] = UnionPart(first, second, p)
    OBVIOUS
  <1> HIDE DEF P, parts
  <1>7. /\ InPathOrder(parts) \in Seq(S)
        /\ \A p : AtPath(InPathOrder(parts), p) = IF p \in P THEN parts[p] ELSE <<>>
    BY <1>1, <1>4, InPathOrderFacts
  <1> QED
    BY <1>2, <1>5, <1>6, <1>7

\* What SetDifference keeps of a path.
DifferencePart(first, second, p) == Beyond(AtPath(first, p), Len(AtPath(second, p)))

LEMMA DifferenceFacts ==
  ASSUME NEW S, \A r \in S : r.path \in Nat, NEW first \in Seq(S), NEW second \in Seq(S)
  PROVE  /\ SetDifference(first, second) \in Seq(S)
         /\ \A p : AtPath(SetDifference(first, second), p) = DifferencePart(first, second, p)
  <1> DEFINE P == PathsOf(first)
             parts == [p \in P |-> DifferencePart(first, second, p)]
  <1>1. P \subseteq Nat /\ IsFiniteSet(P)
    BY PathsAreNumbers
  <1>2. SetDifference(first, second) = InPathOrder(parts)
    BY DEF SetDifference, DifferencePart
  <1>3. ASSUME NEW p
        PROVE  /\ DifferencePart(first, second, p) \in Seq(S)
               /\ \A i \in DOMAIN DifferencePart(first, second, p) :
                    DifferencePart(first, second, p)[i].path = p
               /\ p \notin P => DifferencePart(first, second, p) = <<>>
    <2>1. PICK a \in Seq(S) : a = AtPath(first, p)
      BY AtPathFacts
    <2>2. PICK b \in Seq(S) : b = AtPath(second, p)
      BY AtPathFacts
    <2>3. \A i \in 1..Len(a) : a[i].path = p
      BY <2>1, AtPathFacts
    <2>4. PICK c \in Seq(S) : c = Beyond(a, Len(b))
      BY BeyondFacts
    <2>5. /\ Len(c) = IF Len(b) <= Len(a) THEN Len(a) - Len(b) ELSE 0
          /\ \A i \in 1..Len(c) : c[i] = a[Len(b) + i] /\ Len(b) + i \in 1..Len(a)
      BY <2>4, BeyondFacts
    <2>6. \A i \in 1..Len(c) : c[i].path = p
      BY <2>3, <2>5
    <2>7. DifferencePart(first, second, p) = c
      BY <2>1, <2>2, <2>4 DEF DifferencePart
    <2>8. DOMAIN c = 1..Len(c)
      OBVIOUS
    <2>9. ASSUME p \notin P PROVE c = <<>>
      <3>1. Len(a) = 0
        BY <2>1, <2>9, PathMeansEntries, EmptySeq
      <3>2. Len(c) = 0
        BY <2>5, <3>1
      <3> QED
        BY <3>2, EmptySeq
    <2> QED
      BY <2>6, <2>7, <2>8, <2>9
  <1>4. OwnParts(parts, P, S)
    <2> HIDE DEF P
    <2> QED
      BY <1>3 DEF OwnParts
  <1>6. \A p \in P : parts[p] = DifferencePart(first, second, p)
    OBVIOUS
  <1> HIDE DEF P, parts
  <1>7. /\ InPathOrder(parts) \in Seq(S)
        /\ \A p : AtPath(InPathOrder(parts), p) = IF p \in P THEN parts[p] ELSE <<>>
    BY <1>1, <1>4, InPathOrderFacts
  <1> QED
    BY <1>2, <1>3, <1>6, <1>7

\* The first m elements of a sequence.
LEMMA BeginFacts ==
  ASSUME NEW S, NEW s \in Seq(S), NEW m \in Nat, m <= Len(s)
  PROVE  /\ SubSeq(s, 1, m) \in Seq(S)
         /\ Len(SubSeq(s, 1, m)) = m
         /\ DOMAIN SubSeq(s, 1, m) = 1..m
         /\ \A i \in 1..m : SubSeq(s, 1, m)[i] = s[i] /\ i \in 1..Len(s)
  OBVIOUS

LEMMA SmallerOf ==
  ASSUME NEW m \in Nat, NEW n \in Nat
  PROVE  Min({m, n}) = IF m <= n THEN m ELSE n
  <1> DEFINE least == IF m <= n THEN m ELSE n
  <1>1. least \in {m, n} /\ \A y \in {m, n} : least =< y
    OBVIOUS
  <1>2. \A x \in {m, n} : (\A y \in {m, n} : x =< y) => x = least
    OBVIOUS
  <1> HIDE DEF least
  <1>3. Min({m, n}) = CHOOSE x \in {m, n} : \A y \in {m, n} : x =< y
    BY DEF Min
  <1>4. Min({m, n}) \in {m, n} /\ \A y \in {m, n} : Min({m, n}) =< y
    BY <1>1, <1>3
  <1>5. Min({m, n}) = least
    BY <1>2, <1>4
  <1> QED
    BY <1>5 DEF least

\* What SetIntersection keeps of a path.
CommonPart(first, second, p) ==
  SubSeq(AtPath(first, p), 1, Min({Len(AtPath(first, p)), Len(AtPath(second, p))}))

LEMMA IntersectionFacts ==
  ASSUME NEW S, \A r \in S : r.path \in Nat, NEW first \in Seq(S), NEW second \in Seq(S)
  PROVE  /\ SetIntersection(first, second) \in Seq(S)
         /\ \A p : AtPath(SetIntersection(first, second), p) = CommonPart(first, second, p)
  <1> DEFINE P == PathsOf(first) \cap PathsOf(second)
             parts == [p \in P |-> CommonPart(first, second, p)]
  <1>1. P \subseteq Nat /\ IsFiniteSet(P)
    BY PathsAreNumbers, FS_Subset
  <1>2. SetIntersection(first, second) = InPathOrder(parts)
    BY DEF SetIntersection, CommonPart
  <1>3. ASSUME NEW p
        PROVE  /\ CommonPart(first, second, p) \in Seq(S)
               /\ \A i \in DOMAIN CommonPart(first, second, p) :
                    CommonPart(first, second, p)[i].path = p
               /\ p \notin P => CommonPart(first, second, p) = <<>>
    <2>1. PICK a \in Seq(S) : a = AtPath(first, p)
      BY AtPathFacts
    <2>2. PICK b \in Seq(S) : b = AtPath(second, p)
      BY AtPathFacts
    <2>3. \A i \in 1..Len(a) : a[i].path = p
      BY <2>1, AtPathFacts
    <2>4. PICK m \in Nat : m = Min({Len(a), Len(b)}) /\ m <= Len(a) /\ m <= Len(b)
      <3>1. Len(a) \in Nat /\ Len(b) \in Nat
        OBVIOUS
      <3>2. Min({Len(a), Len(b)}) = IF Len(a) <= Len(b) THEN Len(a) ELSE Len(b)
        BY <3>1, SmallerOf
      <3>3. PICK k : k = Min({Len(a), Len(b)})
        OBVIOUS
      <3>4. k \in Nat /\ k <= Len(a) /\ k <= Len(b)
        BY <3>1, <3>2, <3>3
      <3> QED
        BY <3>3, <3>4
    <2>5. PICK c : c = SubSeq(a, 1, m)
      OBVIOUS
    <2>6. /\ c \in Seq(S) /\ Len(c) = m
          /\ \A i \in 1..m : c[i] = a[i] /\ i \in 1..Len(a)
      BY <2>4, <2>5, BeginFacts
    <2>7. CommonPart(first, second, p) = c
      BY <2>1, <2>2, <2>4, <2>5 DEF CommonPart
    <2>8. DOMAIN c = 1..m
      BY <2>6
    <2>9. ASSUME p \notin P PROVE c = <<>>
      <3>1. Len(a) = 0 \/ Len(b) = 0
        BY <2>1, <2>2, <2>9, PathMeansEntries, EmptySeq
      <3>2. Len(c) = 0
        BY <2>4, <2>6, <3>1
      <3> QED
        BY <2>6, <3>2, EmptySeq
    <2> QED
      BY <2>3, <2>6, <2>7, <2>8, <2>9
  <1>4. OwnParts(parts, P, S)
    <2> HIDE DEF P
    <2> QED
      BY <1>3 DEF OwnParts
  <1>6. \A p \in P : parts[p] = CommonPart(first, second, p)
    OBVIOUS
  <1> HIDE DEF P, parts
  <1>7. /\ InPathOrder(parts) \in Seq(S)
        /\ \A p : AtPath(InPathOrder(parts), p) = IF p \in P THEN parts[p] ELSE <<>>
    BY <1>1, <1>4, InPathOrderFacts
  <1> QED
    BY <1>2, <1>3, <1>6, <1>7
---------------------------------------------------------------------------
(* Lists whose paths differ: an entry is found by its path.                *)

LEMMA PathsOfEntries ==
  ASSUME NEW list
  PROVE  PathsOf(list) = {r.path : r \in ToSet(list)}
  BY DEF PathsOf, ToSet

\* The only entry of its path.
LEMMA OnlyEntry ==
  ASSUME NEW S, NEW list \in Seq(S), UniquePaths(list), NEW x \in ToSet(list)
  PROVE  /\ Len(AtPath(list, x.path)) = 1
         /\ AtPath(list, x.path)[1] = x
         /\ \A y \in ToSet(list) : y.path = x.path => y = x
  <1>1. PICK s \in Seq(S) : s = AtPath(list, x.path)
    BY AtPathFacts
  <1>2. ToSet(s) = {r \in ToSet(list) : r.path = x.path}
    BY <1>1, AtPathFacts
  <1>3. ToSet(s) = {s[i] : i \in 1..Len(s)} /\ Len(s) \in Nat
    BY DEF ToSet
  <1>4. Len(s) <= 1
    BY <1>1, UniqueAt
  <1>5. x \in ToSet(s)
    BY <1>2
  <1>6. PICK i \in 1..Len(s) : s[i] = x
    BY <1>3, <1>5
  <1>7. Len(s) = 1 /\ s[1] = x
    <2>1. PICK n \in Nat : n = Len(s)
      BY <1>3
    <2>2. i \in 1..n /\ n <= 1
      BY <1>4, <1>6, <2>1
    <2>3. i = 1 /\ n = 1
      BY <2>2
    <2> QED
      BY <1>6, <2>1, <2>3
  <1>8. ASSUME NEW y \in ToSet(list), y.path = x.path PROVE y = x
    <2>1. y \in ToSet(s)
      BY <1>2, <1>8
    <2>2. PICK j \in 1..Len(s) : s[j] = y
      BY <1>3, <2>1
    <2> QED
      BY <1>7, <2>2
  <1> QED
    BY <1>1, <1>7, <1>8

\* What a path of a list with different paths has.
LEMMA LenAtPath ==
  ASSUME NEW S, NEW list \in Seq(S), UniquePaths(list), NEW p
  PROVE  Len(AtPath(list, p)) = IF p \in PathsOf(list) THEN 1 ELSE 0
  <1>1. PICK s \in Seq(S) : s = AtPath(list, p)
    BY AtPathFacts
  <1>2. Len(s) <= 1 /\ (p \in PathsOf(list) <=> Len(s) # 0)
    BY <1>1, UniqueAt, AtPathFacts
  <1>3. PICK n \in Nat : n = Len(s)
    OBVIOUS
  <1>4. n <= 1 /\ (p \in PathsOf(list) <=> n # 0)
    BY <1>2, <1>3
  <1>5. CASE p \in PathsOf(list)
    <2>1. n = 1
      BY <1>4, <1>5
    <2> QED
      BY <1>1, <1>3, <1>5, <2>1
  <1>6. CASE p \notin PathsOf(list)
    <2>1. n = 0
      BY <1>4, <1>6
    <2> QED
      BY <1>1, <1>3, <1>6, <2>1
  <1> QED
    BY <1>5, <1>6

\* The entries of a list, path by path.
LEMMA EntryAt ==
  ASSUME NEW S, NEW list \in Seq(S), NEW x
  PROVE  x \in ToSet(list) <=> x \in ToSet(AtPath(list, x.path))
  BY AtPathFacts
---------------------------------------------------------------------------
(* The lists that Diff is made of.                                         *)

LEMMA AddedEntries ==
  ASSUME NEW S, \A r \in S : r.path \in Nat, NEW first \in Seq(S), NEW second \in Seq(S),
         UniquePaths(first), UniquePaths(second)
  PROVE  ToSet(SetDifference(first, second))
           = {x \in ToSet(first) : x.path \notin PathsOf(second)}
  <1>1. PICK d \in Seq(S) : d = SetDifference(first, second)
    BY DifferenceFacts
  <1>2. ASSUME NEW x
        PROVE  x \in ToSet(d) <=> x \in ToSet(first) /\ x.path \notin PathsOf(second)
    <2>1. PICK a \in Seq(S) : a = AtPath(first, x.path)
      BY AtPathFacts
    <2>2. PICK n \in Nat : n = Len(AtPath(second, x.path))
      <3>1. AtPath(second, x.path) \in Seq(S)
        BY AtPathFacts
      <3> QED
        BY <3>1
    <2>3. n = IF x.path \in PathsOf(second) THEN 1 ELSE 0
      BY <2>2, LenAtPath
    <2>4. PICK c \in Seq(S) : c = Beyond(a, n)
      BY BeyondFacts
    <2>5. /\ Len(c) = IF n <= Len(a) THEN Len(a) - n ELSE 0
          /\ \A i \in 1..Len(c) : c[i] = a[n + i]
      BY <2>4, BeyondFacts
    <2>6. AtPath(d, x.path) = c
      BY <1>1, <2>1, <2>2, <2>4, DifferenceFacts DEF DifferencePart
    <2>7. x \in ToSet(d) <=> x \in ToSet(c)
      BY <2>6, EntryAt
    <2>8. x \in ToSet(first) <=> x \in ToSet(a)
      BY <2>1, EntryAt
    <2>9. /\ ToSet(c) = {c[i] : i \in 1..Len(c)}
          /\ ToSet(a) = {a[i] : i \in 1..Len(a)}
      BY DEF ToSet
    <2>10. Len(a) <= 1
      BY <2>1, UniqueAt
    <2>11. CASE x.path \in PathsOf(second)
      <3>1. 1..Len(c) = {}
        BY <2>3, <2>5, <2>10, <2>11
      <3> QED
        BY <2>7, <2>9, <2>11, <3>1
    <2>12. CASE x.path \notin PathsOf(second)
      <3>1. n = 0
        BY <2>3, <2>12
      <3>2. Len(c) = Len(a) /\ \A i \in 1..Len(a) : c[i] = a[i]
        BY <2>5, <3>1
      <3>3. ToSet(c) = ToSet(a)
        BY <2>9, <3>2
      <3> QED
        BY <2>7, <2>8, <2>12, <3>3
    <2> QED
      BY <2>11, <2>12
  <1> QED
    BY <1>1, <1>2

LEMMA CommonEntries ==
  ASSUME NEW S, \A r \in S : r.path \in Nat, NEW first \in Seq(S), NEW second \in Seq(S),
         UniquePaths(first), UniquePaths(second)
  PROVE  ToSet(SetIntersection(first, second))
           = {x \in ToSet(first) : x.path \in PathsOf(second)}
  <1>1. PICK d \in Seq(S) : d = SetIntersection(first, second)
    BY IntersectionFacts
  <1>2. ASSUME NEW x
        PROVE  x \in ToSet(d) <=> x \in ToSet(first) /\ x.path \in PathsOf(second)
    <2>1. PICK a \in Seq(S) : a = AtPath(first, x.path)
      BY AtPathFacts
    <2>2. PICK n \in Nat : n = Len(AtPath(second, x.path))
      <3>1. AtPath(second, x.path) \in Seq(S)
        BY AtPathFacts
      <3> QED
        BY <3>1
    <2>3. n = IF x.path \in PathsOf(second) THEN 1 ELSE 0
      BY <2>2, LenAtPath
    <2>4. Len(a) <= 1 /\ Len(a) \in Nat
      BY <2>1, UniqueAt
    <2>5. PICK m \in Nat : m = Min({Len(a), n})
      BY <2>4, SmallerOf
    <2>6. m = IF Len(a) <= n THEN Len(a) ELSE n
      BY <2>4, <2>5, SmallerOf
    <2>7. PICK c : c = SubSeq(a, 1, m)
      OBVIOUS
    <2>8. c \in Seq(S) /\ Len(c) = m /\ \A i \in 1..m : c[i] = a[i]
      BY <2>4, <2>6, <2>7, BeginFacts
    <2>9. AtPath(d, x.path) = c
      <3>1. \A p : AtPath(d, p) = CommonPart(first, second, p)
        BY <1>1, IntersectionFacts
      <3>2. CommonPart(first, second, x.path) = c
        BY <2>1, <2>2, <2>5, <2>7 DEF CommonPart
      <3> QED
        BY <3>1, <3>2
    <2>10. x \in ToSet(d) <=> x \in ToSet(c)
      BY <2>9, EntryAt
    <2>11. x \in ToSet(first) <=> x \in ToSet(a)
      BY <2>1, EntryAt
    <2>12. /\ ToSet(c) = {c[i] : i \in 1..Len(c)}
           /\ ToSet(a) = {a[i] : i \in 1..Len(a)}
      <3>1. DOMAIN c = 1..Len(c) /\ DOMAIN a = 1..Len(a)
        BY <2>8
      <3> QED
        BY <3>1 DEF ToSet
    <2>13. CASE x.path \in PathsOf(second)
      <3>1. n = 1
        BY <2>3, <2>13
      <3>2. Len(c) = Len(a) /\ \A i \in 1..Len(a) : c[i] = a[i]
        BY <2>4, <2>6, <2>8, <3>1
      <3>3. ToSet(c) = ToSet(a)
        BY <2>12, <3>2
      <3> QED
        BY <2>10, <2>11, <2>13, <3>3
    <2>14. CASE x.path \notin PathsOf(second)
      <3>1. 1..Len(c) = {}
        BY <2>3, <2>4, <2>6, <2>8, <2>14
      <3> QED
        BY <2>10, <2>12, <2>14, <3>1
    <2> QED
      BY <2>13, <2>14
  <1> QED
    BY <1>1, <1>2

LEMMA CounterpartFacts ==
  ASSUME NEW S, NEW list \in Seq(S), NEW x, x.path \in PathsOf(list)
  PROVE  Counterpart(list, x) \in ToSet(list) /\ Counterpart(list, x).path = x.path
  <1>1. PICK a \in Seq(S) : a = AtPath(list, x.path)
    BY AtPathFacts
  <1>2. Len(a) # 0 /\ \A i \in 1..Len(a) : a[i] \in ToSet(list) /\ a[i].path = x.path
    BY <1>1, AtPathFacts
  <1>3. 1 \in 1..Len(a)
    BY <1>2
  <1> QED
    BY <1>1, <1>2, <1>3 DEF Counterpart

Differs(second, x) == x.checksum # Counterpart(second, x).checksum

LEMMA ChangedEntries ==
  ASSUME NEW S, \A r \in S : r.path \in Nat, NEW first \in Seq(S), NEW second \in Seq(S),
         UniquePaths(first), UniquePaths(second)
  PROVE  /\ Changed(first, second) \in Seq(S)
         /\ ToSet(Changed(first, second))
              = {x \in ToSet(first) : x.path \in PathsOf(second) /\ Differs(second, x)}
  <1>1. PICK common \in Seq(S) : common = SetIntersection(first, second)
    BY IntersectionFacts
  <1>2. ToSet(common) = {x \in ToSet(first) : x.path \in PathsOf(second)}
    BY <1>1, CommonEntries
  <1> DEFINE places == {i \in DOMAIN common : Differs(second, common[i])}
  <1>3. Changed(first, second) = Selected(common, places)
    BY <1>1 DEF Changed, Differs
  <1>4. /\ Selected(common, places) \in Seq(S)
        /\ ToSet(Selected(common, places)) = {common[i] : i \in DOMAIN common \cap places}
    <2> HIDE DEF places
    <2> QED
      BY SelectedFacts, SelectedEntries
  <1>5. {common[i] : i \in DOMAIN common \cap places}
          = {x \in ToSet(common) : Differs(second, x)}
    BY DEF ToSet
  <1> HIDE DEF places
  <1> QED
    BY <1>2, <1>3, <1>4, <1>5

\* The entries of two lists that follow each other.
LEMMA ConcatEntries ==
  ASSUME NEW S, NEW a \in Seq(S), NEW b \in Seq(S)
  PROVE  ToSet(a \o b) = ToSet(a) \cup ToSet(b)
  <1>1. PICK c : c = a \o b
    OBVIOUS
  <1>2. /\ c \in Seq(S) /\ Len(c) = Len(a) + Len(b)
        /\ \A i \in 1..(Len(a) + Len(b)) :
             c[i] = IF i <= Len(a) THEN a[i] ELSE b[i - Len(a)]
    BY <1>1, ConcatProperties
  <1>3. /\ DOMAIN a = 1..Len(a) /\ DOMAIN b = 1..Len(b) /\ DOMAIN c = 1..Len(c)
        /\ Len(a) \in Nat /\ Len(b) \in Nat
    BY <1>2
  <1>4. /\ ToSet(a) = {a[i] : i \in 1..Len(a)} /\ ToSet(b) = {b[i] : i \in 1..Len(b)}
        /\ ToSet(c) = {c[i] : i \in 1..Len(c)}
    BY <1>3 DEF ToSet
  <1>5. ASSUME NEW i \in 1..Len(c) PROVE c[i] \in ToSet(a) \cup ToSet(b)
    <2>1. CASE i <= Len(a)
      <3>1. i \in 1..Len(a) /\ c[i] = a[i]
        BY <1>2, <1>3, <2>1
      <3> QED
        BY <1>4, <3>1
    <2>2. CASE ~(i <= Len(a))
      <3>1. i - Len(a) \in 1..Len(b) /\ c[i] = b[i - Len(a)]
        BY <1>2, <1>3, <2>2
      <3> QED
        BY <1>4, <3>1
    <2> QED
      BY <2>1, <2>2
  <1>6. ASSUME NEW i \in 1..Len(a) PROVE a[i] \in ToSet(c)
    <2>1. i \in 1..Len(c) /\ c[i] = a[i]
      BY <1>2, <1>3
    <2> QED
      BY <1>4, <2>1
  <1>7. ASSUME NEW i \in 1..Len(b) PROVE b[i] \in ToSet(c)
    <2>1. PICK k : k = Len(a) + i
      OBVIOUS
    <2>2. k \in 1..Len(c) /\ ~(k <= Len(a)) /\ k - Len(a) = i
      BY <1>2, <1>3, <2>1
    <2>3. c[k] = b[i]
      BY <1>2, <2>2
    <2> QED
      BY <1>4, <2>2, <2>3
  <1>8. ToSet(c) \subseteq ToSet(a) \cup ToSet(b)
    BY <1>4, <1>5
  <1>9. ToSet(a) \subseteq ToSet(c) /\ ToSet(b) \subseteq ToSet(c)
    BY <1>4, <1>6, <1>7
  <1> QED
    BY <1>1, <1>8, <1>9

\* A list that is sorted has the same entries.
LEMMA SortedFacts ==
  ASSUME NEW S, NEW list \in Seq(S), NEW a \in SortedLists(list)
  PROVE  /\ a \in Seq(S)
         /\ ToSet(a) = ToSet(list) /\ PathsOf(a) = PathsOf(list)
         /\ UniquePaths(list) => UniquePaths(a)
  <1>1. PICK n \in Nat : n = Len(list)
    OBVIOUS
  <1>2. DOMAIN list = 1..n /\ \A i \in 1..n : list[i] \in S
    BY <1>1
  <1>3. PICK q \in [1..n -> 1..n] : /\ Permutes(q, 1..n)
                                    /\ a = [i \in 1..n |-> list[q[i]]]
    BY <1>2 DEF SortedLists
  <1>4. \A k \in 1..n : \E i \in 1..n : q[i] = k
    BY <1>3 DEF Permutes
  <1>5. \A i \in 1..n, j \in 1..n : q[i] = q[j] => i = j
    <2>1. Arranges(q, n)
      BY <1>4, SurjectionArranges
    <2> QED
      BY <2>1 DEF Arranges
  <1>6. \A i \in 1..n : q[i] \in 1..n /\ a[i] = list[q[i]]
    BY <1>3
  <1>7. a \in Seq(S) /\ DOMAIN a = 1..n
    <2>1. a \in [1..n -> S]
      BY <1>2, <1>3
    <2> QED
      BY <2>1
  <1>8. ToSet(a) = ToSet(list)
    BY <1>2, <1>4, <1>6, <1>7 DEF ToSet
  <1>9. PathsOf(a) = PathsOf(list)
    BY <1>8, PathsOfEntries
  <1>10. UniquePaths(list) => UniquePaths(a)
    BY <1>2, <1>5, <1>6, <1>7 DEF UniquePaths
  <1> QED
    BY <1>7, <1>8, <1>9, <1>10
---------------------------------------------------------------------------
\* Both lists hold resources that exist.
ListsTypeOK == this \in Seq(Files) /\ other \in Seq(Files)

LEMMA ListsTypeCorrect == Spec => []ListsTypeOK
  <1>1. Init => ListsTypeOK
    BY EmptySeq DEF Init, ListsTypeOK
  <1>2. ListsTypeOK /\ [Next]_<<this, other>> => ListsTypeOK'
    <2> SUFFICES ASSUME ListsTypeOK, [Next]_<<this, other>> PROVE ListsTypeOK'
      OBVIOUS
    <2>1. CASE Grow(this) /\ UNCHANGED other
      BY <2>1, AppendProperties DEF Grow, ListsTypeOK
    <2>2. CASE Grow(other) /\ UNCHANGED this
      BY <2>2, AppendProperties DEF Grow, ListsTypeOK
    <2>3. CASE UNCHANGED <<this, other>>
      BY <2>3 DEF ListsTypeOK
    <2> QED
      BY <2>1, <2>2, <2>3 DEF Next
  <1> QED
    BY <1>1, <1>2, PTL DEF Spec

\* Merge loses no path, makes up none, lists none twice that no group lists
\* twice, and takes the entry of the group that is merged in: SetUnion keeps
\* of every path the entries of the second list, and more of the first one
\* only where it has more.
THEOREM MergeUnionCorrect == Spec => []MergeUnion
  <1>1. ListsTypeOK => MergeUnion
    <2> SUFFICES ASSUME ListsTypeOK, NEW a \in SortedLists(this), NEW b \in SortedLists(other)
                 PROVE  LET merged == MergedList(a, b)
                        IN  /\ PathsOf(merged) = PathsOf(a) \cup PathsOf(b)
                            /\ UniquePaths(a) /\ UniquePaths(b) => UniquePaths(merged)
                            /\ \A p \in PathsOf(b) : AtPath(merged, p)[1] = AtPath(b, p)[1]
      BY DEF MergeUnion
    <2>1. a \in Seq(Files) /\ b \in Seq(Files)
      BY SortedFacts DEF ListsTypeOK
    <2>2. PICK merged \in Seq(Files) : merged = MergedList(a, b)
      BY <2>1, FilesAssumption, UnionFacts DEF MergedList
    <2>3. \A p : AtPath(merged, p) = UnionPart(b, a, p)
      BY <2>1, <2>2, FilesAssumption, UnionFacts DEF MergedList
    <2>4. ASSUME NEW p
          PROVE  /\ p \in PathsOf(merged) <=> p \in PathsOf(a) \cup PathsOf(b)
                 /\ Len(AtPath(a, p)) <= 1 /\ Len(AtPath(b, p)) <= 1
                      => Len(AtPath(merged, p)) <= 1
                 /\ p \in PathsOf(b) => AtPath(merged, p)[1] = AtPath(b, p)[1]
      <3>1. PICK s \in Seq(Files) : s = AtPath(a, p)
        BY <2>1, AtPathFacts
      <3>2. PICK t \in Seq(Files) : t = AtPath(b, p)
        BY <2>1, AtPathFacts
      <3>3. PICK c \in Seq(Files) : c = Beyond(s, Len(t))
        BY BeyondFacts
      <3>4. Len(c) = IF Len(t) <= Len(s) THEN Len(s) - Len(t) ELSE 0
        BY <3>3, BeyondFacts
      <3>5. PICK u : u = t \o c
        OBVIOUS
      <3>6. /\ u \in Seq(Files) /\ Len(u) = Len(t) + Len(c)
            /\ \A i \in 1..(Len(t) + Len(c)) :
                 u[i] = IF i <= Len(t) THEN t[i] ELSE c[i - Len(t)]
        BY <3>5, ConcatProperties
      <3>7. AtPath(merged, p) = u
        BY <2>3, <3>1, <3>2, <3>3, <3>5 DEF UnionPart
      <3>8. PICK m \in Nat : m = Len(s)
        OBVIOUS
      <3>9. PICK n \in Nat : n = Len(t)
        OBVIOUS
      <3>10. Len(u) = IF n <= m THEN m ELSE n
        BY <3>4, <3>6, <3>8, <3>9
      <3>11. /\ p \in PathsOf(a) <=> m # 0
             /\ p \in PathsOf(b) <=> n # 0
             /\ p \in PathsOf(merged) <=> Len(u) # 0
        BY <2>1, <2>2, <3>1, <3>2, <3>7, <3>8, <3>9, AtPathFacts
      <3>12. p \in PathsOf(merged) <=> p \in PathsOf(a) \cup PathsOf(b)
        BY <3>10, <3>11
      <3>13. m <= 1 /\ n <= 1 => Len(u) <= 1
        BY <3>10
      <3>14. ASSUME p \in PathsOf(b) PROVE u[1] = t[1]
        <4>1. 1 \in 1..(Len(t) + Len(c)) /\ 1 <= Len(t)
          BY <3>9, <3>11, <3>14
        <4> QED
          BY <3>6, <4>1
      <3> QED
        BY <3>1, <3>2, <3>7, <3>8, <3>9, <3>12, <3>13, <3>14
    <2>5. PathsOf(merged) = PathsOf(a) \cup PathsOf(b)
      BY <2>4
    <2>6. UniquePaths(a) /\ UniquePaths(b) => UniquePaths(merged)
      BY <2>1, <2>4, UniqueAt
    <2> QED
      BY <2>2, <2>4, <2>5, <2>6
  <1> QED
    BY <1>1, ListsTypeCorrect, PTL
---------------------------------------------------------------------------
(* What Diff finds in two lists whose paths differ.                        *)

\* The resources of the first list that the second one lacks or has with
\* other data.
Latest(first, second) ==
  {x \in ToSet(first) : x.path \in PathsOf(second) => Differs(second, x)}

\* The lists of a difference d of the first list against the second one.
DiffLists(d, first, second) ==
  /\ Len(d.result1) = Len(d.result2)
  /\ DOMAIN d.result1 = DOMAIN d.result2
  /\ \A i \in DOMAIN d.result1 : d.result1[i].path = d.result2[i].path
  /\ ToSet(d.result2) = Latest(first, second)
  /\ ToSet(d.removed) = PathsOf(second) \ PathsOf(first)

LEMMA FunctionIsSequence ==
  ASSUME NEW V, NEW n \in Nat, NEW f \in [1..n -> V]
  PROVE  f \in Seq(V) /\ Len(f) = n
  OBVIOUS

LEMMA DiffFacts ==
  ASSUME NEW S, \A r \in S : r.path \in Nat, NEW first \in Seq(S), NEW second \in Seq(S),
         UniquePaths(first), UniquePaths(second)
  PROVE  DiffLists(Diff(first, second), first, second)
  <1>1. PICK changed \in Seq(S) : changed = Changed(first, second)
    BY ChangedEntries
  <1>2. PICK added \in Seq(S) : added = SetDifference(first, second)
    BY DifferenceFacts
  <1>3. PICK gone \in Seq(S) : gone = SetDifference(second, first)
    BY DifferenceFacts
  <1>4. /\ ToSet(changed)
             = {x \in ToSet(first) : x.path \in PathsOf(second) /\ Differs(second, x)}
        /\ ToSet(added) = {x \in ToSet(first) : x.path \notin PathsOf(second)}
        /\ ToSet(gone) = {x \in ToSet(second) : x.path \notin PathsOf(first)}
    BY <1>1, <1>2, <1>3, ChangedEntries, AddedEntries
  <1> DEFINE old == [i \in DOMAIN changed |-> Counterpart(second, changed[i])]
             new == [i \in DOMAIN added |-> Dummy(added[i])]
             removed == [i \in DOMAIN gone |-> gone[i].path]
             V == {Counterpart(second, x) : x \in ToSet(changed)}
                    \cup {Dummy(x) : x \in ToSet(added)}
  <1>5. /\ DOMAIN changed = 1..Len(changed) /\ DOMAIN added = 1..Len(added)
        /\ DOMAIN gone = 1..Len(gone)
        /\ Len(changed) \in Nat /\ Len(added) \in Nat
    OBVIOUS
  <1>6. /\ \A i \in 1..Len(changed) : changed[i] \in ToSet(changed)
        /\ \A i \in 1..Len(added) : added[i] \in ToSet(added)
    BY <1>5 DEF ToSet
  <1>7. /\ old \in Seq(V) /\ Len(old) = Len(changed)
        /\ \A i \in 1..Len(changed) : old[i] = Counterpart(second, changed[i])
    <2>1. old \in [1..Len(changed) -> V]
      BY <1>5, <1>6
    <2>2. \A i \in 1..Len(changed) : old[i] = Counterpart(second, changed[i])
      BY <1>5
    <2> HIDE DEF old, V
    <2>3. old \in Seq(V) /\ Len(old) = Len(changed)
      BY <1>5, <2>1, FunctionIsSequence
    <2> QED
      BY <2>2, <2>3
  <1>8. /\ new \in Seq(V) /\ Len(new) = Len(added)
        /\ \A i \in 1..Len(added) : new[i] = Dummy(added[i])
    <2>1. new \in [1..Len(added) -> V]
      BY <1>5, <1>6
    <2>2. \A i \in 1..Len(added) : new[i] = Dummy(added[i])
      BY <1>5
    <2> HIDE DEF new, V
    <2>3. new \in Seq(V) /\ Len(new) = Len(added)
      BY <1>5, <2>1, FunctionIsSequence
    <2> QED
      BY <2>2, <2>3
  <1> HIDE DEF old, new, V
  <1>9. PICK r1 : r1 = old \o new
    OBVIOUS
  <1>10. PICK r2 : r2 = changed \o added
    OBVIOUS
  <1>11. /\ r1 \in Seq(V) /\ Len(r1) = Len(changed) + Len(added)
         /\ \A i \in 1..(Len(changed) + Len(added)) :
              r1[i] = IF i <= Len(changed) THEN old[i] ELSE new[i - Len(changed)]
    <2>1. PICK a \in Seq(V) : a = old
      BY <1>7
    <2>2. PICK b \in Seq(V) : b = new
      BY <1>8
    <2>3. r1 = a \o b
      BY <1>9, <2>1, <2>2
    <2>4. /\ r1 \in Seq(V) /\ Len(r1) = Len(a) + Len(b)
          /\ \A i \in 1..(Len(a) + Len(b)) :
               r1[i] = IF i <= Len(a) THEN a[i] ELSE b[i - Len(a)]
      BY <2>3, ConcatProperties
    <2> QED
      BY <1>7, <1>8, <2>1, <2>2, <2>4
  <1>12. /\ r2 \in Seq(S) /\ Len(r2) = Len(changed) + Len(added)
         /\ \A i \in 1..(Len(changed) + Len(added)) :
              r2[i] = IF i <= Len(changed) THEN changed[i] ELSE added[i - Len(changed)]
    BY <1>10, ConcatProperties
  <1>13. Diff(first, second) = [result1 |-> r1, result2 |-> r2, removed |-> removed]
    <2>1. r1 = [i \in DOMAIN changed |-> Counterpart(second, changed[i])]
                 \o [i \in DOMAIN added |-> Dummy(added[i])]
      BY <1>9 DEF old, new
    <2> QED
      BY <1>1, <1>2, <1>3, <1>10, <2>1 DEF Diff
  <1>14. Len(r1) = Len(r2) /\ DOMAIN r1 = DOMAIN r2
    BY <1>11, <1>12
  <1>15. ASSUME NEW i \in DOMAIN r1 PROVE r1[i].path = r2[i].path
    <2>1. i \in 1..(Len(changed) + Len(added))
      BY <1>11
    <2>2. CASE i <= Len(changed)
      <3>1. i \in 1..Len(changed)
        BY <2>1, <2>2
      <3>2. r1[i] = Counterpart(second, changed[i]) /\ r2[i] = changed[i]
        BY <1>7, <1>11, <1>12, <2>1, <2>2, <3>1
      <3>3. changed[i].path \in PathsOf(second)
        BY <1>4, <1>6, <3>1
      <3> QED
        BY <3>2, <3>3, CounterpartFacts
    <2>3. CASE ~(i <= Len(changed))
      <3>1. PICK k : k = i - Len(changed)
        OBVIOUS
      <3>2. k \in 1..Len(added)
        BY <1>5, <2>1, <2>3, <3>1
      <3>3. r1[i] = Dummy(added[k]) /\ r2[i] = added[k]
        BY <1>8, <1>11, <1>12, <2>1, <2>3, <3>1, <3>2
      <3> QED
        BY <3>3 DEF Dummy
    <2> QED
      BY <2>2, <2>3
  <1>16. ToSet(r2) = Latest(first, second)
    <2>1. ToSet(r2) = ToSet(changed) \cup ToSet(added)
      BY <1>10, ConcatEntries
    <2> QED
      BY <1>4, <2>1 DEF Latest
  <1>17. ToSet(removed) = PathsOf(second) \ PathsOf(first)
    <2>1. ToSet(removed) = {gone[i].path : i \in DOMAIN gone}
      BY DEF ToSet
    <2>2. ToSet(removed) = {x.path : x \in ToSet(gone)}
      BY <2>1 DEF ToSet
    <2> HIDE DEF removed
    <2>3. PathsOf(second) = {x.path : x \in ToSet(second)}
      BY PathsOfEntries
    <2> QED
      BY <1>4, <2>2, <2>3
  <1> HIDE DEF removed
  <1> QED
    BY <1>13, <1>14, <1>15, <1>16, <1>17 DEF DiffLists

\* The second result makes the latest list of the previous one: every path
\* of the latest list is in the second result or kept, and what is kept has
\* the latest data.  An entry is in the second result unless the previous
\* list has its path with the same data.
THEOREM DiffReconstructsCorrect == Spec => []DiffReconstructs
  <1>1. ListsTypeOK => DiffReconstructs
    <2> SUFFICES ASSUME ListsTypeOK, UniquePaths(this), UniquePaths(other),
                        NEW latest \in SortedLists(this), NEW previous \in SortedLists(other)
                 PROVE  LET d    == Diff(latest, previous)
                            kept == PathsOf(previous)
                                      \ (ToSet(d.removed) \cup PathsOf(d.result2))
                        IN  /\ Len(d.result1) = Len(d.result2)
                            /\ \A i \in DOMAIN d.result1 :
                                 d.result1[i].path = d.result2[i].path
                            /\ kept \cup PathsOf(d.result2) = PathsOf(latest)
                            /\ \A i \in DOMAIN latest :
                                 IF latest[i].path \in kept
                                 THEN latest[i].checksum
                                        = Counterpart(previous, latest[i]).checksum
                                 ELSE latest[i] \in ToSet(d.result2)
      BY DEF DiffReconstructs
    <2>1. /\ latest \in Seq(Files) /\ previous \in Seq(Files)
          /\ UniquePaths(latest) /\ UniquePaths(previous)
      BY SortedFacts DEF ListsTypeOK
    <2>2. PICK d : d = Diff(latest, previous)
      OBVIOUS
    <2>3. DiffLists(d, latest, previous)
      BY <2>1, <2>2, FilesAssumption, DiffFacts
    <2> DEFINE kept == PathsOf(previous) \ (ToSet(d.removed) \cup PathsOf(d.result2))
    <2>4. /\ PathsOf(d.result2) = {x.path : x \in Latest(latest, previous)}
          /\ PathsOf(latest) = {x.path : x \in ToSet(latest)}
      BY <2>3, PathsOfEntries DEF DiffLists
    <2>5. kept = {p \in PathsOf(previous) : p \in PathsOf(latest) /\ p \notin PathsOf(d.result2)}
      BY <2>3 DEF DiffLists
    <2>6. kept \cup PathsOf(d.result2) = PathsOf(latest)
      <3>1. ASSUME NEW p \in PathsOf(latest), p \notin PathsOf(d.result2)
            PROVE  p \in PathsOf(previous)
        BY <2>4, <3>1 DEF Latest
      <3>2. PathsOf(d.result2) \subseteq PathsOf(latest)
        BY <2>4 DEF Latest
      <3> HIDE DEF kept
      <3> QED
        BY <2>5, <3>1, <3>2
    <2>7. ASSUME NEW i \in DOMAIN latest
          PROVE  IF latest[i].path \in kept
                 THEN latest[i].checksum = Counterpart(previous, latest[i]).checksum
                 ELSE latest[i] \in ToSet(d.result2)
      <3>1. PICK x : x = latest[i]
        OBVIOUS
      <3>2. x \in ToSet(latest) /\ x.path \in PathsOf(latest)
        BY <3>1 DEF ToSet, PathsOf
      <3> HIDE DEF kept
      <3>3. CASE x.path \in kept
        <4>1. x \notin Latest(latest, previous)
          BY <2>4, <2>5, <3>3
        <4>2. ~Differs(previous, x)
          BY <3>2, <4>1 DEF Latest
        <4> QED
          BY <3>1, <3>3, <4>2 DEF Differs
      <3>4. CASE x.path \notin kept
        <4>1. CASE x.path \notin PathsOf(previous)
          <5>1. x \in Latest(latest, previous)
            BY <3>2, <4>1 DEF Latest
          <5> QED
            BY <2>3, <3>1, <3>4, <5>1 DEF DiffLists
        <4>2. CASE x.path \in PathsOf(previous)
          <5>1. x.path \in PathsOf(d.result2)
            BY <2>5, <3>2, <3>4, <4>2
          <5>2. PICK y \in Latest(latest, previous) : y.path = x.path
            BY <2>4, <5>1
          <5>3. y = x
            <6>1. y \in ToSet(latest)
              BY DEF Latest
            <6> QED
              BY <2>1, <3>2, <5>2, <6>1, OnlyEntry
          <5> QED
            BY <2>3, <3>1, <3>4, <5>3 DEF DiffLists
        <4> QED
          BY <4>1, <4>2
      <3> QED
        BY <3>3, <3>4
    <2> QED
      BY <2>2, <2>3, <2>6, <2>7 DEF DiffLists
  <1> QED
    BY <1>1, ListsTypeCorrect, PTL

\* The lists of diff-group name the paths of which the groups disagree, and
\* no other; none is in both.
THEOREM DiffListsCorrect == Spec => []DiffListsExact
  <1>1. ListsTypeOK => DiffListsExact
    <2> DEFINE Data(list, p) == {r.checksum : r \in ToSet(AtPath(list, p))}
    <2> SUFFICES ASSUME ListsTypeOK, UniquePaths(this), UniquePaths(other),
                        NEW latest \in SortedLists(this), NEW previous \in SortedLists(other)
                 PROVE  LET lists == DiffChangesAsLists(Diff(latest, previous))
                        IN  /\ lists.additions \cap lists.subtractions = {}
                            /\ lists.subtractions = PathsOf(previous) \ PathsOf(latest)
                            /\ lists.additions \cup lists.subtractions =
                                 {p \in PathsOf(latest) \cup PathsOf(previous) :
                                    Data(latest, p) # Data(previous, p)}
      BY DEF DiffListsExact
    <2>1. /\ latest \in Seq(Files) /\ previous \in Seq(Files)
          /\ UniquePaths(latest) /\ UniquePaths(previous)
      BY SortedFacts DEF ListsTypeOK
    <2>2. PICK d : d = Diff(latest, previous)
      OBVIOUS
    <2>3. DiffLists(d, latest, previous)
      BY <2>1, <2>2, FilesAssumption, DiffFacts
    <2>4. PICK lists : lists = DiffChangesAsLists(d)
      OBVIOUS
    <2>5. /\ lists.additions = {x.path : x \in Latest(latest, previous)}
          /\ lists.subtractions = PathsOf(previous) \ PathsOf(latest)
      <3>1. PathsOf(d.result1) = PathsOf(d.result2)
        BY <2>3 DEF DiffLists, PathsOf
      <3>2. PathsOf(d.result2) = {x.path : x \in Latest(latest, previous)}
        BY <2>3, PathsOfEntries DEF DiffLists
      <3> QED
        BY <2>3, <2>4, <3>1, <3>2 DEF DiffLists, DiffChangesAsLists
    <2>6. /\ PathsOf(latest) = {x.path : x \in ToSet(latest)}
          /\ PathsOf(previous) = {x.path : x \in ToSet(previous)}
      BY PathsOfEntries
    <2>7. lists.additions \subseteq PathsOf(latest)
      BY <2>5, <2>6 DEF Latest
    <2>8. ASSUME NEW list \in Seq(Files), UniquePaths(list), NEW x \in ToSet(list)
          PROVE  Data(list, x.path) = {x.checksum}
      <3>1. ToSet(AtPath(list, x.path)) = {r \in ToSet(list) : r.path = x.path}
        BY AtPathFacts
      <3>2. \A r \in ToSet(list) : r.path = x.path => r = x
        BY <2>8, OnlyEntry
      <3>3. ToSet(AtPath(list, x.path)) = {x}
        BY <3>1, <3>2
      <3> QED
        BY <3>3
    <2>9. ASSUME NEW list \in Seq(Files), NEW p, p \notin PathsOf(list)
          PROVE  Data(list, p) = {}
      <3>1. ToSet(AtPath(list, p)) = {r \in ToSet(list) : r.path = p}
        BY AtPathFacts
      <3>2. ToSet(AtPath(list, p)) = {}
        BY <2>9, <3>1, PathsOfEntries
      <3> QED
        BY <3>2
    <2> HIDE DEF Data
    <2>10. ASSUME NEW p \in PathsOf(latest) \cup PathsOf(previous)
           PROVE  p \in lists.additions \cup lists.subtractions
                    <=> Data(latest, p) # Data(previous, p)
      <3>1. CASE p \notin PathsOf(latest)
        <4>1. PICK y \in ToSet(previous) : y.path = p
          BY <2>6, <3>1
        <4>2. Data(previous, p) = {y.checksum} /\ Data(latest, p) = {}
          BY <2>1, <2>8, <2>9, <3>1, <4>1
        <4> QED
          BY <2>5, <3>1, <4>2
      <3>2. CASE p \in PathsOf(latest)
        <4>1. PICK x \in ToSet(latest) : x.path = p
          BY <2>6, <3>2
        <4>2. Data(latest, p) = {x.checksum}
          BY <2>1, <2>8, <4>1
        <4>3. p \in lists.additions <=> x \in Latest(latest, previous)
          <5>1. \A z \in Latest(latest, previous) : z.path = p => z = x
            <6>1. \A z \in ToSet(latest) : z.path = x.path => z = x
              BY <2>1, OnlyEntry
            <6> QED
              BY <4>1, <6>1 DEF Latest
          <5> QED
            BY <2>5, <4>1, <5>1
        <4>4. p \notin lists.subtractions
          BY <2>5, <3>2
        <4>5. CASE p \notin PathsOf(previous)
          <5>1. Data(previous, p) = {}
            BY <2>1, <2>9, <4>5
          <5>2. x \in Latest(latest, previous)
            BY <4>1, <4>5 DEF Latest
          <5> QED
            BY <4>2, <4>3, <5>1, <5>2
        <4>6. CASE p \in PathsOf(previous)
          <5>1. PICK y : y = Counterpart(previous, x)
            OBVIOUS
          <5>2. y \in ToSet(previous) /\ y.path = p
            BY <2>1, <4>1, <4>6, <5>1, CounterpartFacts
          <5>3. Data(previous, p) = {y.checksum}
            BY <2>1, <2>8, <5>2
          <5>4. x \in Latest(latest, previous) <=> x.checksum # y.checksum
            BY <4>1, <4>6, <5>1 DEF Latest, Differs
          <5> QED
            BY <4>2, <4>3, <4>4, <5>3, <5>4
        <4> QED
          BY <4>5, <4>6
      <3> QED
        BY <3>1, <3>2
    <2>11. lists.additions \cap lists.subtractions = {}
      BY <2>5, <2>7
    <2>12. lists.additions \cup lists.subtractions
             \subseteq PathsOf(latest) \cup PathsOf(previous)
      BY <2>5, <2>7
    <2>13. lists.additions \cup lists.subtractions
             = {p \in PathsOf(latest) \cup PathsOf(previous) :
                  Data(latest, p) # Data(previous, p)}
      BY <2>10, <2>12
    <2> QED
      BY <2>2, <2>4, <2>5, <2>11, <2>13
  <1> QED
    BY <1>1, ListsTypeCorrect, PTL
---------------------------------------------------------------------------
(* Which parameters a document has.                                        *)

Origin == <<0, 0, 0>>

\* Nothing of a group is lost in the version of this program; in the first
\* one it was the types and what a bundle and a patch have of their own.
LEMMA ExpectedParameters ==
  ASSUME NEW P, P = ResourceParameters \/ P = ResourceParameters \cup PatchParameters
  PROVE  /\ Expected(P, DocumentVersion) = P
         /\ Expected(P, Origin) = P \ {"Type"}
  <1>1. ASSUME NEW p \in ResourceParameters \ {"Type"}
        PROVE  /\ p \notin PatchParameters
               /\ <<"Resource", p, Origin>> \in ParameterTable
    BY DEF ParameterTable, Origin, ResourceParameters, PatchParameters
  <1>2. ASSUME NEW p \in PatchParameters
        PROVE  <<"BinaryPatch", p, Origin>> \in ParameterTable
    BY DEF ParameterTable, Origin
  <1>3. <<"Resource", "Type", <<0, 1, 0>>>> \in ParameterTable
    BY DEF ParameterTable
  <1>4. LessOrEqual(Origin, Origin) /\ LessOrEqual(Origin, DocumentVersion)
        /\ LessOrEqual(<<0, 1, 0>>, DocumentVersion) /\ ~LessOrEqual(<<0, 1, 0>>, Origin)
    BY DEF LessOrEqual, Greater, Origin, DocumentVersion
  <1>5. ASSUME NEW e \in ParameterTable, e[2] = "Type"
        PROVE  e[3] = <<0, 1, 0>>
    BY <1>5 DEF ParameterTable, ResourceParameters, PatchParameters,
                PatchGroupParameters, BundleGroupParameters
  <1>6. "Type" \notin PatchParameters /\ "Type" \in ResourceParameters
    BY DEF PatchParameters, ResourceParameters
  <1>7. ~IsParameterExpected("Type", "Resource", Origin)
    BY <1>4, <1>5 DEF IsParameterExpected
  <1>8. IsParameterExpected("Type", "Resource", DocumentVersion)
    BY <1>3, <1>4 DEF IsParameterExpected
  <1>9. ASSUME NEW p \in PatchParameters
        PROVE  /\ IsParameterExpected(p, "BinaryPatch", Origin)
               /\ IsParameterExpected(p, "BinaryPatch", DocumentVersion)
    BY <1>2, <1>4 DEF IsParameterExpected
  <1>10. ASSUME NEW p \in ResourceParameters \ {"Type"}
         PROVE  /\ IsParameterExpected(p, "Resource", Origin)
                /\ IsParameterExpected(p, "Resource", DocumentVersion)
    BY <1>1, <1>4 DEF IsParameterExpected
  <1> QED
    BY <1>1, <1>6, <1>7, <1>8, <1>9, <1>10 DEF Expected

\* A copy has every parameter but the type, whatever the version.
LEMMA CopiedParameters ==
  ASSUME NEW version \in Version
  PROVE  Expected(ResourceParameters, version) \ {"Type"} = ResourceParameters \ {"Type"}
  <1>1. LessOrEqual(Origin, version)
    BY DEF LessOrEqual, Greater, Origin, Version
  <1>2. ASSUME NEW p \in ResourceParameters \ {"Type"}
        PROVE  /\ p \notin PatchParameters
               /\ <<"Resource", p, Origin>> \in ParameterTable
    BY DEF ParameterTable, Origin, ResourceParameters, PatchParameters
  <1>3. ASSUME NEW p \in ResourceParameters \ {"Type"}
        PROVE  IsParameterExpected(p, "Resource", version)
    BY <1>1, <1>2 DEF IsParameterExpected
  <1> QED
    BY <1>2, <1>3 DEF Expected

LEMMA ExpectedGroupParameters ==
  ASSUME NEW type \in GroupTypes
  PROVE  /\ ExpectedOfGroup(type, DocumentVersion) = GroupParameters(type)
         /\ ExpectedOfGroup(type, Origin) = {}
  <1>1. LessOrEqual(<<0, 1, 0>>, DocumentVersion) /\ ~LessOrEqual(<<0, 1, 0>>, Origin)
    BY DEF LessOrEqual, Greater, Origin, DocumentVersion
  <1>2. ASSUME NEW p \in GroupParameters(type)
        PROVE  <<type, p, <<0, 1, 0>>>> \in ParameterTable
    BY DEF GroupParameters, ParameterTable, GroupTypes
  <1>3. ASSUME NEW e \in ParameterTable, e[1] = type
        PROVE  e[3] = <<0, 1, 0>>
    BY <1>3 DEF ParameterTable, GroupTypes
  <1>4. ASSUME NEW p \in GroupParameters(type)
        PROVE  IsParameterExpected(p, type, DocumentVersion)
    BY <1>1, <1>2 DEF IsParameterExpected
  <1>5. ASSUME NEW p
        PROVE  ~IsParameterExpected(p, type, Origin)
    BY <1>1, <1>3 DEF IsParameterExpected
  <1> QED
    BY <1>4, <1>5 DEF ExpectedOfGroup

\* The version of a document is one of two.
LEMMA DocumentVersions ==
  ASSUME NEW version \in Version
  PROVE  ExportedVersion(DocumentVersion, version)
           = IF version = Origin THEN Origin ELSE DocumentVersion
  <1>1. PICK a \in Nat, b \in Nat, c \in Nat : version = <<a, b, c>>
    BY DEF Version
  <1>2. CASE b = 0
    <2>1. Clamp(DocumentVersion, version) = version
      BY <1>1, <1>2 DEF Clamp, Greater, DocumentVersion
    <2>2. Clamp(version, DocumentVersion)
            = IF a > 0 \/ c > 0 THEN DocumentVersion ELSE version
      BY <1>1, <1>2 DEF Clamp, Greater, DocumentVersion
    <2>3. version = Origin <=> ~(a > 0 \/ c > 0)
      BY <1>1, <1>2 DEF Origin
    <2> QED
      BY <2>1, <2>2, <2>3 DEF ExportedVersion
  <1>3. CASE b # 0
    <2>1. version # Origin
      BY <1>1, <1>3 DEF Origin
    <2>2. Clamp(DocumentVersion, version) \in {version, DocumentVersion}
      BY DEF Clamp
    <2>3. Clamp(DocumentVersion, version) = DocumentVersion
      BY <1>1, <1>3 DEF Clamp, Greater, DocumentVersion
    <2>4. Clamp(DocumentVersion, DocumentVersion) = DocumentVersion
      BY DEF Clamp
    <2> QED
      BY <2>1, <2>3, <2>4 DEF ExportedVersion
  <1> QED
    BY <1>2, <1>3
---------------------------------------------------------------------------
(* Resources.                                                              *)

\* A resource with all its parameters.
Complete(r, class) ==
  /\ r \in [ParametersOf(class) -> Value \cup {Unset}]
  /\ r["Type"] = class
  /\ \A p \in ParametersOf(class) \ OptionalParameters : r[p] # Unset

\* The node of a resource: what it has of the expected parameters.
NodeOf(r, expected) == [p \in {q \in expected : r[q] # Unset} |-> r[p]]

LEMMA ParameterSets ==
  ASSUME NEW class
  PROVE  /\ \/ ParametersOf(class) = ResourceParameters
            \/ ParametersOf(class) = ResourceParameters \cup PatchParameters
         /\ ResourceParameters \subseteq ParametersOf(class)
         /\ "Type" \in ParametersOf(class) /\ "Type" \notin OptionalParameters
         /\ OptionalParameters \subseteq ResourceParameters
         /\ ParametersOf("Resource") = ResourceParameters
  BY DEF ParametersOf, ResourceParameters, OptionalParameters

\* A node is a node.
LEMMA NodeIsNode ==
  ASSUME NEW class, NEW r, Complete(r, class), NEW expected \in SUBSET ParametersOf(class)
  PROVE  NodeOf(r, expected) \in Nodes /\ NodeOf(r, expected) # Unset
  <1> DEFINE D == {q \in expected : r[q] # Unset}
  <1>1. D \in SUBSET (ResourceParameters \cup PatchParameters)
    BY ParameterSets
  <1>2. ASSUME NEW p \in D PROVE r[p] \in Value \cup {Unset}
    BY DEF Complete
  <1>3. NodeOf(r, expected) \in [D -> Value \cup {Unset}]
    BY <1>2 DEF NodeOf
  <1> HIDE DEF D
  <1> QED
    BY <1>1, <1>3, UnsetAssumption DEF Nodes

LEMMA ResourceIsNode ==
  ASSUME NEW class, NEW r, Complete(r, class)
  PROVE  r \in Nodes /\ r # Unset
  <1>1. ParametersOf(class) \in SUBSET (ResourceParameters \cup PatchParameters)
    BY ParameterSets
  <1> QED
    BY <1>1, UnsetAssumption DEF Nodes, Complete

\* What is written of a resource.
LEMMA ExportFacts ==
  ASSUME NEW class, NEW r, Complete(r, class)
  PROVE  /\ ExportToYaml(r, DocumentVersion) = NodeOf(r, ParametersOf(class))
         /\ ExportToYaml(r, Origin) = NodeOf(r, ParametersOf(class) \ {"Type"})
  <1>1. DOMAIN r = ParametersOf(class)
    BY DEF Complete
  <1>2. \A p \in ParametersOf(class) \ OptionalParameters : r[p] # Unset
    BY DEF Complete
  <1>3. /\ Expected(ParametersOf(class), DocumentVersion) = ParametersOf(class)
        /\ Expected(ParametersOf(class), Origin) = ParametersOf(class) \ {"Type"}
    BY ParameterSets, ExpectedParameters
  <1>4. ~ \E p \in ParametersOf(class) \ OptionalParameters : r[p] = Unset
    BY <1>2
  <1>5. ~ \E p \in (ParametersOf(class) \ {"Type"}) \ OptionalParameters : r[p] = Unset
    BY <1>2
  <1> QED
    BY <1>1, <1>3, <1>4, <1>5 DEF ExportToYaml, NodeOf

\* Reading the node gives the resource again: what the node leaves out is
\* what a new object has.
LEMMA ImportRestores ==
  ASSUME NEW class, NEW r, Complete(r, class)
  PROVE  /\ ImportFromYaml(NodeOf(r, ParametersOf(class)), class, DocumentVersion) = r
         /\ ImportFromYaml(NodeOf(r, ParametersOf(class) \ {"Type"}), class, Origin) = r
  <1> DEFINE P == ParametersOf(class)
  <1>1. /\ Expected(P, DocumentVersion) = P
        /\ Expected(P, Origin) = P \ {"Type"}
    BY ParameterSets, ExpectedParameters
  <1>2. r \in [P -> Value \cup {Unset}] /\ r["Type"] = class
    BY DEF Complete
  <1>3. \A p \in P \ OptionalParameters : r[p] # Unset
    BY DEF Complete
  <1>4. NewResourceInfo(class)["Type"] = class
    BY ParameterSets DEF NewResourceInfo
  <1>5. ASSUME NEW p \in OptionalParameters PROVE NewResourceInfo(class)[p] = Unset
    <2>1. p \in P /\ p # "Type"
      BY ParameterSets
    <2> QED
      BY <2>1 DEF NewResourceInfo, OptionalParameters
  <1>6. ASSUME NEW expected \in SUBSET P, P \ {"Type"} \subseteq expected,
               NEW version, Expected(P, version) = expected
        PROVE  ImportFromYaml(NodeOf(r, expected), class, version) = r
    <2> DEFINE node == NodeOf(r, expected)
    <2>1. /\ DOMAIN node = {q \in expected : r[q] # Unset}
          /\ \A p \in DOMAIN node : node[p] = r[p]
      BY DEF NodeOf
    <2> HIDE DEF node
    <2>2. expected \ OptionalParameters \subseteq DOMAIN node
      BY <1>3, <2>1
    <2>3. ASSUME NEW p \in P
          PROVE  (IF p \in expected \cap DOMAIN node THEN node[p]
                  ELSE NewResourceInfo(class)[p]) = r[p]
      <3>1. CASE p \in expected \cap DOMAIN node
        BY <2>1, <3>1
      <3>2. CASE p \notin expected
        BY <1>2, <1>4, <1>6, <3>2
      <3>3. CASE p \in expected /\ p \notin DOMAIN node
        <4>1. r[p] = Unset
          BY <2>1, <3>3
        <4>2. p \in OptionalParameters
          BY <1>3, <4>1
        <4> QED
          BY <1>5, <3>3, <4>1, <4>2
      <3> QED
        BY <3>1, <3>2, <3>3
    <2>4. ImportFromYaml(node, class, version)
            = [p \in P |-> IF p \in expected \cap DOMAIN node THEN node[p]
                           ELSE NewResourceInfo(class)[p]]
      BY <1>6, <2>2 DEF ImportFromYaml
    <2>5. ImportFromYaml(node, class, version) = [p \in P |-> r[p]]
      BY <2>3, <2>4
    <2> QED
      BY <1>2, <2>5 DEF node
  <1> HIDE DEF P
  <1>7. ImportFromYaml(NodeOf(r, P), class, DocumentVersion) = r
    BY <1>1, <1>6
  <1>8. ImportFromYaml(NodeOf(r, P \ {"Type"}), class, Origin) = r
    BY <1>1, <1>6
  <1> QED
    BY <1>7, <1>8 DEF P

\* Without asking for a class: it is the type, which a node of the first
\* version does not have.
LEMMA CreateRestores ==
  ASSUME NEW class \in Classes, NEW r, Complete(r, class)
  PROVE  /\ CreateResourceInfoFromYamlNode(NodeOf(r, ParametersOf(class)), DocumentVersion) = r
         /\ \A version :
              CreateResourceInfoFromYamlNode(NodeOf(r, ParametersOf(class) \ {"Type"}), version)
                = Unset
  <1>1. r["Type"] = class /\ r["Type"] # Unset
    BY ParameterSets DEF Complete
  <1> DEFINE node == NodeOf(r, ParametersOf(class))
  <1>2. "Type" \in DOMAIN node /\ node["Type"] = class
    BY <1>1, ParameterSets DEF NodeOf
  <1>3. ImportFromYaml(node, class, DocumentVersion) = r
    BY ImportRestores
  <1>4. "Type" \notin DOMAIN NodeOf(r, ParametersOf(class) \ {"Type"})
    BY DEF NodeOf
  <1> HIDE DEF node
  <1>5. CreateResourceInfoFromYamlNode(node, DocumentVersion) = r
    BY <1>2, <1>3 DEF CreateResourceInfoFromYamlNode
  <1> QED
    BY <1>4, <1>5 DEF CreateResourceInfoFromYamlNode, node

\* The resources of a group are complete.
LEMMA ObjectIsComplete ==
  ASSUME NEW r, NEW class \in Classes, NEW prefix \in STRING \cup {Unset},
         NEW operation \in (Nat \ {0}) \cup {Unset},
         r.path \in Nat, r.checksum \in STRING, r.usize \in Nat,
         r.csize \in (Nat \ {0}) \cup {Unset}
  PROVE  Complete(Object(r, class, prefix, operation), class)
  <1> DEFINE o == Object(r, class, prefix, operation)
             P == ParametersOf(class)
  <1>2. <<r.path, r.checksum>> \in Nat \X STRING
    OBVIOUS
  <1>3. PICK location : location = <<r.path, r.checksum>>
    OBVIOUS
  <1>4. ASSUME NEW p \in P
        PROVE  /\ o[p] \in Value \cup {Unset}
               /\ p \notin OptionalParameters => o[p] \in Value
    <2>1. o[p] = CASE p \in {"RelativePath", "TargetResourceRelativePath"} -> r.path
                   [] p = "Type"            -> class
                   [] p = "Location"        -> location
                   [] p = "Checksum"        -> r.checksum
                   [] p = "CompressedSize"  -> r.csize
                   [] p = "BinaryOperation" -> operation
                   [] p = "Prefix"          -> prefix
                   [] OTHER                 -> r.usize
      BY <1>3 DEF Object
    <2>2. location \in Value /\ r.path \in Value /\ class \in Value /\ r.checksum \in Value
          /\ r.usize \in Value /\ r.csize \in Value \cup {Unset}
          /\ operation \in Value \cup {Unset} /\ prefix \in Value \cup {Unset}
      BY <1>2, <1>3 DEF Value
    <2> HIDE DEF o
    <2> QED
      BY <2>1, <2>2 DEF OptionalParameters
  <1>5. o \in [P -> Value \cup {Unset}]
    <2>1. DOMAIN o = P /\ o = [p \in P |-> o[p]]
      BY DEF Object
    <2> HIDE DEF o, P
    <2> QED
      BY <1>4, <2>1
  <1>6. o["Type"] = class
    BY ParameterSets DEF Object
  <1>7. \A p \in P \ OptionalParameters : o[p] # Unset
    <2> HIDE DEF o, P
    <2> QED
      BY <1>4, UnsetAssumption
  <1> QED
    BY <1>5, <1>6, <1>7 DEF Complete
---------------------------------------------------------------------------
(* Groups.                                                                 *)

\* What a document of version w has of the parameters of a resource.
Written(class, w) ==
  IF w = Origin THEN ParametersOf(class) \ {"Type"} ELSE ParametersOf(class)

ExportedVersions == {Origin, DocumentVersion}

\* What the document of a group is.
OwnDocument(own, type, w) ==
  [p \in IF w = Origin THEN {} ELSE GroupParameters(type) |->
     IF p = "ResourceGroupResource" THEN NodeOf(own[p], ParametersOf("ResourceGroup"))
     ELSE own[p]]

DocumentOf(group, w) ==
  [version |-> w, type |-> group.type,
   own |-> OwnDocument(group.own, group.type, w),
   resources |-> [i \in DOMAIN group.resources |->
                    NodeOf(group.resources[i], Written(ClassOf(group.type), w))]]

\* A group with all its parameters.
CompleteGroup(group) ==
  /\ group.type \in GroupTypes
  /\ group.version \in Version
  /\ group.own \in [GroupParameters(group.type) -> OwnValue]
  /\ \A p \in GroupParameters(group.type) :
       /\ p = "ResourceGroupResource" => Complete(group.own[p], "ResourceGroup")
       /\ p = "MaxInputChunkSize" => group.own[p] # Unset
  /\ group.resources \in Seq(Nodes)
  /\ \A i \in DOMAIN group.resources :
       Complete(group.resources[i], ClassOf(group.type))
  /\ group = [type |-> group.type, version |-> group.version, own |-> group.own,
              resources |-> group.resources]

LEMMA ClassIsClass == \A type : ClassOf(type) \in Classes
  BY DEF ClassOf, Classes

LEMMA OwnSets ==
  ASSUME NEW type \in GroupTypes
  PROVE  /\ GroupParameters(type) \in SUBSET (PatchGroupParameters \cup BundleGroupParameters)
         /\ {} \in SUBSET (PatchGroupParameters \cup BundleGroupParameters)
  BY DEF GroupParameters

\* What the parameters of a group are of.
LEMMA WrittenFacts ==
  ASSUME NEW class, NEW r, Complete(r, class), NEW w \in ExportedVersions
  PROVE  /\ Written(class, w) \in SUBSET ParametersOf(class)
         /\ ExportToYaml(r, w) = NodeOf(r, Written(class, w))
         /\ ExportToYaml(r, w) \in Nodes /\ ExportToYaml(r, w) # Unset
         /\ ImportFromYaml(NodeOf(r, Written(class, w)), class, w) = r
  <1>1. Origin # DocumentVersion
    BY DEF Origin, DocumentVersion
  <1>2. Written(class, w) \in SUBSET ParametersOf(class)
    BY DEF Written
  <1>3. CASE w = Origin
    <2>1. Written(class, w) = ParametersOf(class) \ {"Type"}
      BY <1>3 DEF Written
    <2>2. ExportToYaml(r, w) = NodeOf(r, Written(class, w))
      BY <1>3, <2>1, ExportFacts
    <2>3. ImportFromYaml(NodeOf(r, Written(class, w)), class, w) = r
      BY <1>3, <2>1, ImportRestores
    <2> QED
      BY <1>2, <2>2, <2>3, NodeIsNode
  <1>4. CASE w = DocumentVersion
    <2>1. Written(class, w) = ParametersOf(class)
      BY <1>1, <1>4 DEF Written
    <2>2. ExportToYaml(r, w) = NodeOf(r, Written(class, w))
      BY <1>4, <2>1, ExportFacts
    <2>3. ImportFromYaml(NodeOf(r, Written(class, w)), class, w) = r
      BY <1>4, <2>1, ImportRestores
    <2> QED
      BY <1>2, <2>2, <2>3, NodeIsNode
  <1> QED
    BY <1>3, <1>4 DEF ExportedVersions

LEMMA OwnDocumentIsOwn ==
  ASSUME NEW group, CompleteGroup(group), NEW w \in ExportedVersions
  PROVE  \E D \in SUBSET (PatchGroupParameters \cup BundleGroupParameters) :
           OwnDocument(group.own, group.type, w) \in [D -> OwnValue]
  <1> DEFINE D == IF w = Origin THEN {} ELSE GroupParameters(group.type)
             document == OwnDocument(group.own, group.type, w)
  <1>1. D \in SUBSET (PatchGroupParameters \cup BundleGroupParameters)
    BY OwnSets DEF CompleteGroup
  <1>2. ASSUME NEW p \in D PROVE document[p] \in OwnValue
    <2>1. p \in GroupParameters(group.type)
      OBVIOUS
    <2>2. CASE p = "ResourceGroupResource"
      <3>1. Complete(group.own[p], "ResourceGroup")
        BY <2>1, <2>2 DEF CompleteGroup
      <3>2. NodeOf(group.own[p], ParametersOf("ResourceGroup")) \in Nodes
        BY <3>1, NodeIsNode
      <3>3. document[p] = NodeOf(group.own[p], ParametersOf("ResourceGroup"))
        BY <2>2 DEF OwnDocument
      <3> QED
        BY <3>2, <3>3 DEF OwnValue
    <2>3. CASE p # "ResourceGroupResource"
      <3>1. document[p] = group.own[p]
        BY <2>3 DEF OwnDocument
      <3>2. group.own \in [GroupParameters(group.type) -> OwnValue]
        BY DEF CompleteGroup
      <3> QED
        BY <2>1, <3>1, <3>2
    <2> QED
      BY <2>2, <2>3
  <1>3. document = [p \in D |-> document[p]]
    BY DEF OwnDocument
  <1> HIDE DEF D, document
  <1>4. document \in [D -> OwnValue]
    BY <1>2, <1>3
  <1> QED
    BY <1>1, <1>4 DEF document

\* What is written of a complete group: all of it, or in the first version
\* the resources without their types.
LEMMA ExportGroup ==
  ASSUME NEW group, CompleteGroup(group),
         NEW w, w = ExportedVersion(DocumentVersion, group.version), w \in ExportedVersions
  PROVE  /\ ExportYaml(group, DocumentVersion) = DocumentOf(group, w)
         /\ DocumentOf(group, w) # Unset
  <1> DEFINE class == ClassOf(group.type)
             nodes == [i \in DOMAIN group.resources |->
                         ExportToYaml(group.resources[i], w)]
             places == DOMAIN group.resources
             expected == ExpectedOfGroup(group.type, w)
  <1>1. ASSUME NEW i \in places
        PROVE  /\ nodes[i] = NodeOf(group.resources[i], Written(class, w))
               /\ nodes[i] \in Nodes /\ nodes[i] # Unset
    <2>1. Complete(group.resources[i], class)
      BY DEF CompleteGroup
    <2> HIDE DEF class
    <2> QED
      BY <2>1, WrittenFacts
  <1>2. nodes = [i \in places |-> NodeOf(group.resources[i], Written(class, w))]
    BY <1>1
  <1>3. nodes \in Seq(Nodes)
    <2>1. PICK n \in Nat : places = 1..n
      BY DEF CompleteGroup
    <2>2. nodes \in [1..n -> Nodes]
      <3>1. nodes = [i \in places |-> nodes[i]]
        OBVIOUS
      <3> HIDE DEF nodes, places
      <3> QED
        BY <1>1, <2>1, <3>1
    <2> HIDE DEF nodes, places
    <2> QED
      BY <2>2, SeqDef
  <1>4. Unset \notin {nodes[i] : i \in DOMAIN nodes}
    <2>1. DOMAIN nodes = places
      OBVIOUS
    <2> HIDE DEF nodes, places
    <2> QED
      BY <1>1, <2>1
  <1>5. expected = IF w = Origin THEN {} ELSE GroupParameters(group.type)
    BY ExpectedGroupParameters DEF CompleteGroup, ExportedVersions, Origin, DocumentVersion
  <1>6. ~("MaxInputChunkSize" \in expected /\ group.own["MaxInputChunkSize"] = Unset)
    BY <1>5 DEF CompleteGroup
  <1>7. ExportGroupSpecialisedYaml(group, w) = OwnDocument(group.own, group.type, w)
    <2>1. ASSUME NEW p \in expected
          PROVE  (IF p = "ResourceGroupResource" THEN ExportToYaml(group.own[p], w)
                  ELSE group.own[p])
                 = (IF p = "ResourceGroupResource"
                    THEN NodeOf(group.own[p], ParametersOf("ResourceGroup"))
                    ELSE group.own[p])
      <3>1. w # Origin /\ p \in GroupParameters(group.type)
        BY <1>5
      <3>2. CASE p = "ResourceGroupResource"
        <4>1. Complete(group.own[p], "ResourceGroup")
          BY <3>1, <3>2 DEF CompleteGroup
        <4>2. Written("ResourceGroup", w) = ParametersOf("ResourceGroup")
          BY <3>1 DEF Written
        <4>3. ExportToYaml(group.own[p], w)
                = NodeOf(group.own[p], ParametersOf("ResourceGroup"))
          BY <4>1, <4>2, WrittenFacts
        <4> QED
          BY <4>3
      <3> QED
        BY <3>2
    <2> HIDE DEF expected
    <2> QED
      BY <1>5, <2>1 DEF ExportGroupSpecialisedYaml, OwnDocument, expected
  <1>8. DocumentVersion \in ValidVersions
    BY DEF DocumentVersion, ValidVersions
  <1>9. ExportYaml(group, DocumentVersion)
          = [version |-> w, type |-> group.type,
             own |-> ExportGroupSpecialisedYaml(group, w), resources |-> nodes]
    BY <1>4, <1>6, <1>8 DEF ExportYaml
  <1>10. ExportYaml(group, DocumentVersion) = DocumentOf(group, w)
    <2> HIDE DEF nodes
    <2> QED
      BY <1>2, <1>7, <1>9 DEF DocumentOf
  <1>11. DocumentOf(group, w) # Unset
    <2>1. PICK own : own = OwnDocument(group.own, group.type, w)
      OBVIOUS
    <2>2. PICK D \in SUBSET (PatchGroupParameters \cup BundleGroupParameters) :
            own \in [D -> OwnValue]
      BY <2>1, OwnDocumentIsOwn
    <2>3. w \in Version
      BY DEF ExportedVersions, Origin, DocumentVersion, Version
    <2>4. group.type \in GroupTypes
      BY DEF CompleteGroup
    <2>5. PICK resources \in Seq(Nodes) : resources = nodes
      BY <1>3
    <2>6. DocumentOf(group, w)
            = [version |-> w, type |-> group.type, own |-> own, resources |-> resources]
      BY <1>2, <2>1, <2>5 DEF DocumentOf
    <2>7. DocumentOf(group, w) \in [version : Version, type : GroupTypes,
                                    own : [D -> OwnValue], resources : Seq(Nodes)]
      BY <2>2, <2>3, <2>4, <2>6
    <2> QED
      BY <2>7, UnsetAssumption
  <1> QED
    BY <1>10, <1>11
\* A new group has all the parameters of its type.
LEMMA NewParameters ==
  ASSUME NEW type \in GroupTypes
  PROVE  NewGroupParameters(type) \in [GroupParameters(type) -> OwnValue]
  <1>1. NewResourceInfo("ResourceGroup") \in Nodes
    <2>1. ParametersOf("ResourceGroup") = ResourceParameters
      BY DEF ParametersOf
    <2>2. ASSUME NEW p \in ResourceParameters
          PROVE  NewResourceInfo("ResourceGroup")[p] \in Value \cup {Unset}
      <3>1. NewResourceInfo("ResourceGroup")[p] \in {"ResourceGroup", Unset, 0, Default}
        BY <2>1 DEF NewResourceInfo
      <3>2. "ResourceGroup" \in Value /\ 0 \in Value /\ Default \in Value
        BY DEF Value, Classes
      <3> QED
        BY <3>1, <3>2
    <2>3. NewResourceInfo("ResourceGroup")
            = [p \in ResourceParameters |-> NewResourceInfo("ResourceGroup")[p]]
      BY <2>1 DEF NewResourceInfo
    <2>4. PICK r : r = NewResourceInfo("ResourceGroup")
      OBVIOUS
    <2>5. r \in [ResourceParameters -> Value \cup {Unset}]
      BY <2>2, <2>3, <2>4
    <2> QED
      BY <2>4, <2>5 DEF Nodes
  <1>2. <<>> \in Seq(Nat)
    BY EmptySeq
  <1>3. ASSUME NEW p \in GroupParameters(type)
        PROVE  NewGroupParameters(type)[p] \in OwnValue
    <2>1. NewGroupParameters(type)[p]
            \in {NewResourceInfo("ResourceGroup"), 1000, <<>>, Unset}
      BY DEF NewGroupParameters
    <2>2. /\ NewResourceInfo("ResourceGroup") \in OwnValue
          /\ 1000 \in OwnValue /\ <<>> \in OwnValue /\ Unset \in OwnValue
      BY <1>1, <1>2 DEF OwnValue
    <2>3. PICK n, new, empty, value :
            n = NewResourceInfo("ResourceGroup") /\ new = NewGroupParameters(type)
            /\ empty = <<>> /\ value = new[p]
      OBVIOUS
    <2>4. value \in {n, 1000, empty, Unset} /\ n \in OwnValue /\ 1000 \in OwnValue
          /\ empty \in OwnValue /\ Unset \in OwnValue
      BY <2>1, <2>2, <2>3
    <2>5. value \in OwnValue
      BY <2>4
    <2> QED
      BY <2>3, <2>5
  <1>4. NewGroupParameters(type)
          = [p \in GroupParameters(type) |-> NewGroupParameters(type)[p]]
    BY DEF NewGroupParameters
  <1>5. PICK n : n = NewGroupParameters(type)
    OBVIOUS
  <1> QED
    BY <1>3, <1>4, <1>5

\* What is read of the parameters of a group: what was written, or the
\* defaults where nothing was.
LEMMA ImportOwn ==
  ASSUME NEW group, CompleteGroup(group), NEW w \in ExportedVersions
  PROVE  ImportGroupSpecialisedYaml(DocumentOf(group, w))
           = IF w = Origin THEN NewGroupParameters(group.type) ELSE group.own
  <1> DEFINE document == DocumentOf(group, w)
             type == group.type
             R == "ResourceGroupResource"
             read == CreateResourceInfoFromYamlNode(document.own[R], document.version)
             expected == ExpectedOfGroup(document.type, document.version)
  <1>1. /\ document.type = type /\ document.version = w
        /\ document.own = OwnDocument(group.own, type, w)
    BY DEF DocumentOf
  <1>2. type \in GroupTypes
    BY DEF CompleteGroup
  <1>3. Origin # DocumentVersion
    BY DEF Origin, DocumentVersion
  <1>4. expected = IF w = Origin THEN {} ELSE GroupParameters(type)
    BY <1>1, <1>2, <1>3, ExpectedGroupParameters DEF ExportedVersions
  <1>5. DOMAIN document.own = expected
    BY <1>1, <1>4 DEF OwnDocument
  <1>6. ASSUME R \in expected
        PROVE  read = group.own[R] /\ read # Unset /\ read["Type"] = "ResourceGroup"
    <2>1. w = DocumentVersion /\ R \in GroupParameters(type)
      BY <1>4, <1>6 DEF ExportedVersions
    <2>2. PICK r : r = group.own[R]
      OBVIOUS
    <2>3. Complete(r, "ResourceGroup")
      BY <2>1, <2>2 DEF CompleteGroup
    <2>4. document.own[R] = NodeOf(r, ParametersOf("ResourceGroup"))
      BY <1>1, <1>3, <2>1, <2>2 DEF OwnDocument
    <2>5. "ResourceGroup" \in Classes
      BY DEF Classes
    <2>6. CreateResourceInfoFromYamlNode(NodeOf(r, ParametersOf("ResourceGroup")),
                                         DocumentVersion) = r
      BY <2>3, <2>5, CreateRestores
    <2>7. read = r
      BY <1>1, <2>1, <2>4, <2>6
    <2>8. r # Unset /\ r["Type"] = "ResourceGroup"
      BY <2>3, ResourceIsNode DEF Complete
    <2> QED
      BY <2>2, <2>7, <2>8
  <1>7. ImportGroupSpecialisedYaml(document)
          = [p \in GroupParameters(type) |->
               IF p \notin expected THEN NewGroupParameters(type)[p]
               ELSE IF p = R THEN read ELSE document.own[p]]
    <2> HIDE DEF expected, read, document
    <2>1. expected \cap DOMAIN document.own = expected
      BY <1>5
    <2>2. expected \ {"RemovedResourceRelativePaths"} \subseteq DOMAIN document.own
      BY <1>5
    <2>3. ~(R \in expected /\ (read = Unset \/ read["Type"] # "ResourceGroup"))
      BY <1>6
    <2> QED
      BY <1>1, <2>1, <2>2, <2>3 DEF ImportGroupSpecialisedYaml, expected, read
  <1>8. CASE w = Origin
    <2>1. ImportGroupSpecialisedYaml(document)
            = [p \in GroupParameters(type) |-> NewGroupParameters(type)[p]]
      <3> HIDE DEF expected, read, document
      <3> QED
        BY <1>4, <1>7, <1>8
    <2>2. NewGroupParameters(type)
            = [p \in GroupParameters(type) |-> NewGroupParameters(type)[p]]
      BY DEF NewGroupParameters
    <2> QED
      BY <1>8, <2>1, <2>2
  <1>9. CASE w # Origin
    <2>1. ASSUME NEW p \in GroupParameters(type)
          PROVE  (IF p = R THEN read ELSE document.own[p]) = group.own[p]
      <3>1. CASE p = R
        <4> HIDE DEF expected, read, document
        <4> QED
          BY <1>4, <1>6, <1>9, <2>1, <3>1
      <3>2. CASE p # R
        <4>1. document.own[p] = group.own[p]
          BY <1>1, <1>9, <2>1, <3>2 DEF OwnDocument
        <4> QED
          BY <3>2, <4>1
      <3> QED
        BY <3>1, <3>2
    <2>2. ImportGroupSpecialisedYaml(document)
            = [p \in GroupParameters(type) |-> group.own[p]]
      <3> HIDE DEF expected, read, document
      <3> QED
        BY <1>4, <1>7, <1>9, <2>1
    <2>3. group.own = [p \in GroupParameters(type) |-> group.own[p]]
      BY DEF CompleteGroup
    <2> QED
      BY <1>9, <2>2, <2>3
  <1> QED
    BY <1>8, <1>9

\* What is read of one resource of a group.
LEMMA ImportResource ==
  ASSUME NEW type \in GroupTypes, NEW r, Complete(r, ClassOf(type)), NEW w \in ExportedVersions
  PROVE  CreateResourceFromYaml(type, NodeOf(r, Written(ClassOf(type), w)), w)
           = IF w = Origin /\ type = "ResourceGroup" THEN Unset ELSE r
  <1> DEFINE node == NodeOf(r, Written(ClassOf(type), w))
  <1>1. ImportFromYaml(node, ClassOf(type), w) = r
    BY WrittenFacts
  <1> HIDE DEF node
  <1>2. CASE type = "PatchGroup"
    BY <1>1, <1>2 DEF CreateResourceFromYaml, ClassOf, node
  <1>3. CASE type = "BundleGroup"
    BY <1>1, <1>3 DEF CreateResourceFromYaml, ClassOf, node
  <1>4. CASE type = "ResourceGroup"
    <2>1. CreateResourceFromYaml(type, node, w) = CreateResourceInfoFromYamlNode(node, w)
      BY <1>4 DEF CreateResourceFromYaml
    <2>2. ClassOf(type) \in Classes
      BY ClassIsClass
    <2>3. Origin # DocumentVersion
      BY DEF Origin, DocumentVersion
    <2>4. CASE w = Origin
      <3>1. node = NodeOf(r, ParametersOf(ClassOf(type)) \ {"Type"})
        BY <2>4 DEF node, Written
      <3>2. CreateResourceInfoFromYamlNode(node, w) = Unset
        BY <2>2, <3>1, CreateRestores
      <3> QED
        BY <1>4, <2>1, <2>4, <3>2 DEF node
    <2>5. CASE w = DocumentVersion
      <3>1. node = NodeOf(r, ParametersOf(ClassOf(type)))
        BY <2>3, <2>5 DEF node, Written
      <3>2. CreateResourceInfoFromYamlNode(node, w) = r
        BY <2>2, <2>5, <3>1, CreateRestores
      <3> QED
        BY <2>1, <2>3, <2>5, <3>2 DEF node
    <2> QED
      BY <2>4, <2>5 DEF ExportedVersions
  <1> QED
    BY <1>2, <1>3, <1>4 DEF GroupTypes

LEMMA EmptyDomain ==
  ASSUME NEW S, NEW q \in Seq(S)
  PROVE  DOMAIN q # {} <=> q # <<>>
  <1>1. DOMAIN q = 1..Len(q) /\ Len(q) \in Nat
    BY LenProperties
  <1>2. q = <<>> <=> Len(q) = 0
    BY EmptySeq
  <1>3. Len(q) # 0 => 1 \in 1..Len(q)
    BY <1>1
  <1>4. Len(q) = 0 => 1..Len(q) = {}
    BY <1>1
  <1> QED
    BY <1>1, <1>2, <1>3, <1>4

\* What is read of a document.
LEMMA ImportGroup ==
  ASSUME NEW group, CompleteGroup(group), NEW w \in ExportedVersions
  PROVE  IF w = Origin
         THEN ImportDocument(DocumentOf(group, w)) = Unset
                <=> group.type = "ResourceGroup" /\ group.resources # <<>>
         ELSE ImportDocument(DocumentOf(group, w)) = [group EXCEPT !.version = w]
  <1> DEFINE document == DocumentOf(group, w)
             type == group.type
             places == DOMAIN group.resources
             own == ImportGroupSpecialisedYaml(document)
             resources == [i \in DOMAIN document.resources |->
                             CreateResourceFromYaml(document.type, document.resources[i],
                                                    document.version)]
             Lost == w = Origin /\ type = "ResourceGroup"
  <1>1. type \in GroupTypes /\ group.resources \in Seq(Nodes)
    BY DEF CompleteGroup
  <1>2. own = IF w = Origin THEN NewGroupParameters(type) ELSE group.own
    BY ImportOwn
  <1>3. own \in [GroupParameters(type) -> OwnValue]
    BY <1>1, <1>2, NewParameters DEF CompleteGroup
  <1>4. GroupParameters(type) \in SUBSET (PatchGroupParameters \cup BundleGroupParameters)
    BY <1>1, OwnSets
  <1>5. own # Unset
    <2> HIDE DEF own
    <2> QED
      BY <1>3, <1>4, UnsetAssumption
  <1>6. ~(document.version[1] > DocumentVersion[1])
    BY DEF DocumentOf, ExportedVersions, Origin, DocumentVersion
  <1>7. resources = [i \in places |-> IF Lost THEN Unset ELSE group.resources[i]]
    <2>1. /\ document.type = type /\ document.version = w
          /\ document.resources
               = [i \in places |-> NodeOf(group.resources[i], Written(ClassOf(type), w))]
      BY DEF DocumentOf
    <2>2. ASSUME NEW i \in places
          PROVE  CreateResourceFromYaml(type, document.resources[i], w)
                   = IF Lost THEN Unset ELSE group.resources[i]
      <3>1. PICK r : r = group.resources[i]
        OBVIOUS
      <3>2. Complete(r, ClassOf(type))
        BY <3>1 DEF CompleteGroup
      <3>3. document.resources[i] = NodeOf(r, Written(ClassOf(type), w))
        BY <2>1, <3>1
      <3> HIDE DEF document
      <3> QED
        BY <1>1, <3>1, <3>2, <3>3, ImportResource
    <2>3. DOMAIN document.resources = places
      BY <2>1
    <2> HIDE DEF document, places, Lost
    <2> QED
      BY <2>1, <2>2, <2>3 DEF document
  <1>8. \A i \in places : group.resources[i] # Unset
    BY ResourceIsNode DEF CompleteGroup
  <1>9. Unset \in {resources[i] : i \in DOMAIN resources} <=> Lost /\ places # {}
    <2> HIDE DEF Lost, places, resources
    <2> QED
      BY <1>7, <1>8
  <1>10. places # {} <=> group.resources # <<>>
    BY <1>1, EmptyDomain
  <1>11. ImportDocument(document)
           = IF Lost /\ places # {} THEN Unset
             ELSE [type |-> type, version |-> w, own |-> own, resources |-> resources]
    <2>1. document.type = type /\ document.version = w
      BY DEF DocumentOf
    <2>2. (\/ document.version[1] > DocumentVersion[1]
           \/ own = Unset
           \/ Unset \in {resources[i] : i \in DOMAIN resources})
          <=> Lost /\ places # {}
      <3> HIDE DEF document, own, resources, Lost, places
      <3> QED
        BY <1>5, <1>6, <1>9
    <2> HIDE DEF document, Lost, places
    <2> QED
      BY <2>1, <2>2 DEF ImportDocument
  <1>12. ASSUME ~(Lost /\ places # {})
         PROVE  ImportDocument(document)
                  = [type |-> type, version |-> w, own |-> own, resources |-> group.resources]
    <2>1. resources = group.resources
      <3>1. resources = [i \in places |-> group.resources[i]]
        <4> HIDE DEF resources
        <4> QED
          BY <1>7, <1>12
      <3> QED
        BY <1>1, <3>1
    <2> HIDE DEF document, Lost, places, resources, own
    <2> QED
      BY <1>11, <1>12, <2>1
  <1>13. CASE w = Origin
    <2>1. Lost /\ places # {} <=> type = "ResourceGroup" /\ group.resources # <<>>
      BY <1>10, <1>13
    <2>2. ASSUME ~(Lost /\ places # {}) PROVE ImportDocument(document) # Unset
      <3>1. w \in Version
        BY <1>13 DEF Origin, Version
      <3>2. PICK o \in [GroupParameters(type) -> OwnValue] : o = own
        BY <1>3
      <3>3. [type |-> type, version |-> w, own |-> o, resources |-> group.resources]
              \in [version : Version, type : GroupTypes,
                   own : [GroupParameters(type) -> OwnValue], resources : Seq(Nodes)]
        BY <1>1, <3>1
      <3> HIDE DEF document, Lost, places, own
      <3> QED
        BY <1>4, <1>12, <2>2, <3>2, <3>3, UnsetAssumption
    <2>3. ASSUME Lost /\ places # {} PROVE ImportDocument(document) = Unset
      <3> HIDE DEF document, Lost, places, own
      <3> QED
        BY <1>11, <2>3
    <2>4. (ImportDocument(document) = Unset) <=> (Lost /\ places # {})
      <3> HIDE DEF document, Lost, places, own
      <3> QED
        BY <2>2, <2>3
    <2> QED
      BY <1>13, <2>1, <2>4
  <1>14. CASE w # Origin
    <2>1. ~Lost
      BY <1>14
    <2>2. own = group.own
      BY <1>2, <1>14
    <2>3. ImportDocument(document)
            = [type |-> type, version |-> w, own |-> group.own, resources |-> group.resources]
      <3> HIDE DEF document, Lost, places, own
      <3> QED
        BY <1>12, <2>1, <2>2
    <2>4. group = [type |-> group.type, version |-> group.version, own |-> group.own,
                   resources |-> group.resources]
      BY DEF CompleteGroup
    <2>5. [group EXCEPT !.version = w]
            = [type |-> type, version |-> w, own |-> group.own, resources |-> group.resources]
      BY <2>4
    <2> HIDE DEF document
    <2> QED
      BY <1>14, <2>3, <2>5 DEF document
  <1> QED
    BY <1>13, <1>14---------------------------------------------------------------------------
(* The groups that are written.                                            *)

\* What the parameters of a group may be.
LEMMA ObjectOfFile ==
  ASSUME NEW r \in Files \cup {GroupFile}, NEW class \in Classes,
         NEW prefix \in STRING \cup {Unset}, NEW operation \in (Nat \ {0}) \cup {Unset}
  PROVE  Complete(Object(r, class, prefix, operation), class)
  <1>1. /\ r.path \in Nat /\ r.checksum \in STRING /\ r.usize \in Nat
        /\ r.csize \in (Nat \ {0}) \cup {Unset}
    BY FilesAssumption, ParametersAssumption
  <1> QED
    BY <1>1, ObjectIsComplete

LEMMA GroupIsComplete ==
  ASSUME NEW list \in Seq(Files), NEW type \in GroupTypes, NEW version \in GroupVersions,
         NEW prefix \in ResourcePrefixes, NEW operation \in Operations
  PROVE  /\ CompleteGroup(GroupOf(list, type, version, prefix, operation))
         /\ GroupOf(list, type, version, prefix, operation).resources # <<>> <=> list # <<>>
  <1> DEFINE group == GroupOf(list, type, version, prefix, operation)
             class == ClassOf(type)
             removed == [i \in DOMAIN list |-> list[i].path]
             package == Object(GroupFile, "ResourceGroup", Unset, Unset)
  <1>1. /\ prefix \in STRING \cup {Unset} /\ operation \in (Nat \ {0}) \cup {Unset}
        /\ version \in Version
    BY ParametersAssumption
  <1>2. PICK n \in Nat : DOMAIN list = 1..n
    OBVIOUS
  <1>3. \A i \in 1..n : list[i] \in Files
    BY <1>2
  <1>4. removed \in Seq(Nat)
    <2>1. \A i \in 1..n : list[i].path \in Nat
      BY <1>3, FilesAssumption
    <2>2. removed \in [1..n -> Nat]
      BY <1>2, <2>1
    <2> HIDE DEF removed
    <2> QED
      BY <2>2, SeqDef
  <1>5. Complete(package, "ResourceGroup")
    BY ObjectOfFile DEF Classes
  <1>6. package \in Nodes
    <2> HIDE DEF package
    <2> QED
      BY <1>5, ResourceIsNode
  <1>7. /\ group.type = type /\ group.version = version
        /\ group.own = [p \in GroupParameters(type) |->
                          CASE p = "ResourceGroupResource" -> package
                            [] p = "RemovedResourceRelativePaths" -> removed
                            [] OTHER -> 2]
        /\ group.resources = [i \in DOMAIN list |-> Object(list[i], class, prefix, operation)]
        /\ group = [type |-> group.type, version |-> group.version, own |-> group.own,
                    resources |-> group.resources]
    BY DEF GroupOf
  <1>8. ASSUME NEW i \in DOMAIN list
        PROVE  Complete(group.resources[i], class) /\ group.resources[i] \in Nodes
    <2>1. PICK r \in Files : r = list[i]
      BY <1>2, <1>3
    <2>2. class \in Classes
      BY ClassIsClass
    <2>3. group.resources[i] = Object(r, class, prefix, operation)
      BY <1>7, <2>1
    <2> HIDE DEF class, group
    <2>4. Complete(group.resources[i], class)
      BY <1>1, <2>2, <2>3, ObjectOfFile
    <2> QED
      BY <2>4, ResourceIsNode
  <1>9. group.resources \in Seq(Nodes)
    <2>1. group.resources = [i \in 1..n |-> group.resources[i]]
      BY <1>2, <1>7
    <2>2. group.resources \in [1..n -> Nodes]
      <3> HIDE DEF group
      <3> QED
        BY <1>2, <1>8, <2>1
    <2> HIDE DEF group
    <2> QED
      BY <2>2, SeqDef
  <1>10. ASSUME NEW p \in GroupParameters(type)
         PROVE  /\ group.own[p] \in OwnValue
                /\ p = "ResourceGroupResource" => group.own[p] = package
                /\ p = "MaxInputChunkSize" => group.own[p] # Unset
    <2>1. CASE p = "ResourceGroupResource"
      <3>1. group.own[p] = package
        BY <1>7, <2>1
      <3> QED
        BY <1>6, <2>1, <3>1 DEF OwnValue
    <2>2. CASE p = "RemovedResourceRelativePaths"
      <3>1. group.own[p] = removed
        BY <1>7, <2>2
      <3> QED
        BY <1>4, <2>2, <3>1 DEF OwnValue
    <2>3. CASE p # "ResourceGroupResource" /\ p # "RemovedResourceRelativePaths"
      <3>1. group.own[p] = 2
        BY <1>7, <2>3
      <3>2. 2 \in OwnValue
        BY DEF OwnValue
      <3>3. 2 \in Value
        BY DEF Value
      <3>4. 2 # Unset
        BY <3>3, UnsetAssumption
      <3> QED
        BY <2>3, <3>1, <3>2, <3>4
    <2> QED
      BY <2>1, <2>2, <2>3
  <1>11. group.own \in [GroupParameters(type) -> OwnValue]
    <2>1. group.own = [p \in GroupParameters(type) |-> group.own[p]]
      BY <1>7
    <2> HIDE DEF group
    <2> QED
      BY <1>10, <2>1
  <1>12. DOMAIN group.resources = DOMAIN list
    BY <1>7
  <1>13. CompleteGroup(group)
    <2> HIDE DEF group, package
    <2> QED
      BY <1>1, <1>5, <1>7, <1>8, <1>9, <1>10, <1>11, <1>12 DEF CompleteGroup
  <1>14. group.resources # <<>> <=> list # <<>>
    <2> HIDE DEF group
    <2>1. DOMAIN group.resources # {} <=> group.resources # <<>>
      BY <1>9, EmptyDomain
    <2>2. DOMAIN list # {} <=> list # <<>>
      BY EmptyDomain
    <2> QED
      BY <1>12, <2>1, <2>2
  <1> QED
    BY <1>13, <1>14

\* A resource without a compressed size has no row of CSV.
LEMMA RowIsWritten ==
  ASSUME NEW class, NEW r, Complete(r, class)
  PROVE  /\ ExportToCsv(r) = IF r["CompressedSize"] = Unset THEN Unset
                             ELSE NodeOf(r, ResourceParameters \ {"Type"})
         /\ ExportToCsv(r) = Unset <=> r["CompressedSize"] = Unset
  <1> DEFINE row == NodeOf(r, ResourceParameters \ {"Type"})
  <1>1. row # Unset
    <2>1. ResourceParameters \ {"Type"} \in SUBSET ParametersOf(class)
      BY ParameterSets
    <2> QED
      BY <2>1, NodeIsNode
  <1>2. ExportToCsv(r) = IF r["CompressedSize"] = Unset THEN Unset ELSE row
    BY DEF ExportToCsv, NodeOf
  <1> HIDE DEF row
  <1>3. ExportToCsv(r) = Unset <=> r["CompressedSize"] = Unset
    BY <1>1, <1>2
  <1> QED
    BY <1>2, <1>3 DEF row

\* A row is the resource again if it has a prefix.
LEMMA RowRestores ==
  ASSUME NEW r, Complete(r, "Resource"), r["BinaryOperation"] # 0, r["CompressedSize"] # 0,
         ExportToCsv(r) # Unset
  PROVE  ImportFromCsv(ExportToCsv(r)) = r <=> r["Prefix"] # Unset
  <1> DEFINE row == NodeOf(r, ResourceParameters \ {"Type"})
             read == ImportFromCsv(row)
  <1>1. ParametersOf("Resource") = ResourceParameters
    BY ParameterSets
  <1>2. ExportToCsv(r) = row
    BY RowIsWritten
  <1>4. /\ DOMAIN row = {q \in ResourceParameters \ {"Type"} : r[q] # Unset}
        /\ \A p \in DOMAIN row : row[p] = r[p]
    BY DEF NodeOf
  <1>5. /\ r = [p \in ResourceParameters |-> r[p]] /\ r["Type"] = "Resource"
        /\ \A p \in ResourceParameters \ OptionalParameters : r[p] # Unset
    BY <1>1 DEF Complete
  <1>6. /\ "Prefix" \in ResourceParameters /\ "Prefix" # "Type" /\ "Prefix" # "BinaryOperation"
        /\ "Prefix" # "CompressedSize"
    BY DEF ResourceParameters
  <1>7. read["Prefix"] = IF "Prefix" \in DOMAIN row THEN row["Prefix"] ELSE "the path"
    BY <1>6 DEF ImportFromCsv
  <1>8. ASSUME r["Prefix"] = Unset PROVE read # r
    <2>1. "Prefix" \notin DOMAIN row
      BY <1>4, <1>8
    <2>2. read["Prefix"] = "the path"
      BY <1>7, <2>1
    <2>3. "the path" # Unset
      BY UnsetAssumption DEF Value
    <2> HIDE DEF read
    <2> QED
      BY <1>8, <2>2, <2>3
  <1>9. ASSUME r["Prefix"] # Unset PROVE read = r
    <2>1. "Prefix" \in DOMAIN row
      BY <1>4, <1>6, <1>9
    <2>2. ASSUME NEW p \in ResourceParameters PROVE read[p] = r[p]
      <3> DEFINE x == IF p \in DOMAIN row /\ row[p] # 0 THEN row[p] ELSE Unset
      <3>1. CASE p = "Type"
        <4>1. read[p] = "Resource"
          BY <3>1 DEF ImportFromCsv
        <4> QED
          BY <1>5, <3>1, <4>1
      <3>2. CASE p \in {"BinaryOperation", "CompressedSize"}
        <4>1. read[p] = x
          BY <3>2 DEF ImportFromCsv
        <4>2. r[p] # 0 /\ p # "Type"
          BY <3>2
        <4>3. x = r[p]
          <5> HIDE DEF row
          <5> QED
            BY <1>4, <4>2
        <4> QED
          BY <4>1, <4>3
      <3>3. CASE p = "Prefix"
        BY <1>4, <1>7, <2>1, <3>3
      <3>4. CASE p = "RelativePath"
        <4>1. read[p] = row[p]
          BY <2>1, <3>4 DEF ImportFromCsv
        <4>2. p \in DOMAIN row
          BY <1>4, <1>5, <3>4 DEF OptionalParameters
        <4> QED
          BY <1>4, <4>1, <4>2
      <3>5. CASE p \notin {"Type", "BinaryOperation", "CompressedSize", "Prefix", "RelativePath"}
        <4>1. read[p] = row[p]
          BY <3>5 DEF ImportFromCsv
        <4>2. p \notin OptionalParameters /\ p # "Type"
          BY <3>5 DEF OptionalParameters
        <4>3. p \in DOMAIN row
          BY <1>4, <1>5, <4>2
        <4> QED
          BY <1>4, <4>1, <4>3
      <3> QED
        BY <3>1, <3>2, <3>3, <3>4, <3>5
    <2>3. read = [p \in ResourceParameters |-> read[p]]
      BY DEF ImportFromCsv
    <2> HIDE DEF read
    <2> QED
      BY <1>5, <2>2, <2>3
  <1>10. read = r <=> r["Prefix"] # Unset
    <2> HIDE DEF read
    <2> QED
      BY <1>8, <1>9
  <1> QED
    BY <1>2, <1>10

\* A copy is equal, whatever the version, but a patch has none.
LEMMA CopyRestores ==
  ASSUME NEW class \in {"Resource", "BinaryChunk", "BinaryPatch"}, NEW r, Complete(r, class),
         r["BinaryOperation"] # 0, NEW version \in Version
  PROVE  CreateResourceFromResource(r, version) = IF class = "BinaryPatch" THEN Unset ELSE r
  <1>1. r["Type"] = class
    BY DEF Complete
  <1>2. CreateResourceFromResource(r, version) = SetParametersFromResource(r, class, version)
    BY <1>1 DEF CreateResourceFromResource
  <1>3. CASE class = "BinaryPatch"
    BY <1>2, <1>3 DEF SetParametersFromResource
  <1>4. CASE class # "BinaryPatch"
    <2>1. ParametersOf(class) = ResourceParameters
      BY <1>4 DEF ParametersOf
    <2>2. /\ r = [p \in ResourceParameters |-> r[p]]
          /\ \A p \in ResourceParameters \ OptionalParameters : r[p] # Unset
      BY <2>1 DEF Complete
    <2>3. NewResourceInfo(class)["Type"] = class
      BY ParameterSets DEF NewResourceInfo
    <2>4. ~ \E p \in (ResourceParameters \ {"Type"}) \ OptionalParameters : r[p] = Unset
      BY <2>2
    <2>5. SetParametersFromResource(r, class, version)
            = [p \in ResourceParameters |->
                 CASE p \notin ResourceParameters \ {"Type"} -> NewResourceInfo(class)[p]
                   [] p = "BinaryOperation" /\ r[p] = 0 -> Unset
                   [] OTHER -> r[p]]
      BY <1>4, <2>1, <2>4, CopiedParameters DEF SetParametersFromResource
    <2>6. ASSUME NEW p \in ResourceParameters
          PROVE  (CASE p \notin ResourceParameters \ {"Type"} -> NewResourceInfo(class)[p]
                    [] p = "BinaryOperation" /\ r[p] = 0 -> Unset
                    [] OTHER -> r[p]) = r[p]
      <3>1. CASE p = "Type"
        BY <1>1, <2>3, <3>1
      <3>2. CASE p # "Type"
        BY <3>2
      <3> QED
        BY <3>1, <3>2
    <2>7. SetParametersFromResource(r, class, version) = [p \in ResourceParameters |-> r[p]]
      BY <2>5, <2>6
    <2> QED
      BY <1>2, <1>4, <2>2, <2>7
  <1> QED
    BY <1>3, <1>4
LEMMA RestoresGroups ==
  ASSUME NEW list \in Seq(Files), NEW type \in GroupTypes, NEW version \in GroupVersions,
         NEW prefix \in ResourcePrefixes, NEW operation \in Operations
  PROVE  LET group    == GroupOf(list, type, version, prefix, operation)
             document == ExportYaml(group, DocumentVersion)
             read     == ImportDocument(document)
         IN  /\ document # Unset
             /\ IF version = Origin
                THEN read = Unset <=> type = "ResourceGroup" /\ list # <<>>
                ELSE read = [group EXCEPT !.version = DocumentVersion]
  <1> DEFINE group == GroupOf(list, type, version, prefix, operation)
             w == ExportedVersion(DocumentVersion, version)
  <1>1. CompleteGroup(group) /\ (group.resources # <<>> <=> list # <<>>)
    BY GroupIsComplete
  <1>2. group.type = type /\ group.version = version
    BY DEF GroupOf
  <1>3. w = IF version = Origin THEN Origin ELSE DocumentVersion
    BY DocumentVersions, ParametersAssumption
  <1>4. w \in ExportedVersions
    BY <1>3 DEF ExportedVersions
  <1>5. Origin # DocumentVersion
    BY DEF Origin, DocumentVersion
  <1> HIDE DEF group, w
  <1>6. /\ ExportYaml(group, DocumentVersion) = DocumentOf(group, w)
        /\ DocumentOf(group, w) # Unset
    BY <1>1, <1>2, <1>4, ExportGroup DEF w
  <1>7. IF w = Origin
        THEN ImportDocument(DocumentOf(group, w)) = Unset
               <=> group.type = "ResourceGroup" /\ group.resources # <<>>
        ELSE ImportDocument(DocumentOf(group, w)) = [group EXCEPT !.version = w]
    BY <1>1, <1>4, ImportGroup
  <1>8. CASE version = Origin
    BY <1>1, <1>2, <1>3, <1>6, <1>7, <1>8 DEF group
  <1>9. CASE version # Origin
    <2>1. w = DocumentVersion /\ w # Origin
      BY <1>3, <1>5, <1>9
    <2>2. ImportDocument(ExportYaml(group, DocumentVersion))
            = [group EXCEPT !.version = DocumentVersion]
      BY <1>6, <1>7, <2>1
    <2> QED
      BY <1>6, <1>9, <2>2 DEF group
  <1> QED
    BY <1>8, <1>9

LEMMA RestoresResources ==
  ASSUME NEW list \in Seq(Files), NEW type \in GroupTypes, NEW version \in GroupVersions,
         NEW prefix \in ResourcePrefixes, NEW operation \in Operations,
         NEW i \in DOMAIN list
  PROVE  LET r    == GroupOf(list, type, version, prefix, operation).resources[i]
             row  == ExportToCsv(r)
             copy == CreateResourceFromResource(r, version)
         IN  /\ row = Unset <=> r["CompressedSize"] = Unset
             /\ type = "ResourceGroup" /\ row # Unset
                  => (ImportFromCsv(row) = r <=> prefix # Unset)
             /\ copy = IF type = "PatchGroup" THEN Unset ELSE r
  <1> DEFINE class == ClassOf(type)
  <1>1. /\ prefix \in STRING \cup {Unset} /\ operation \in (Nat \ {0}) \cup {Unset}
        /\ version \in Version
    BY ParametersAssumption
  <1>2. PICK f \in Files : f = list[i]
    OBVIOUS
  <1>3. PICK r : r = Object(f, class, prefix, operation)
    OBVIOUS
  <1>4. GroupOf(list, type, version, prefix, operation).resources[i] = r
    BY <1>2, <1>3 DEF GroupOf
  <1>5. class \in Classes /\ class \in {"Resource", "BinaryChunk", "BinaryPatch"}
        /\ (type = "ResourceGroup" => class = "Resource")
        /\ (class = "BinaryPatch" <=> type = "PatchGroup")
    BY DEF ClassOf, Classes, GroupTypes
  <1> HIDE DEF class
  <1>6. Complete(r, class)
    BY <1>1, <1>3, <1>5, ObjectOfFile
  <1>7. /\ r["BinaryOperation"] = operation /\ r["CompressedSize"] = f.csize
        /\ r["Prefix"] = prefix
    <2>1. {"BinaryOperation", "CompressedSize", "Prefix"} \subseteq ParametersOf(class)
      BY ParameterSets DEF OptionalParameters
    <2> QED
      BY <1>3, <2>1 DEF Object
  <1>8. operation # 0 /\ f.csize # 0
    <2>1. 0 # Unset
      <3>1. 0 \in Value
        BY DEF Value
      <3> QED
        BY <3>1, UnsetAssumption
    <2>2. f.csize \in (Nat \ {0}) \cup {Unset}
      BY ParametersAssumption
    <2> QED
      BY <1>1, <2>1, <2>2
  <1>9. ExportToCsv(r) = Unset <=> r["CompressedSize"] = Unset
    BY <1>6, RowIsWritten
  <1>10. ASSUME type = "ResourceGroup", ExportToCsv(r) # Unset
         PROVE  ImportFromCsv(ExportToCsv(r)) = r <=> prefix # Unset
    BY <1>5, <1>6, <1>7, <1>8, <1>10, RowRestores
  <1>11. CreateResourceFromResource(r, version) = IF type = "PatchGroup" THEN Unset ELSE r
    BY <1>1, <1>5, <1>6, <1>7, <1>8, CopyRestores
  <1> QED
    BY <1>4, <1>9, <1>10, <1>11

\* A group of any kind, of any version and of any number of resources is
\* restored from the document ExportToFile writes of it, but for what the
\* code loses: the plain groups of version 0.0.0, and the paths of rows of
\* CSV without a prefix.
THEOREM DocumentsCorrect == Spec => []DocumentsRestoreGroups
  <1>1. ListsTypeOK => DocumentsRestoreGroups
    <2> SUFFICES ASSUME ListsTypeOK,
                        NEW type \in GroupTypes, NEW version \in GroupVersions,
                        NEW prefix \in ResourcePrefixes, NEW operation \in Operations
                 PROVE  LET group    == GroupOf(this, type, version, prefix, operation)
                            document == ExportYaml(group, DocumentVersion)
                            read     == ImportDocument(document)
                        IN  /\ document # Unset
                            /\ IF version = <<0, 0, 0>>
                               THEN (read = Unset) = (type = "ResourceGroup" /\ this # <<>>)
                               ELSE read = [group EXCEPT !.version = DocumentVersion]
                            /\ \A i \in DOMAIN this :
                                 LET r    == group.resources[i]
                                     row  == ExportToCsv(r)
                                     copy == CreateResourceFromResource(r, version)
                                 IN  /\ (row = Unset) = (r["CompressedSize"] = Unset)
                                     /\ type = "ResourceGroup" /\ row # Unset
                                          => (ImportFromCsv(row) = r) = (prefix # Unset)
                                     /\ copy = IF type = "PatchGroup" THEN Unset ELSE r
      BY DEF DocumentsRestoreGroups
    <2> DEFINE group == GroupOf(this, type, version, prefix, operation)
               document == ExportYaml(group, DocumentVersion)
               read == ImportDocument(document)
    <2>1. this \in Seq(Files)
      BY DEF ListsTypeOK
    <2>2. /\ document # Unset
          /\ IF version = Origin
             THEN read = Unset <=> type = "ResourceGroup" /\ this # <<>>
             ELSE read = [group EXCEPT !.version = DocumentVersion]
      BY <2>1, RestoresGroups
    <2>3. ASSUME NEW i \in DOMAIN this
          PROVE  LET r    == group.resources[i]
                     row  == ExportToCsv(r)
                     copy == CreateResourceFromResource(r, version)
                 IN  /\ (row = Unset) = (r["CompressedSize"] = Unset)
                     /\ type = "ResourceGroup" /\ row # Unset
                          => (ImportFromCsv(row) = r) = (prefix # Unset)
                     /\ copy = IF type = "PatchGroup" THEN Unset ELSE r
      <3>1. PICK r : r = group.resources[i]
        OBVIOUS
      <3>2. /\ ExportToCsv(r) = Unset <=> r["CompressedSize"] = Unset
            /\ type = "ResourceGroup" /\ ExportToCsv(r) # Unset
                 => (ImportFromCsv(ExportToCsv(r)) = r <=> prefix # Unset)
            /\ CreateResourceFromResource(r, version)
                 = IF type = "PatchGroup" THEN Unset ELSE r
        BY <2>1, <3>1, RestoresResources
      <3> HIDE DEF group
      <3> QED
        BY <3>1, <3>2, Zenon
    <2>4. (version = Origin) => (read = Unset) = (type = "ResourceGroup" /\ this # <<>>)
      <3> HIDE DEF read
      <3> QED
        BY <2>2, Zenon
    <2>5. (version # Origin) => read = [group EXCEPT !.version = DocumentVersion]
      <3> HIDE DEF read
      <3> QED
        BY <2>2
    <2> HIDE DEF group, document, read
    <2> QED
      BY <2>2, <2>3, <2>4, <2>5, Zenon DEF Origin, group, document, read
  <1> QED
    BY <1>1, ListsTypeCorrect, PTL
===========================================================================

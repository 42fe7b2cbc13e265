-------------------------- MODULE ResourceLists --------------------------
(***************************************************************************)
(* Lists of resources, as ResourceGroupImpl sorts, unites and compares     *)
(* them.  ResourceInfo::operator< and operator== look at the relative path *)
(* only, so the standard algorithms work on the groups of entries that     *)
(* share a path: set_union keeps the first list's entries of a path and    *)
(* those of the second beyond their number, set_difference keeps the       *)
(* entries of the first beyond the number in the second, and               *)
(* set_intersection keeps as many entries of the first as both have.       *)
(* A relative path is a number, so that paths are ordered.                 *)
(***************************************************************************)
EXTENDS Naturals, Sequences, SequencesExt, Orders

CONSTANT Unset          \* a parameter that holds no value

\* The entries at some places, in their order.
Selected(list, places) ==
  LET selected[n \in 0..Len(list)] ==
        IF n = 0 THEN <<>>
        ELSE IF n \in places THEN Append(selected[n - 1], list[n])
        ELSE selected[n - 1]
  IN  selected[Len(list)]

AtPath(list, p) == Selected(list, {i \in DOMAIN list : list[i].path = p})

PathsOf(list) == {list[i].path : i \in DOMAIN list}

UniquePaths(list) ==
  \A i, j \in DOMAIN list : list[i].path = list[j].path => i = j

Beyond(list, n) == SubSeq(list, n + 1, Len(list))

\* A list of which parts[p] are the entries with path p.
InPathOrder(parts) ==
  LET order == Ascending(DOMAIN parts)
  IN  FlattenSeq([i \in 1..Len(order) |-> parts[order[i]]])

\* std::sort by relative path: entries of the same path end in any order.
Permutes(q, D) == q \in [D -> D] /\ \A j \in D : \E i \in D : q[i] = j

SortedLists(list) ==
  {[i \in DOMAIN list |-> list[q[i]]] :
     q \in {p \in [DOMAIN list -> DOMAIN list] :
              /\ Permutes(p, DOMAIN list)
              /\ \A i, j \in DOMAIN list :
                   i < j => list[p[i]].path <= list[p[j]].path}}

SetUnion(first, second) ==
  InPathOrder([p \in PathsOf(first) \cup PathsOf(second) |->
                 AtPath(first, p)
                   \o Beyond(AtPath(second, p), Len(AtPath(first, p)))])

SetDifference(first, second) ==
  InPathOrder([p \in PathsOf(first) |->
                 Beyond(AtPath(first, p), Len(AtPath(second, p)))])

SetIntersection(first, second) ==
  InPathOrder([p \in PathsOf(first) \cap PathsOf(second) |->
                 SubSeq(AtPath(first, p), 1,
                        Min({Len(AtPath(first, p)), Len(AtPath(second, p))}))])
--------------------------------------------------------------------------
\* A plausible slip: the union is taken the other way round.
UnionOfThisFirst(this, other) == SetUnion(this, other)

\* Merge: the list of the group that is merged in comes first, so its
\* entries win.  Both arguments are sorted.
MergedList(this, other) == SetUnion(other, this)

\* lower_bound: the first entry of the sorted list with the path of r.
Counterpart(sorted, r) == AtPath(sorted, r.path)[1]

\* A plausible slip: an unchanged size is taken for unchanged data.
ChangedInSize(latest, previous) ==
  LET common == SetIntersection(latest, previous)
  IN  Selected(common, {i \in DOMAIN common :
                          common[i].usize # Counterpart(previous, common[i]).usize})

\* The resources of both lists whose data differs, as the latest has them.
Changed(latest, previous) ==
  LET common == SetIntersection(latest, previous)
  IN  Selected(common, {i \in DOMAIN common :
                          common[i].checksum # Counterpart(previous, common[i]).checksum})

\* The entry Diff puts in the first result for a resource that is new.
Dummy(r) ==
  [path |-> r.path, checksum |-> Unset, usize |-> 0, csize |-> Unset,
   type |-> "Resource"]

\* Diff of the sorted list `latest` against the sorted list `previous`:
\* result1 (previous state) and result2 (latest state) are walked in
\* parallel by CreatePatch; removed is the list of paths that are gone.
Diff(latest, previous) ==
  LET changed == Changed(latest, previous)
      added   == SetDifference(latest, previous)
      gone    == SetDifference(previous, latest)
  IN  [result1 |-> [i \in DOMAIN changed |-> Counterpart(previous, changed[i])]
                   \o [i \in DOMAIN added |-> Dummy(added[i])],
       result2 |-> changed \o added,
       removed |-> [i \in DOMAIN gone |-> gone[i].path]]

\* A plausible slip: the lists of the two groups change places.
ChangesSwapped(diff) ==
  [additions |-> ToSet(diff.removed), subtractions |-> PathsOf(diff.result1)]

\* DiffChangesAsLists: what Diff found, as the two lists of paths.
DiffChangesAsLists(diff) ==
  [additions |-> PathsOf(diff.result1), subtractions |-> ToSet(diff.removed)]
=============================================================================

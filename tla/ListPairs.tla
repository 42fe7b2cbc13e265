---------------------------- MODULE ListPairs ----------------------------
(***************************************************************************)
(* The lists of two groups, and what Merge and Diff make of them.  A list  *)
(* grows one resource at a time, in any order and with any number of       *)
(* entries for one path, as CSV and YAML imports may leave it.             *)
(***************************************************************************)
EXTENDS ResourceLists

CONSTANTS
  Files,          \* the resources that exist
  MaxLength       \* bound: the longest list

ASSUME FilesAssumption == \A r \in Files : r.path \in Nat

VARIABLES this, other

Init == this = <<>> /\ other = <<>>

\* AddResource.
Grow(list) ==
  /\ Len(list) < MaxLength
  /\ \E r \in Files : list' = Append(list, r)

Next ==
  \/ Grow(this) /\ UNCHANGED other
  \/ Grow(other) /\ UNCHANGED this

Spec == Init /\ [][Next]_<<this, other>>

\* Merging two groups loses no path and makes up none, lists no path twice
\* that neither group listed twice, and takes the entry of the group that
\* is merged in where both have one (ResourceGroup.h: the merge group takes
\* precedence).
MergeUnion ==
  \A a \in SortedLists(this), b \in SortedLists(other) :
    LET merged == MergedList(a, b)
    IN  /\ PathsOf(merged) = PathsOf(a) \cup PathsOf(b)
        /\ UniquePaths(a) /\ UniquePaths(b) => UniquePaths(merged)
        /\ \A p \in PathsOf(b) : AtPath(merged, p)[1] = AtPath(b, p)[1]

\* Diff gives CreatePatch two lists it can walk in parallel, and what it
\* gives is enough to turn the previous state into the latest one: delete
\* the removed paths, overlay the second result, keep the rest.
DiffReconstructs ==
  UniquePaths(this) /\ UniquePaths(other) =>
    \A latest \in SortedLists(this), previous \in SortedLists(other) :
      LET d    == Diff(latest, previous)
          kept == PathsOf(previous)
                    \ (ToSet(d.removed) \cup PathsOf(d.result2))
      IN  /\ Len(d.result1) = Len(d.result2)
          /\ \A i \in DOMAIN d.result1 :
               d.result1[i].path = d.result2[i].path
          /\ kept \cup PathsOf(d.result2) = PathsOf(latest)
          /\ \A i \in DOMAIN latest :
               IF latest[i].path \in kept
               THEN latest[i].checksum
                      = Counterpart(previous, latest[i]).checksum
               ELSE latest[i] \in ToSet(d.result2)

\* The lists of diff-group (ResourceGroup.h: the paths added or modified,
\* and the paths removed) name every path of which the groups disagree, and
\* no path of which they agree; a path is in at most one of them.
DiffListsExact ==
  UniquePaths(this) /\ UniquePaths(other) =>
    \A latest \in SortedLists(this), previous \in SortedLists(other) :
      LET lists == DiffChangesAsLists(Diff(latest, previous))
          Data(list, p) == {r.checksum : r \in ToSet(AtPath(list, p))}
      IN  /\ lists.additions \cap lists.subtractions = {}
          /\ lists.subtractions = PathsOf(previous) \ PathsOf(latest)
          /\ lists.additions \cup lists.subtractions =
               {p \in PathsOf(latest) \cup PathsOf(previous) :
                  Data(latest, p) # Data(previous, p)}
=============================================================================

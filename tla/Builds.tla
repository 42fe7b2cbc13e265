------------------------------ MODULE Builds ------------------------------
(***************************************************************************)
(* What CreatePatch and Apply share: the two builds of a product and the   *)
(* patch package that leads from one to the other.                         *)
(*                                                                         *)
(* A relative path is a number, so that paths are ordered; a build maps    *)
(* every path to the bytes of the file there, or to Absent.  The resource  *)
(* groups of the builds describe their files as they are, so the size and  *)
(* the checksum of a resource are those of the file.                       *)
(*                                                                         *)
(* A package is what CreatePatch exports: group, the changed and the new   *)
(* resources; removed, the paths that are gone; patches, the resources of  *)
(* type BinaryPatch.  A patch without data (hasData) copies size bytes of  *)
(* the old file from sourceOffset on.  One with data is the difference     *)
(* that makes result out of base; base is not part of the file, Apply has  *)
(* to read the same bytes again.                                           *)
(*                                                                         *)
(* A scenario has the two builds; the build Apply is given, which should   *)
(* be the previous one; the package, when another version of the tool has  *)
(* made it and not CreatePatch; whether Apply writes into the build it     *)
(* reads (inPlace) or into a copy of it; whether the disk may fail and the *)
(* process die (troubled); and how often Apply is called.                  *)
(***************************************************************************)
EXTENDS FileStreams, Orders

CONSTANTS
  Paths,          \* the relative paths, numbers
  Byte,           \* the bytes, numbers
  Absent,         \* no file at a path
  NoPackage,
  Scenarios       \* the builds, and the way they are patched: records

IsBuild(build) == build \in [Paths -> {Absent} \cup Seq(Byte)]

\* What is known of a package, whichever tool has made it for a scenario.
IsPackage(pack, s) ==
  /\ pack.chunkSize \in Nat \ {0}
  /\ pack.group \in Seq(Paths)
  /\ {pack.group[i] : i \in DOMAIN pack.group}
       = {p \in Paths : s.next[p] # Absent /\ s.next[p] # s.previous[p]}
  /\ pack.removed \in Seq(Paths)
  /\ {pack.removed[i] : i \in DOMAIN pack.removed}
       = {p \in Paths : s.previous[p] # Absent /\ s.next[p] = Absent}
  /\ pack.patches \in
       Seq([target : Paths, dataOffset : Nat, sourceOffset : Nat, size : Nat,
            base : Seq(Byte), result : Seq(Byte), hasData : BOOLEAN])

ASSUME ScenariosAssumption ==
  /\ Paths \subseteq Nat
  /\ IsFiniteSet(Paths)
  /\ Byte \subseteq Nat
  /\ Absent \notin Seq(Byte)
  /\ \A s \in Scenarios :
       /\ IsBuild(s.previous)
       /\ IsBuild(s.next)
       /\ IsBuild(s.given)
       /\ s.chunkSize \in Nat \ {0}       \* SetMaxInputChunkSize refuses 0
       /\ s.package = NoPackage \/ IsPackage(s.package, s)
       /\ s.inPlace \in BOOLEAN
       /\ s.troubled \in BOOLEAN
       /\ s.calls \in Nat

VARIABLES
  builds,         \* the scenario: never changes
  package         \* what CreatePatch has exported, or NoPackage

previous == builds.previous

next == builds.next

given == builds.given

chunkSize == builds.chunkSize

Present(build) == {p \in Paths : build[p] # Absent}

\* The resources of both builds that changed, and those that are new, each
\* in the order of their paths: ResourceLists!Diff.
ChangedPaths ==
  {p \in Present(previous) \cap Present(next) : previous[p] # next[p]}

NewPaths == Present(next) \ Present(previous)

RemovedPaths == Present(previous) \ Present(next)

\* The patches of a list that are for a path, in the order of the list.
PatchesOf(list, path) ==
  LET order == Ascending({i \in DOMAIN list : list[i].target = path})
  IN  [k \in DOMAIN order |-> list[order[k]]]
==========================================================================

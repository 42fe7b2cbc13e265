--------------------------- MODULE PatchProofs ---------------------------
(***************************************************************************)
(* Proofs about CreatePatch and Apply: for every pair of builds, any       *)
(* package of another version, every chunk size, modulus and size of an    *)
(* index file, index files that cannot be written, and any number of       *)
(* calls, failures and crashes of Apply.                                   *)
(***************************************************************************)
EXTENDS Patch, ChunkIndexProofs, FiniteSetTheorems, FunctionTheorems,
        SequenceTheorems, TLAPS

Content == {Absent} \cup Seq(Byte)

--------------------------------------------------------------------------
(* The inductive invariant of Apply, in parts.                             *)

\* The package lists the files that Apply has to write and to remove.
Lists(pack) ==
  /\ pack.chunkSize \in Nat \ {0}
  /\ pack.group \in Seq(Paths)
  /\ {pack.group[i] : i \in DOMAIN pack.group} = Patched
  /\ pack.removed \in Seq(Paths)
  /\ {pack.removed[i] : i \in DOMAIN pack.removed} = RemovedPaths

PackageInv ==
  /\ builds \in Scenarios
  /\ package # NoPackage => Lists(package)
  /\ builds.package = NoPackage /\ stage # "created" => package = NoPackage

\* What the loops of Apply are at.
PlaceInv ==
  /\ phase \in {"idle", "loading", "resource", "patch", "fresh", "check",
                "open", "copy", "remove", "tidy"}
  /\ phase # "idle" => package # NoPackage /\ result = NoResult
  /\ result = "SUCCESS" => package # NoPackage
  /\ at \in Nat \ {0}
  /\ phase \in {"patch", "fresh", "check", "open", "copy"} => at <= Len(Group)
  /\ phase = "tidy" => at <= Len(Removed)
  /\ destination \in [Paths -> Content]

\* The temporary file was checked, and is copied from its beginning on.
CopyInv ==
  /\ phase \in {"open", "copy"} =>
       /\ temp \in Beginnings(Expected)
       /\ unnoticed \/ temp = Expected
  /\ phase = "copy" => destination[Target] \in Beginnings(temp)

\* The files the loop has passed are in place.  One of them may be written
\* once more, if a package lists it twice.
PlacedInv ==
  ~unnoticed =>
    /\ phase \in {"resource", "patch", "fresh", "check", "open", "copy"} =>
         \A i \in 1..Len(Group) :
           i < at => \/ destination[Group[i]] = next[Group[i]]
                     \/ phase = "copy" /\ Group[i] = Target
    /\ phase \in {"remove", "tidy"} \/ result = "SUCCESS" =>
         \A p \in Patched : destination[p] = next[p]

RemovedInv ==
  /\ phase \in {"remove", "tidy"} =>
       \A j \in 1..Len(Removed) :
         j < at \/ (j = at /\ phase = "tidy") =>
           destination[Removed[j]] = Absent \/ warned
  /\ result = "SUCCESS" =>
       \A p \in RemovedPaths : destination[p] = Absent \/ warned

HasFile(f, build) == \E p \in Paths : FolderOf[p] = f /\ build[p] # Absent

HasFolder(f, existing) == \E g \in existing : f \in Above[g]

\* LostSubfolderLast, of a list of removed paths.
LostLast(f, list) ==
  \E j \in 1..Len(list) :
    /\ f \in Above[FolderOf[list[j]]]
    /\ \A i \in 1..Len(list) : FolderOf[list[i]] = f => i < j

\* A folder that has lost its last file is looked at again by every call; one
\* that has lost its last folder only if a path in it comes later.
FoldersInv ==
  \A f \in folders :
    \/ HasFile(f, destination)
    \/ HasFolder(f, folders)
    \/ package # NoPackage /\ LostLast(f, Removed)
    \/ /\ package # NoPackage /\ result # "SUCCESS"
       /\ \E j \in 1..Len(Removed) :
            /\ FolderOf[Removed[j]] = f
            /\ phase \in {"remove", "tidy"} => j >= at

ApplyInv ==
  /\ PackageInv
  /\ PlaceInv
  /\ NoMixture
  /\ CopyInv
  /\ PlacedInv
  /\ RemovedInv
  /\ FoldersInv
--------------------------------------------------------------------------
(* What every step of Apply needs to know.                                 *)

LEMMA BuildsTyped ==
  ASSUME builds \in Scenarios
  PROVE  /\ previous \in [Paths -> Content]
         /\ next \in [Paths -> Content]
         /\ given \in [Paths -> Content]
         /\ chunkSize \in Nat \ {0}
         /\ Absent \notin Seq(Byte)
         /\ builds.package # NoPackage => IsPackage(builds.package, builds)
  BY ScenariosAssumption DEF IsBuild, Content, previous, next, given, chunkSize

\* The paths of a package are those on which the builds differ.
LEMMA PatchedPaths ==
  /\ Patched = {p \in Paths : next[p] # Absent /\ next[p] # previous[p]}
  /\ RemovedPaths = {p \in Paths : previous[p] # Absent /\ next[p] = Absent}
  BY DEF Patched, ChangedPaths, NewPaths, RemovedPaths, Present

LEMMA SubsetsOfPaths ==
  ASSUME NEW S \in SUBSET Paths
  PROVE  /\ S \subseteq Nat
         /\ IsFiniteSet(S)
         /\ Ascending(S) \in Seq(Paths)
         /\ {Ascending(S)[i] : i \in DOMAIN Ascending(S)} = S
  <1>1. S \subseteq Nat /\ IsFiniteSet(S)
    BY ScenariosAssumption, FS_Subset
  <1>2. /\ Ascending(S) \in Seq(S)
        /\ {Ascending(S)[i] : i \in DOMAIN Ascending(S)} = S
    BY <1>1, AscendingProperties
  <1>3. Ascending(S) \in Seq(Paths)
    BY <1>2, SeqMonotonic
  <1> QED
    BY <1>1, <1>2, <1>3

\* The pairs are the changed and the new paths.
LEMMA PairsListed ==
  /\ Pairs \in Seq(Paths)
  /\ {Pairs[i] : i \in DOMAIN Pairs} = Patched
  <1> DEFINE c == Ascending(ChangedPaths)
             n == Ascending(NewPaths)
  <1>1. ChangedPaths \in SUBSET Paths /\ NewPaths \in SUBSET Paths
    BY DEF ChangedPaths, NewPaths, Present
  <1>2. /\ c \in Seq(Paths) /\ {c[i] : i \in DOMAIN c} = ChangedPaths
        /\ n \in Seq(Paths) /\ {n[i] : i \in DOMAIN n} = NewPaths
    BY <1>1, SubsetsOfPaths
  <1>3. Pairs = c \o n
    BY DEF Pairs
  <1> HIDE DEF c, n
  <1>4. /\ Pairs \in Seq(Paths)
        /\ Len(Pairs) = Len(c) + Len(n)
        /\ Len(c) \in Nat /\ Len(n) \in Nat
        /\ DOMAIN c = 1..Len(c) /\ DOMAIN n = 1..Len(n) /\ DOMAIN Pairs = 1..Len(Pairs)
        /\ \A i \in 1..Len(Pairs) :
             Pairs[i] = IF i <= Len(c) THEN c[i] ELSE n[i - Len(c)]
    BY <1>2, <1>3
  <1>5. ASSUME NEW i \in DOMAIN Pairs
        PROVE  Pairs[i] \in Patched
    <2>1. CASE i <= Len(c)
      <3>1. Pairs[i] = c[i] /\ i \in DOMAIN c
        BY <1>4, <2>1
      <3> QED
        BY <1>2, <3>1 DEF Patched
    <2>2. CASE ~(i <= Len(c))
      <3>1. Pairs[i] = n[i - Len(c)] /\ i - Len(c) \in DOMAIN n
        BY <1>4, <2>2
      <3> QED
        BY <1>2, <3>1 DEF Patched
    <2> QED
      BY <2>1, <2>2
  <1>6. ASSUME NEW p \in Patched
        PROVE  \E i \in DOMAIN Pairs : Pairs[i] = p
    <2>1. CASE p \in ChangedPaths
      <3>1. PICK i \in DOMAIN c : c[i] = p
        BY <1>2, <2>1
      <3>2. i \in DOMAIN Pairs /\ Pairs[i] = p
        BY <1>4, <3>1
      <3> QED
        BY <3>2
    <2>2. CASE p \in NewPaths
      <3>1. PICK i \in DOMAIN n : n[i] = p
        BY <1>2, <2>2
      <3>2. /\ i + Len(c) \in DOMAIN Pairs
            /\ ~(i + Len(c) <= Len(c))
            /\ (i + Len(c)) - Len(c) = i
        BY <1>4, <3>1
      <3>3. Pairs[i + Len(c)] = p
        BY <1>4, <3>1, <3>2
      <3> QED
        BY <3>2, <3>3
    <2> QED
      BY <2>1, <2>2 DEF Patched
  <1> QED
    BY <1>4, <1>5, <1>6

\* What is a beginning of a file of bytes.
LEMMA BeginningFacts ==
  ASSUME NEW f \in Seq(Byte), NEW b
  PROVE  b \in Beginnings(f) <=>
           /\ b \in Seq(Byte)
           /\ Len(b) <= Len(f)
           /\ \A i \in 1..Len(b) : b[i] = f[i]
  <1>1. ASSUME NEW n \in 0..Len(f)
        PROVE  /\ SubSeq(f, 1, n) \in Seq(Byte)
               /\ Len(SubSeq(f, 1, n)) = n
               /\ \A i \in 1..n : SubSeq(f, 1, n)[i] = f[i]
    BY SubSeqProperties
  <1>2. ASSUME b \in Beginnings(f)
        PROVE  /\ b \in Seq(Byte)
               /\ Len(b) <= Len(f)
               /\ \A i \in 1..Len(b) : b[i] = f[i]
    <2>1. PICK n \in 0..Len(f) : b = SubSeq(f, 1, n)
      BY <1>2 DEF Beginnings
    <2> QED
      BY <1>1, <2>1
  <1>3. ASSUME b \in Seq(Byte), Len(b) <= Len(f), \A i \in 1..Len(b) : b[i] = f[i]
        PROVE  b \in Beginnings(f)
    <2>1. Len(b) \in 0..Len(f)
      BY <1>3
    <2>2. SubSeq(f, 1, Len(b)) = b
      BY <1>1, <1>3, <2>1, SeqEqual
    <2> QED
      BY <2>1, <2>2 DEF Beginnings
  <1> QED
    BY <1>2, <1>3

LEMMA WholeAndNothing ==
  ASSUME NEW f \in Seq(Byte)
  PROVE  f \in Beginnings(f) /\ <<>> \in Beginnings(f)
  <1>1. <<>> \in Seq(Byte) /\ Len(<<>>) = 0 /\ Len(f) \in Nat
    OBVIOUS
  <1>2. f \in Beginnings(f)
    BY <1>1, BeginningFacts
  <1>3. Len(<<>>) <= Len(f) /\ \A i \in 1..Len(<<>>) : <<>>[i] = f[i]
    BY <1>1
  <1> QED
    BY <1>1, <1>2, <1>3, BeginningFacts

LEMMA BeginningOfBeginning ==
  ASSUME NEW f \in Seq(Byte), NEW b \in Beginnings(f), NEW a \in Beginnings(b)
  PROVE  a \in Beginnings(f)
  <1>1. b \in Seq(Byte) /\ Len(b) <= Len(f) /\ \A i \in 1..Len(b) : b[i] = f[i]
    BY BeginningFacts
  <1>2. a \in Seq(Byte) /\ Len(a) <= Len(b) /\ \A i \in 1..Len(a) : a[i] = b[i]
    BY <1>1, BeginningFacts
  <1>3. Len(a) <= Len(f) /\ \A i \in 1..Len(a) : a[i] = f[i]
    BY <1>1, <1>2
  <1> QED
    BY <1>2, <1>3, BeginningFacts

\* A beginning of a file and the piece that follows are a beginning of it.
LEMMA PieceFollows ==
  ASSUME NEW f \in Seq(Byte), NEW b \in Beginnings(f), NEW c \in Nat
  PROVE  b \o Piece(f, Len(b), c) \in Beginnings(f)
  <1> DEFINE n == Least(Len(b) + c, Len(f))
             q == SubSeq(f, Len(b) + 1, n)
             r == b \o q
  <1>1. b \in Seq(Byte) /\ Len(b) <= Len(f) /\ \A i \in 1..Len(b) : b[i] = f[i]
    BY BeginningFacts
  <1>2. n \in Nat /\ Len(b) <= n /\ n <= Len(f)
    BY <1>1 DEF Least
  <1>3. Piece(f, Len(b), c) = q
    BY DEF Piece
  <1> HIDE DEF n
  <1>4. q \in Seq(Byte)
    BY <1>1, <1>2, SubSeqProperties
  <1>5. Len(q) = n - Len(b)
    BY <1>1, <1>2
  <1>6. \A i \in 1..(n - Len(b)) : q[i] = f[Len(b) + i]
    <2>1. Len(b) + 1 \in 1..(Len(f) + 1) /\ n \in Len(b)..Len(f)
      BY <1>1, <1>2
    <2>2. \A i \in 1..(n - (Len(b) + 1) + 1) : q[i] = f[(Len(b) + 1) + i - 1]
      BY <2>1, SubSeqProperties
    <2>3. n - (Len(b) + 1) + 1 = n - Len(b)
      BY <1>1, <1>2
    <2>4. \A i \in 1..(n - Len(b)) : (Len(b) + 1) + i - 1 = Len(b) + i
      BY <1>1, <1>2
    <2> HIDE DEF q
    <2> QED
      BY <2>2, <2>3, <2>4
  <1> HIDE DEF q
  <1>7. r \in Seq(Byte) /\ Len(r) = n
    BY <1>1, <1>2, <1>4, <1>5
  <1>8. ASSUME NEW i \in 1..n
        PROVE  r[i] = f[i]
    <2>1. CASE i <= Len(b)
      BY <1>1, <1>2, <1>4, <1>5, <2>1
    <2>2. CASE ~(i <= Len(b))
      <3>1. r[i] = q[i - Len(b)] /\ i - Len(b) \in 1..(n - Len(b))
        BY <1>1, <1>2, <1>4, <1>5, <2>2
      <3> QED
        BY <1>1, <1>2, <1>6, <3>1
    <2> QED
      BY <2>1, <2>2
  <1> HIDE DEF r
  <1> QED
    BY <1>2, <1>3, <1>7, <1>8, BeginningFacts DEF r
--------------------------------------------------------------------------
(* The lists of the package, and what no step of Apply changes.            *)

LEMMA ListFacts ==
  ASSUME PackageInv, package # NoPackage
  PROVE  /\ Len(Group) \in Nat /\ Len(Removed) \in Nat
         /\ \A i \in 1..Len(Group) : Group[i] \in Patched
         /\ \A p \in Patched : \E i \in 1..Len(Group) : Group[i] = p
         /\ \A j \in 1..Len(Removed) : Removed[j] \in RemovedPaths
         /\ \A p \in RemovedPaths : \E j \in 1..Len(Removed) : Removed[j] = p
         /\ \A p \in Patched : p \in Paths /\ p \notin RemovedPaths /\ next[p] \in Seq(Byte)
         /\ \A p \in RemovedPaths : p \in Paths /\ next[p] = Absent
         /\ package.chunkSize \in Nat \ {0}
  <1>1. Lists(package)
    BY DEF PackageInv
  <1>2. /\ Group \in Seq(Paths) /\ {Group[i] : i \in DOMAIN Group} = Patched
        /\ Removed \in Seq(Paths) /\ {Removed[j] : j \in DOMAIN Removed} = RemovedPaths
        /\ package.chunkSize \in Nat \ {0}
    BY <1>1 DEF Lists, Group, Removed
  <1>3. /\ Len(Group) \in Nat /\ DOMAIN Group = 1..Len(Group)
        /\ Len(Removed) \in Nat /\ DOMAIN Removed = 1..Len(Removed)
    BY <1>2
  <1>4. \A p \in Patched : p \in Paths /\ p \notin RemovedPaths /\ next[p] \in Seq(Byte)
    BY PatchedPaths, BuildsTyped DEF PackageInv, Content
  <1>5. \A p \in RemovedPaths : p \in Paths /\ next[p] = Absent
    BY PatchedPaths
  <1> QED
    BY <1>2, <1>3, <1>4, <1>5

LEMMA PackageKept ==
  ASSUME PackageInv, UNCHANGED <<builds, stage, package>>
  PROVE  /\ PackageInv'
         /\ previous' = previous /\ next' = next /\ given' = given
         /\ Patched' = Patched /\ RemovedPaths' = RemovedPaths
         /\ Group' = Group /\ Removed' = Removed
  <1>1. previous' = previous /\ next' = next /\ given' = given
    BY DEF previous, next, given
  <1>2. Patched' = Patched /\ RemovedPaths' = RemovedPaths
    BY <1>1 DEF Patched, ChangedPaths, NewPaths, RemovedPaths, Present
  <1>3. Group' = Group /\ Removed' = Removed
    BY DEF Group, Removed
  <1>4. Lists(package)' <=> Lists(package)
    BY <1>2 DEF Lists
  <1> QED
    BY <1>1, <1>2, <1>3, <1>4 DEF PackageInv

LEMMA ApplyInit0 == PatchInit => ApplyInv
  <1> SUFFICES ASSUME PatchInit PROVE ApplyInv
    OBVIOUS
  <1> USE DEF PatchInit, CreateInit, ApplyInit
  <1>1. PackageInv
    <2>1. builds \in Scenarios /\ package = builds.package
      OBVIOUS
    <2>2. package # NoPackage => IsPackage(package, builds)
      BY <2>1, ScenariosAssumption
    <2>3. package # NoPackage => Lists(package)
      BY <2>2, PatchedPaths DEF IsPackage, Lists, next, previous
    <2> QED
      BY <2>1, <2>3 DEF PackageInv
  <1>2. destination = given /\ given \in [Paths -> Content]
    BY <1>1, BuildsTyped DEF PackageInv
  <1>3. PlaceInv
    BY <1>2, NoResultAssumption DEF PlaceInv
  <1>4. NoMixture
    BY <1>2 DEF NoMixture
  <1>5. CopyInv /\ PlacedInv /\ RemovedInv
    BY NoResultAssumption DEF CopyInv, PlacedInv, RemovedInv
  <1>6. FoldersInv
    <2>1. ASSUME NEW p \in Paths, destination[p] # Absent, NEW f \in FoldersFor(p)
          PROVE  HasFile(f, destination) \/ HasFolder(f, folders)
      <3>1. FoldersFor(p) \subseteq folders
        BY <1>2, <2>1 DEF Present
      <3>2. CASE f = FolderOf[p]
        BY <2>1, <3>2 DEF HasFile
      <3>3. CASE f \in Above[FolderOf[p]]
        BY <3>1, <3>3 DEF HasFolder, FoldersFor
      <3> QED
        BY <3>2, <3>3 DEF FoldersFor
    <2> QED
      BY <1>2, <2>1 DEF FoldersInv, Present
  <1> QED
    BY <1>1, <1>3, <1>4, <1>5, <1>6 DEF ApplyInv
--------------------------------------------------------------------------
(* The steps of Apply, by what they do to the destination.                 *)

Still == UNCHANGED <<builds, stage, package, destination, folders, unnoticed, warned>>

\* The steps that prepare the temporary file.
Preparing ==
  /\ Still
  /\ phase \in {"loading", "resource", "patch", "fresh"}
  /\ phase' \in {"resource", "patch", "fresh", "check"}
  /\ result' = result
  /\ IF phase = "loading" THEN phase' = "resource" /\ at' = 1 ELSE at' = at
  /\ phase' # "resource" => at <= Len(Group)

\* The returns, and the death of the process.
Stopping ==
  /\ Still
  /\ phase # "idle"
  /\ phase' = "idle"
  /\ result' # "SUCCESS"
  /\ at' = at

LEMMA PreparingKeeps ==
  ASSUME ApplyInv, Preparing
  PROVE  ApplyInv'
  <1> USE DEF Preparing, Still
  <1>1. /\ PackageInv'
        /\ next' = next /\ given' = given /\ Patched' = Patched
        /\ RemovedPaths' = RemovedPaths /\ Group' = Group /\ Removed' = Removed
    BY PackageKept DEF ApplyInv
  <1>2. PlaceInv'
    BY <1>1 DEF ApplyInv, PlaceInv
  <1>3. NoMixture'
    BY <1>1 DEF ApplyInv, NoMixture, Beginnings
  <1>4. CopyInv'
    BY DEF CopyInv
  <1>5. PlacedInv'
    <2>1. at \in Nat \ {0}
      BY DEF ApplyInv, PlaceInv
    <2>2. result' # "SUCCESS"
      BY NoResultAssumption DEF ApplyInv, PlaceInv
    <2>3. ASSUME ~unnoticed', NEW i \in 1..Len(Group), i < at'
          PROVE  destination'[Group[i]] = next[Group[i]]
      <3>1. CASE phase = "loading"
        BY <2>3, <3>1
      <3>2. CASE phase # "loading"
        BY <2>3, <3>2 DEF ApplyInv, PlacedInv
      <3> QED
        BY <3>1, <3>2
    <2> QED
      BY <1>1, <2>2, <2>3 DEF PlacedInv
  <1>6. RemovedInv'
    BY NoResultAssumption DEF ApplyInv, PlaceInv, RemovedInv
  <1>7. FoldersInv'
    BY <1>1 DEF ApplyInv, PlaceInv, FoldersInv
  <1> QED
    BY <1>1, <1>2, <1>3, <1>4, <1>5, <1>6, <1>7 DEF ApplyInv

LEMMA StoppingKeeps ==
  ASSUME ApplyInv, Stopping
  PROVE  ApplyInv'
  <1> USE DEF Stopping, Still
  <1>1. /\ PackageInv'
        /\ next' = next /\ given' = given /\ Patched' = Patched
        /\ RemovedPaths' = RemovedPaths /\ Group' = Group /\ Removed' = Removed
    BY PackageKept DEF ApplyInv
  <1>2. PlaceInv'
    BY <1>1 DEF ApplyInv, PlaceInv
  <1>3. NoMixture'
    BY <1>1 DEF ApplyInv, NoMixture, Beginnings
  <1>4. CopyInv' /\ PlacedInv' /\ RemovedInv'
    BY DEF CopyInv, PlacedInv, RemovedInv
  <1>5. FoldersInv'
    BY <1>1 DEF ApplyInv, FoldersInv
  <1> QED
    BY <1>1, <1>2, <1>3, <1>4, <1>5 DEF ApplyInv

\* In the phases that write a file.
LEMMA TargetFacts ==
  ASSUME ApplyInv, phase \in {"patch", "fresh", "check", "open", "copy"}
  PROVE  /\ package # NoPackage
         /\ at \in 1..Len(Group)
         /\ Target \in Patched /\ Target \in Paths /\ Target \notin RemovedPaths
         /\ Expected \in Seq(Byte)
         /\ Expected = next[Target]
         /\ result # "SUCCESS"
  <1>1. package # NoPackage /\ result # "SUCCESS" /\ at \in Nat \ {0} /\ at <= Len(Group)
    BY NoResultAssumption DEF ApplyInv, PlaceInv
  <1>2. at \in 1..Len(Group)
    BY <1>1, ListFacts DEF ApplyInv
  <1> QED
    BY <1>1, <1>2, ListFacts DEF ApplyInv, Target, Expected

LEMMA CheckFileKeeps ==
  ASSUME ApplyInv, CheckFile, UNCHANGED <<builds, stage>>
  PROVE  ApplyInv'
  <1> USE DEF CheckFile, KeepPlace, KeepCall
  <1>1. /\ PackageInv'
        /\ next' = next /\ given' = given /\ Patched' = Patched
        /\ RemovedPaths' = RemovedPaths /\ Group' = Group /\ Removed' = Removed
    BY PackageKept DEF ApplyInv
  <1>2. Target' = Target /\ Expected' = Expected
    BY <1>1 DEF Target, Expected
  <1>3. Expected \in Seq(Byte) /\ at \in 1..Len(Group) /\ result # "SUCCESS"
    BY TargetFacts
  <1>4. PlaceInv'
    BY <1>1, <1>3, NoResultAssumption DEF ApplyInv, PlaceInv
  <1>5. NoMixture'
    BY <1>1 DEF ApplyInv, NoMixture, Beginnings
  <1>6. CopyInv'
    <2>1. temp = Expected
      BY DEF ChecksumRight
    <2>2. temp' \in Beginnings(Expected)
      BY <1>3, <2>1, WholeAndNothing DEF Closing
    <2>3. unnoticed' \/ temp' = Expected
      BY <2>1
    <2> QED
      BY <1>2, <2>2, <2>3 DEF CopyInv, Beginnings
  <1>7. PlacedInv'
    BY <1>1, <1>3 DEF ApplyInv, PlacedInv
  <1>8. RemovedInv'
    BY <1>3 DEF RemovedInv
  <1>9. FoldersInv'
    BY <1>1 DEF ApplyInv, FoldersInv
  <1> QED
    BY <1>1, <1>4, <1>5, <1>6, <1>7, <1>8, <1>9 DEF ApplyInv

\* A file that is written has a beginning of its new content.
LEMMA WritingKeepsFiles ==
  ASSUME ApplyInv, phase \in {"open", "copy"}, UNCHANGED <<builds, stage, package>>,
         NEW file \in Beginnings(Expected),
         destination' = [destination EXCEPT ![Target] = file]
  PROVE  /\ NoMixture'
         /\ destination' \in [Paths -> Content]
         /\ destination'[Target] = file
         /\ destination'[Target] # Absent
         /\ \A p \in Paths : p # Target => destination'[p] = destination[p]
  <1>1. /\ PackageInv'
        /\ next' = next /\ given' = given /\ Patched' = Patched
        /\ RemovedPaths' = RemovedPaths /\ Group' = Group /\ Removed' = Removed
    BY PackageKept DEF ApplyInv
  <1>2. /\ Target \in Patched /\ Target \in Paths
        /\ Expected \in Seq(Byte) /\ Expected = next[Target]
    BY TargetFacts
  <1>3. destination \in [Paths -> Content]
    BY DEF ApplyInv, PlaceInv
  <1>4. file \in Seq(Byte)
    BY <1>2, BeginningFacts
  <1>5. file # Absent
    BY <1>4, ScenariosAssumption
  <1>6. /\ destination' \in [Paths -> Content]
        /\ destination'[Target] = file
        /\ \A p \in Paths : p # Target => destination'[p] = destination[p]
    BY <1>2, <1>3, <1>4 DEF Content
  <1>7. NoMixture'
    <2>1. ASSUME NEW p \in Paths, p # Target
          PROVE  \/ destination'[p] = given[p]
                 \/ p \in Patched /\ destination'[p] \in Beginnings(next[p])
                 \/ p \in RemovedPaths /\ destination'[p] = Absent
      BY <1>6, <2>1 DEF ApplyInv, NoMixture
    <2>2. destination'[Target] \in Beginnings(next[Target])
      BY <1>2, <1>6
    <2> QED
      BY <1>1, <1>2, <2>1, <2>2 DEF NoMixture, Beginnings
  <1> QED
    BY <1>5, <1>6, <1>7

\* No folder loses a file by that, and the folder of the file has one.
LEMMA WritingKeepsFolders ==
  ASSUME ApplyInv, phase \in {"open", "copy"}, UNCHANGED <<builds, stage, package>>,
         phase' \notin {"remove", "tidy"}, result' # "SUCCESS",
         NEW file \in Beginnings(Expected),
         destination' = [destination EXCEPT ![Target] = file],
         folders' = folders \/ folders' = folders \cup FoldersFor(Target)
  PROVE  FoldersInv'
  <1>1. /\ destination'[Target] # Absent
        /\ \A p \in Paths : p # Target => destination'[p] = destination[p]
    BY WritingKeepsFiles
  <1>2. Target \in Paths /\ package # NoPackage
    BY TargetFacts
  <1>3. Removed' = Removed
    BY DEF Removed
  <1>4. ASSUME NEW f \in folders'
        PROVE  \/ HasFile(f, destination') \/ HasFolder(f, folders')
               \/ LostLast(f, Removed)
               \/ \E j \in 1..Len(Removed) : FolderOf[Removed[j]] = f
    <2>1. CASE f = FolderOf[Target]
      BY <1>1, <1>2, <2>1 DEF HasFile
    <2>2. CASE f \in folders /\ f # FolderOf[Target]
      <3>1. \/ HasFile(f, destination) \/ HasFolder(f, folders)
            \/ LostLast(f, Removed)
            \/ \E j \in 1..Len(Removed) : FolderOf[Removed[j]] = f
        BY <2>2 DEF ApplyInv, FoldersInv
      <3>2. HasFile(f, destination) => HasFile(f, destination')
        BY <1>1, <2>2 DEF HasFile
      <3>3. HasFolder(f, folders) => HasFolder(f, folders')
        BY DEF HasFolder
      <3> QED
        BY <3>1, <3>2, <3>3
    <2>3. CASE f \notin folders /\ f # FolderOf[Target]
      <3>1. folders' = folders \cup FoldersFor(Target)
        BY <2>3
      <3>2. f \in Above[FolderOf[Target]] /\ FolderOf[Target] \in folders'
        BY <2>3, <3>1 DEF FoldersFor
      <3> QED
        BY <3>2 DEF HasFolder
    <2> QED
      BY <2>1, <2>2, <2>3
  <1> QED
    BY <1>2, <1>3, <1>4 DEF FoldersInv

LEMMA OpenDestinationKeeps ==
  ASSUME ApplyInv, OpenDestination, UNCHANGED <<builds, stage>>
  PROVE  ApplyInv'
  <1> USE DEF OpenDestination, KeepPlace, KeepCall
  <1>1. /\ PackageInv'
        /\ next' = next /\ given' = given /\ Patched' = Patched
        /\ RemovedPaths' = RemovedPaths /\ Group' = Group /\ Removed' = Removed
    BY PackageKept DEF ApplyInv
  <1>2. Target' = Target /\ Expected' = Expected
    BY <1>1 DEF Target, Expected
  <1>3. /\ Expected \in Seq(Byte) /\ at \in 1..Len(Group) /\ result # "SUCCESS"
        /\ Target \in Paths
    BY TargetFacts
  <1>4. <<>> \in Beginnings(Expected)
    BY <1>3, WholeAndNothing
  <1>5. destination' = [destination EXCEPT ![Target] = <<>>]
    OBVIOUS
  <1>6. /\ NoMixture'
        /\ destination' \in [Paths -> Content]
        /\ destination'[Target] = <<>>
        /\ \A p \in Paths : p # Target => destination'[p] = destination[p]
    BY <1>4, <1>5, WritingKeepsFiles
  <1>7. PlaceInv'
    BY <1>1, <1>3, <1>6, NoResultAssumption DEF ApplyInv, PlaceInv
  <1>8. CopyInv'
    <2>1. /\ temp \in Beginnings(Expected)
          /\ unnoticed \/ temp = Expected
      BY DEF ApplyInv, CopyInv
    <2>2. temp \in Seq(Byte)
      BY <1>3, <2>1, BeginningFacts
    <2>3. destination'[Target] \in Beginnings(temp)
      BY <1>6, <2>2, WholeAndNothing
    <2> QED
      BY <1>2, <2>1, <2>3 DEF CopyInv, Beginnings
  <1>9. PlacedInv'
    <2>1. ASSUME ~unnoticed, NEW i \in 1..Len(Group), i < at
          PROVE  destination'[Group[i]] = next[Group[i]] \/ Group[i] = Target
      <3>1. destination[Group[i]] = next[Group[i]]
        BY <2>1 DEF ApplyInv, PlacedInv
      <3>2. Group[i] \in Paths
        BY TargetFacts, ListFacts DEF ApplyInv
      <3> QED
        BY <1>6, <3>1, <3>2
    <2> QED
      BY <1>1, <1>2, <1>3, <2>1 DEF PlacedInv
  <1>10. RemovedInv'
    BY <1>3 DEF RemovedInv
  <1>11. FoldersInv'
    BY <1>3, <1>4, <1>5, WritingKeepsFolders
  <1> QED
    BY <1>1, <1>6, <1>7, <1>8, <1>9, <1>10, <1>11 DEF ApplyInv

LEMMA CopyPieceKeeps ==
  ASSUME ApplyInv, CopyPiece, UNCHANGED <<builds, stage>>
  PROVE  ApplyInv'
  <1> USE DEF CopyPiece, KeepPlace, KeepCall
  <1>1. /\ PackageInv'
        /\ next' = next /\ given' = given /\ Patched' = Patched
        /\ RemovedPaths' = RemovedPaths /\ Group' = Group /\ Removed' = Removed
    BY PackageKept DEF ApplyInv
  <1>2. Target' = Target /\ Expected' = Expected
    BY <1>1 DEF Target, Expected
  <1>3. /\ Expected \in Seq(Byte) /\ at \in 1..Len(Group) /\ result # "SUCCESS"
        /\ Target \in Paths
        /\ package # NoPackage
    BY TargetFacts
  <1>4. /\ temp \in Beginnings(Expected)
        /\ unnoticed \/ temp = Expected
        /\ destination[Target] \in Beginnings(temp)
    BY DEF ApplyInv, CopyInv
  <1>5. temp \in Seq(Byte)
    BY <1>3, <1>4, BeginningFacts
  <1> DEFINE file == destination[Target] \o Piece(temp, Copied, package.chunkSize)
  <1>6. file \in Beginnings(temp)
    <2>1. package.chunkSize \in Nat
      BY <1>3, ListFacts DEF ApplyInv
    <2> QED
      BY <1>4, <1>5, <2>1, PieceFollows DEF Copied
  <1>7. file \in Beginnings(Expected)
    BY <1>3, <1>4, <1>6, BeginningOfBeginning
  <1>8. destination' = [destination EXCEPT ![Target] = file]
    <2>1. destination \in [Paths -> Content]
      BY DEF ApplyInv, PlaceInv
    <2> QED
      BY <1>3, <2>1
  <1> HIDE DEF file
  <1>9. /\ NoMixture'
        /\ destination' \in [Paths -> Content]
        /\ destination'[Target] = file
        /\ \A p \in Paths : p # Target => destination'[p] = destination[p]
    BY <1>7, <1>8, WritingKeepsFiles
  <1>10. PlaceInv'
    BY <1>1, <1>3, <1>9, NoResultAssumption DEF ApplyInv, PlaceInv
  <1>11. CopyInv'
    BY <1>2, <1>4, <1>6, <1>9 DEF CopyInv, Beginnings
  <1>12. PlacedInv'
    <2>1. ASSUME ~unnoticed, NEW i \in 1..Len(Group), i < at
          PROVE  destination'[Group[i]] = next[Group[i]] \/ Group[i] = Target
      <3>1. destination[Group[i]] = next[Group[i]] \/ Group[i] = Target
        BY <2>1 DEF ApplyInv, PlacedInv
      <3>2. Group[i] \in Paths
        BY TargetFacts, ListFacts DEF ApplyInv
      <3> QED
        BY <1>9, <3>1, <3>2
    <2> QED
      BY <1>1, <1>2, <1>3, <2>1 DEF PlacedInv
  <1>13. RemovedInv'
    BY <1>3 DEF RemovedInv
  <1>14. FoldersInv'
    BY <1>3, <1>7, <1>8, WritingKeepsFolders
  <1> QED
    BY <1>1, <1>9, <1>10, <1>11, <1>12, <1>13, <1>14 DEF ApplyInv

LEMMA CloseDestinationKeeps ==
  ASSUME ApplyInv, CloseDestination, UNCHANGED <<builds, stage>>
  PROVE  ApplyInv'
  <1> USE DEF CloseDestination, KeepCall
  <1>1. /\ PackageInv'
        /\ next' = next /\ given' = given /\ Patched' = Patched
        /\ RemovedPaths' = RemovedPaths /\ Group' = Group /\ Removed' = Removed
    BY PackageKept DEF ApplyInv
  <1>2. /\ Expected \in Seq(Byte) /\ at \in 1..Len(Group) /\ result # "SUCCESS"
        /\ Expected = next[Target]
        /\ Target \in Paths
        /\ package # NoPackage
    BY TargetFacts
  <1>3. /\ temp \in Beginnings(Expected)
        /\ unnoticed \/ temp = Expected
    BY DEF ApplyInv, CopyInv
  <1>4. temp \in Seq(Byte)
    BY <1>2, <1>3, BeginningFacts
  <1>5. PICK file \in Closing(temp) :
          /\ destination' = [destination EXCEPT ![Target] = file]
          /\ unnoticed' = (unnoticed \/ file # temp)
    OBVIOUS
  <1>6. file \in Beginnings(Expected)
    <2>1. file \in Beginnings(temp)
      BY <1>4, WholeAndNothing DEF Closing
    <2> QED
      BY <1>2, <1>3, <2>1, BeginningOfBeginning
  <1>7. /\ NoMixture'
        /\ destination' \in [Paths -> Content]
        /\ destination'[Target] = file
        /\ \A p \in Paths : p # Target => destination'[p] = destination[p]
    BY <1>5, <1>6, WritingKeepsFiles
  <1>8. PlaceInv'
    BY <1>1, <1>2, <1>7, NoResultAssumption DEF ApplyInv, PlaceInv
  <1>9. CopyInv'
    BY DEF CopyInv
  <1>10. PlacedInv'
    <2>1. ASSUME ~unnoticed', NEW i \in 1..Len(Group), i < at'
          PROVE  destination'[Group[i]] = next[Group[i]]
      <3>1. ~unnoticed /\ file = temp /\ temp = Expected
        BY <1>3, <1>5, <2>1
      <3>2. CASE Group[i] = Target
        BY <1>2, <1>7, <3>1, <3>2
      <3>3. CASE Group[i] # Target
        <4>1. Group[i] \in Paths
          BY TargetFacts, ListFacts DEF ApplyInv
        <4>2. i < at
          BY <1>2, <2>1, <3>3 DEF Target
        <4>3. destination[Group[i]] = next[Group[i]]
          BY <3>1, <3>3, <4>2 DEF ApplyInv, PlacedInv
        <4> QED
          BY <1>7, <3>3, <4>1, <4>3
      <3> QED
        BY <3>2, <3>3
    <2> QED
      BY <1>1, <1>2, <2>1 DEF PlacedInv
  <1>11. RemovedInv'
    BY <1>2 DEF RemovedInv
  <1>12. FoldersInv'
    BY <1>2, <1>5, <1>6, WritingKeepsFolders
  <1> QED
    BY <1>1, <1>7, <1>8, <1>9, <1>10, <1>11, <1>12 DEF ApplyInv

LEMMA StartRemovalKeeps ==
  ASSUME ApplyInv, StartRemoval, UNCHANGED <<builds, stage>>
  PROVE  ApplyInv'
  <1> USE DEF StartRemoval, KeepCall, KeepDisk
  <1>1. /\ PackageInv'
        /\ next' = next /\ given' = given /\ Patched' = Patched
        /\ RemovedPaths' = RemovedPaths /\ Group' = Group /\ Removed' = Removed
    BY PackageKept DEF ApplyInv
  <1>2. PlaceInv'
    BY <1>1, NoResultAssumption DEF ApplyInv, PlaceInv
  <1>3. package # NoPackage /\ result # "SUCCESS" /\ at \in Nat
    BY NoResultAssumption DEF ApplyInv, PlaceInv
  <1>4. NoMixture'
    BY <1>1 DEF ApplyInv, NoMixture, Beginnings
  <1>5. CopyInv'
    BY DEF CopyInv
  <1>6. PlacedInv'
    <2>1. ASSUME ~unnoticed, NEW p \in Patched
          PROVE  destination[p] = next[p]
      <3>1. PICK i \in 1..Len(Group) : Group[i] = p
        BY <1>3, ListFacts DEF ApplyInv
      <3>2. i < at
        BY <1>3, ListFacts DEF ApplyInv
      <3> QED
        BY <2>1, <3>1, <3>2 DEF ApplyInv, PlacedInv
    <2> QED
      BY <1>1, <2>1 DEF PlacedInv
  <1>7. RemovedInv'
    BY <1>3 DEF RemovedInv
  <1>8. FoldersInv'
    BY <1>1, <1>3 DEF ApplyInv, FoldersInv
  <1> QED
    BY <1>1, <1>2, <1>4, <1>5, <1>6, <1>7, <1>8 DEF ApplyInv

\* In the phases that remove files.
LEMMA DoomedFacts ==
  ASSUME ApplyInv, phase \in {"remove", "tidy"}, at <= Len(Removed)
  PROVE  /\ package # NoPackage /\ result # "SUCCESS"
         /\ at \in 1..Len(Removed)
         /\ Doomed \in RemovedPaths /\ Doomed \in Paths /\ Doomed \notin Patched
  <1>1. package # NoPackage /\ result # "SUCCESS" /\ at \in Nat \ {0}
    BY NoResultAssumption DEF ApplyInv, PlaceInv
  <1>2. at \in 1..Len(Removed)
    BY <1>1, ListFacts DEF ApplyInv
  <1> QED
    BY <1>1, <1>2, ListFacts DEF ApplyInv, Doomed

LEMMA RemoveFileKeeps ==
  ASSUME ApplyInv, RemoveFile, UNCHANGED <<builds, stage>>
  PROVE  ApplyInv'
  <1> USE DEF RemoveFile, KeepPlace, KeepCall
  <1>1. /\ PackageInv'
        /\ next' = next /\ given' = given /\ Patched' = Patched
        /\ RemovedPaths' = RemovedPaths /\ Group' = Group /\ Removed' = Removed
    BY PackageKept DEF ApplyInv
  <1>2. /\ package # NoPackage /\ result # "SUCCESS"
        /\ at \in 1..Len(Removed)
        /\ Doomed \in RemovedPaths /\ Doomed \in Paths /\ Doomed \notin Patched
    BY DoomedFacts
  <1>3. destination \in [Paths -> Content]
    BY DEF ApplyInv, PlaceInv
  <1>4. PICK stays \in BOOLEAN :
          /\ destination' = IF stays THEN destination
                            ELSE [destination EXCEPT ![Doomed] = Absent]
          /\ warned' = (warned \/ stays)
    OBVIOUS
  <1>5. /\ destination' \in [Paths -> Content]
        /\ \A p \in Paths : p # Doomed => destination'[p] = destination[p]
        /\ \/ destination'[Doomed] = Absent
           \/ destination'[Doomed] = destination[Doomed] /\ warned'
        /\ warned => warned'
    <2>1. Absent \in Content
      BY DEF Content
    <2>2. CASE stays
      <3>1. destination' = destination /\ warned'
        BY <1>4, <2>2
      <3> QED
        BY <1>3, <3>1
    <2>3. CASE ~stays
      <3>1. destination' = [destination EXCEPT ![Doomed] = Absent]
        BY <1>4, <2>3
      <3>2. warned => warned'
        BY <1>4
      <3>3. /\ destination' \in [Paths -> Content]
            /\ \A p \in Paths : p # Doomed => destination'[p] = destination[p]
            /\ destination'[Doomed] = Absent
        BY <1>2, <1>3, <2>1, <3>1
      <3> QED
        BY <3>2, <3>3
    <2> QED
      BY <2>2, <2>3
  <1>6. PlaceInv'
    BY <1>1, <1>2, <1>5, NoResultAssumption DEF ApplyInv, PlaceInv
  <1>7. NoMixture'
    <2>1. ASSUME NEW p \in Paths
          PROVE  \/ destination'[p] = given[p]
                 \/ p \in Patched /\ destination'[p] \in Beginnings(next[p])
                 \/ p \in RemovedPaths /\ destination'[p] = Absent
      BY <1>2, <1>5 DEF ApplyInv, NoMixture
    <2> QED
      BY <1>1, <2>1 DEF NoMixture, Beginnings
  <1>8. CopyInv'
    BY DEF CopyInv
  <1>9. PlacedInv'
    <2>1. ASSUME ~unnoticed, NEW p \in Patched
          PROVE  destination'[p] = next[p]
      <3>1. p \in Paths /\ p # Doomed
        BY <1>2, ListFacts DEF ApplyInv
      <3> QED
        BY <1>5, <2>1, <3>1 DEF ApplyInv, PlacedInv
    <2> QED
      BY <1>1, <2>1 DEF PlacedInv
  <1>10. RemovedInv'
    <2>1. ASSUME NEW j \in 1..Len(Removed), j < at \/ j = at
          PROVE  destination'[Removed[j]] = Absent \/ warned'
      <3>1. CASE Removed[j] = Doomed
        BY <1>5, <3>1
      <3>2. CASE Removed[j] # Doomed
        <4>1. j < at /\ Removed[j] \in Paths
          BY <1>2, <2>1, <3>2, ListFacts DEF ApplyInv, Doomed
        <4>2. destination[Removed[j]] = Absent \/ warned
          BY <4>1 DEF ApplyInv, RemovedInv
        <4> QED
          BY <1>5, <3>2, <4>1, <4>2
      <3> QED
        BY <3>1, <3>2
    <2> QED
      BY <1>1, <1>2, <2>1 DEF RemovedInv
  <1>11. FoldersInv'
    <2>1. ASSUME NEW f \in folders
          PROVE  \/ HasFile(f, destination') \/ HasFolder(f, folders)
                 \/ LostLast(f, Removed)
                 \/ \E j \in 1..Len(Removed) : FolderOf[Removed[j]] = f /\ j >= at
      <3>1. CASE f = FolderOf[Doomed]
        <4>1. at >= at /\ FolderOf[Removed[at]] = f
          BY <1>2, <3>1 DEF Doomed
        <4> QED
          BY <1>2, <4>1
      <3>2. CASE f # FolderOf[Doomed]
        <4>1. HasFile(f, destination) => HasFile(f, destination')
          BY <1>5, <3>2 DEF HasFile
        <4> QED
          BY <4>1 DEF ApplyInv, FoldersInv
      <3> QED
        BY <3>1, <3>2
    <2> QED
      BY <1>1, <1>2, <2>1 DEF FoldersInv
  <1> QED
    BY <1>1, <1>6, <1>7, <1>8, <1>9, <1>10, <1>11 DEF ApplyInv

\* The steps that tidy up leave the files alone.
Tidying ==
  /\ UNCHANGED <<builds, stage, package, destination, unnoticed, warned, result>>
  /\ phase = "tidy"
  /\ \/ /\ phase' = "tidy" /\ at' = at
        /\ folders' = folders \/ folders' = folders \ {FolderOf[Doomed]}
     \/ phase' = "remove" /\ at' = at + 1 /\ folders' = folders /\ ~Tidy(FolderOf[Doomed])

LEMMA TidyingKeeps ==
  ASSUME ApplyInv, Tidying
  PROVE  ApplyInv'
  <1> USE DEF Tidying
  <1>1. /\ PackageInv'
        /\ next' = next /\ given' = given /\ Patched' = Patched
        /\ RemovedPaths' = RemovedPaths /\ Group' = Group /\ Removed' = Removed
    BY PackageKept DEF ApplyInv
  <1>2. at <= Len(Removed)
    BY DEF ApplyInv, PlaceInv
  <1>3. /\ package # NoPackage /\ result # "SUCCESS"
        /\ at \in 1..Len(Removed)
        /\ Doomed \in Paths
    BY <1>2, DoomedFacts
  <1>4. PlaceInv'
    BY <1>1, <1>3, NoResultAssumption DEF ApplyInv, PlaceInv
  <1>5. NoMixture'
    BY <1>1 DEF ApplyInv, NoMixture, Beginnings
  <1>6. CopyInv'
    BY DEF CopyInv
  <1>7. PlacedInv'
    BY <1>1, <1>3 DEF ApplyInv, PlacedInv
  <1>8. RemovedInv'
    BY <1>1, <1>3 DEF ApplyInv, RemovedInv
  <1>9. FoldersInv'
    <2>1. ASSUME NEW f \in folders'
          PROVE  \/ HasFile(f, destination) \/ HasFolder(f, folders')
                 \/ LostLast(f, Removed)
                 \/ \E j \in 1..Len(Removed) : FolderOf[Removed[j]] = f /\ j >= at'
      <3>1. f \in folders
        OBVIOUS
      <3>2. ASSUME NEW g \in folders \ folders', f \in Above[g]
            PROVE  \/ LostLast(f, Removed)
                   \/ \E j \in 1..Len(Removed) : FolderOf[Removed[j]] = f /\ j >= at'
        <4>1. at' = at /\ f \in Above[FolderOf[Removed[at]]]
          BY <3>2 DEF Doomed
        <4>2. CASE \E i \in 1..Len(Removed) : FolderOf[Removed[i]] = f /\ ~(i < at)
          BY <1>3, <4>1, <4>2
        <4>3. CASE \A i \in 1..Len(Removed) : FolderOf[Removed[i]] = f => i < at
          BY <1>3, <4>1, <4>3 DEF LostLast
        <4> QED
          BY <4>2, <4>3
      <3>3. CASE HasFolder(f, folders)
        BY <3>2, <3>3 DEF HasFolder
      <3>4. CASE ~HasFile(f, destination) /\ ~HasFolder(f, folders) /\ ~LostLast(f, Removed)
        <4>1. PICK j \in 1..Len(Removed) : FolderOf[Removed[j]] = f /\ j >= at
          BY <3>1, <3>4 DEF ApplyInv, FoldersInv
        <4>2. Tidy(f)
          BY <3>1, <3>4 DEF Tidy, IsEmpty, Present, HasFile, HasFolder
        <4>3. at' = at \/ j # at
          BY <4>1, <4>2 DEF Doomed
        <4>4. j >= at'
          BY <1>3, <4>1, <4>3
        <4> QED
          BY <4>1, <4>4
      <3> QED
        BY <3>3, <3>4
    <2> QED
      BY <1>1, <1>3, <2>1 DEF FoldersInv
  <1> QED
    BY <1>1, <1>4, <1>5, <1>6, <1>7, <1>8, <1>9 DEF ApplyInv

LEMMA ApplyDoneKeeps ==
  ASSUME ApplyInv, ApplyDone, UNCHANGED <<builds, stage>>
  PROVE  ApplyInv'
  <1> USE DEF ApplyDone, Return, KeepPlace, KeepDisk
  <1>1. /\ PackageInv'
        /\ next' = next /\ given' = given /\ Patched' = Patched
        /\ RemovedPaths' = RemovedPaths /\ Group' = Group /\ Removed' = Removed
    BY PackageKept DEF ApplyInv
  <1>2. package # NoPackage /\ at \in Nat
    BY DEF ApplyInv, PlaceInv
  <1>3. PlaceInv'
    BY <1>1, <1>2 DEF ApplyInv, PlaceInv
  <1>4. NoMixture'
    BY <1>1 DEF ApplyInv, NoMixture, Beginnings
  <1>5. CopyInv'
    BY DEF CopyInv
  <1>6. PlacedInv'
    BY <1>1 DEF ApplyInv, PlacedInv
  <1>7. RemovedInv'
    <2>1. ASSUME NEW p \in RemovedPaths
          PROVE  destination[p] = Absent \/ warned
      <3>1. PICK j \in 1..Len(Removed) : Removed[j] = p
        BY <1>2, ListFacts DEF ApplyInv
      <3>2. j < at
        BY <1>2, ListFacts DEF ApplyInv
      <3> QED
        BY <3>1, <3>2 DEF ApplyInv, RemovedInv
    <2> QED
      BY <1>1, <2>1 DEF RemovedInv
  <1>8. FoldersInv'
    <2>1. ASSUME NEW f \in folders
          PROVE  \/ HasFile(f, destination) \/ HasFolder(f, folders)
                 \/ LostLast(f, Removed)
      <3>1. ~\E j \in 1..Len(Removed) : j >= at
        BY <1>2, ListFacts DEF ApplyInv
      <3> QED
        BY <3>1 DEF ApplyInv, FoldersInv
    <2> QED
      BY <1>1, <1>2, <2>1 DEF FoldersInv
  <1> QED
    BY <1>1, <1>3, <1>4, <1>5, <1>6, <1>7, <1>8 DEF ApplyInv

LEMMA CallApplyKeeps ==
  ASSUME ApplyInv, CallApply, UNCHANGED <<builds, stage>>
  PROVE  ApplyInv'
  <1> USE DEF CallApply, KeepPlace
  <1>1. /\ PackageInv'
        /\ next' = next /\ given' = given /\ Patched' = Patched
        /\ RemovedPaths' = RemovedPaths /\ Group' = Group /\ Removed' = Removed
    BY PackageKept DEF ApplyInv
  <1>2. PlaceInv'
    BY <1>1, NoResultAssumption DEF ApplyInv, PlaceInv
  <1>3. NoMixture'
    BY <1>1 DEF ApplyInv, NoMixture, Beginnings
  <1>4. CopyInv' /\ PlacedInv' /\ RemovedInv'
    BY NoResultAssumption DEF CopyInv, PlacedInv, RemovedInv
  <1>5. FoldersInv'
    BY <1>1, NoResultAssumption DEF ApplyInv, FoldersInv
  <1> QED
    BY <1>1, <1>2, <1>3, <1>4, <1>5 DEF ApplyInv

\* Steps of CreatePatch, and stuttering: at most the package appears, while
\* Apply has not begun.
LEMMA CreateKeeps ==
  ASSUME ApplyInv, UNCHANGED <<builds, applyVars>>,
         \/ package' = package /\ (stage' # "created" => stage # "created")
         \/ PutDocument /\ builds.package = NoPackage
  PROVE  ApplyInv'
  <1> USE DEF applyVars
  <1>1. /\ previous' = previous /\ next' = next /\ given' = given /\ chunkSize' = chunkSize
        /\ Patched' = Patched /\ RemovedPaths' = RemovedPaths
    <2>1. previous' = previous /\ next' = next /\ given' = given /\ chunkSize' = chunkSize
      BY DEF previous, next, given, chunkSize
    <2> QED
      BY <2>1 DEF Patched, ChangedPaths, NewPaths, RemovedPaths, Present
  <1>2. NoMixture'
    BY <1>1 DEF ApplyInv, NoMixture, Beginnings
  <1>3. CASE package' = package /\ (stage' # "created" => stage # "created")
    <2>1. Group' = Group /\ Removed' = Removed /\ Target' = Target /\ Expected' = Expected
      BY <1>1, <1>3 DEF Group, Removed, Target, Expected
    <2>2. PackageInv'
      <3>1. Lists(package)' <=> Lists(package)
        BY <1>1, <1>3 DEF Lists
      <3> QED
        BY <1>3, <3>1 DEF ApplyInv, PackageInv
    <2>3. PlaceInv' /\ CopyInv' /\ FoldersInv'
      BY <1>1, <1>3, <2>1 DEF ApplyInv, PlaceInv, CopyInv, FoldersInv, Beginnings
    <2>4. PlacedInv' /\ RemovedInv'
      BY <1>1, <1>3, <2>1 DEF ApplyInv, PlacedInv, RemovedInv
    <2> QED
      BY <1>2, <2>2, <2>3, <2>4 DEF ApplyInv
  <1>4. CASE PutDocument /\ builds.package = NoPackage
    <2>1. /\ stage = "document" /\ stage' = "created"
          /\ package' = [group |-> Pairs, removed |-> Ascending(RemovedPaths),
                         patches |-> patches, chunkSize |-> chunkSize]
      BY <1>4 DEF PutDocument
    <2>2. package = NoPackage
      BY <1>4, <2>1 DEF ApplyInv, PackageInv
    <2>3. phase = "idle" /\ result # "SUCCESS"
      BY <2>2 DEF ApplyInv, PlaceInv
    <2>4. Lists(package')
      <3>1. chunkSize \in Nat \ {0}
        BY BuildsTyped DEF ApplyInv, PackageInv
      <3>2. RemovedPaths \in SUBSET Paths
        BY DEF RemovedPaths, Present
      <3> QED
        BY <2>1, <3>1, <3>2, PairsListed, SubsetsOfPaths DEF Lists
    <2>5. Lists(package)'
      BY <1>1, <2>4 DEF Lists
    <2>6. PackageInv'
      BY <2>1, <2>5 DEF ApplyInv, PackageInv
    <2>7. PlaceInv' /\ CopyInv' /\ PlacedInv' /\ RemovedInv'
      BY <2>3 DEF ApplyInv, PlaceInv, CopyInv, PlacedInv, RemovedInv
    <2>8. FoldersInv'
      BY <2>2 DEF ApplyInv, FoldersInv
    <2> QED
      BY <1>2, <2>6, <2>7, <2>8 DEF ApplyInv
  <1> QED
    BY <1>3, <1>4
--------------------------------------------------------------------------
(* The invariant holds, and what follows from it.                          *)

LEMMA CreateStepKeeps ==
  ASSUME ApplyInv, CreateStep
  PROVE  ApplyInv'
  <1>1. UNCHANGED <<builds, applyVars>> /\ builds.package = NoPackage
    BY DEF CreateStep
  <1>2. SkipPair \/ OpenPair \/ MatchChunk \/ DiffChunk \/ NextPair \/ PutGroup
          \/ PutDocument \/ CreateFails
    BY DEF CreateStep, CreateNext
  <1>3. CASE PutDocument
    BY <1>1, <1>3, CreateKeeps
  <1>4. CASE ~PutDocument
    <2>1. package' = package /\ stage # "created"
      BY <1>2, <1>4 DEF SkipPair, OpenPair, MatchChunk, DiffChunk, MoreChunks,
        NextPair, PutGroup, CreateFails
    <2> QED
      BY <1>1, <2>1, CreateKeeps
  <1> QED
    BY <1>3, <1>4

LEMMA ApplyNextKeeps ==
  ASSUME ApplyInv, ApplyNext, UNCHANGED <<builds, createVars>>
  PROVE  ApplyInv'
  <1>1. UNCHANGED <<builds, stage>>
    BY DEF createVars
  <1>2. at \in Nat \ {0} /\ (phase # "idle" => result = NoResult)
    BY DEF ApplyInv, PlaceInv
  <1>3. CASE CallApply
    BY <1>1, <1>3, CallApplyKeeps
  <1>4. CASE LoadGroup \/ StartResource \/ CopyGap \/ ApplyDelta \/ CopyRange
               \/ AppendNothing \/ PatchesDone \/ CopyFresh
    <2>1. phase \in {"patch", "fresh"} => at <= Len(Group)
      BY DEF ApplyInv, PlaceInv
    <2>2. Preparing
      BY <1>1, <1>4, <2>1 DEF Preparing, Still, KeepPlace, KeepDisk, KeepCall,
        LoadGroup, StartResource, CopyGap, ApplyDelta, CopyRange, AppendNothing,
        PatchesDone, CopyFresh, AtPatch, AtOffset
    <2> QED
      BY <2>2, PreparingKeeps
  <1>5. CASE SourceMissing \/ GapFails \/ RangeFails \/ CheckFails \/ ApplyFails \/ Crash
    <2>1. Stopping
      BY <1>1, <1>2, <1>5, NoResultAssumption DEF Stopping, Still, KeepPlace, KeepDisk,
        Return, SourceMissing, GapFails, RangeFails, CheckFails, ApplyFails, Crash,
        AtPatch, AtOffset
    <2> QED
      BY <2>1, StoppingKeeps
  <1>6. CASE CheckFile
    BY <1>1, <1>6, CheckFileKeeps
  <1>7. CASE OpenDestination
    BY <1>1, <1>7, OpenDestinationKeeps
  <1>8. CASE CopyPiece
    BY <1>1, <1>8, CopyPieceKeeps
  <1>9. CASE CloseDestination
    BY <1>1, <1>9, CloseDestinationKeeps
  <1>10. CASE StartRemoval
    BY <1>1, <1>10, StartRemovalKeeps
  <1>11. CASE RemoveFile
    BY <1>1, <1>11, RemoveFileKeeps
  <1>12. CASE RemoveFolder \/ FolderStays \/ NextRemoved
    <2>1. Tidying
      BY <1>1, <1>12 DEF Tidying, RemoveFolder, FolderStays, NextRemoved, KeepPlace,
        KeepDisk, KeepCall
    <2> QED
      BY <2>1, TidyingKeeps
  <1>13. CASE ApplyDone
    BY <1>1, <1>13, ApplyDoneKeeps
  <1> QED
    BY <1>3, <1>4, <1>5, <1>6, <1>7, <1>8, <1>9, <1>10, <1>11, <1>12, <1>13
    DEF ApplyNext, ApplyStep

LEMMA ApplyInvNext == ApplyInv /\ [PatchNext]_patchVars => ApplyInv'
  <1> SUFFICES ASSUME ApplyInv, [PatchNext]_patchVars PROVE ApplyInv'
    OBVIOUS
  <1>1. CASE CreateStep
    BY <1>1, CreateStepKeeps
  <1>2. CASE ApplyNext /\ UNCHANGED <<builds, createVars>>
    BY <1>2, ApplyNextKeeps
  <1>3. CASE UNCHANGED patchVars
    <2>1. UNCHANGED <<builds, applyVars>> /\ package' = package /\ stage' = stage
      BY <1>3 DEF patchVars, createVars
    <2> QED
      BY <2>1, CreateKeeps
  <1> QED
    BY <1>1, <1>2, <1>3 DEF PatchNext

\* The inductive invariant of Apply.
THEOREM ApplyInvariant == PatchSpec => []ApplyInv
  BY ApplyInit0, ApplyInvNext, PTL DEF PatchSpec

\* Whatever fails, and whenever the process dies: a file of the destination
\* has its old content or a beginning of the new one, and is gone only when
\* the next build does not have it; for all builds, packages and disks.
THEOREM MixtureCorrect == PatchSpec => []NoMixture
  BY ApplyInvariant, PTL DEF ApplyInv

\* SUCCESS of Apply means that the destination is the next build, whatever
\* build it was given and however many calls have failed or died before,
\* unless bytes were lost after the check; a file that should be gone may be
\* there if the caller was warned.
THEOREM RestoresCorrect == PatchSpec => []ApplyRestores
  <1>1. ApplyInv => ApplyRestores
    <2> SUFFICES ASSUME ApplyInv, result = "SUCCESS", ~unnoticed, NEW p \in Paths
                 PROVE  \/ destination[p] = IF p \in Patched \cup RemovedPaths
                                            THEN next[p] ELSE given[p]
                        \/ p \in RemovedPaths /\ warned /\ destination[p] = given[p]
      BY DEF ApplyRestores
    <2>1. package # NoPackage
      BY DEF ApplyInv, PlaceInv
    <2>2. CASE p \in Patched
      BY <2>2 DEF ApplyInv, PlacedInv
    <2>3. CASE p \in RemovedPaths
      <3>1. destination[p] = Absent \/ warned
        BY <2>3 DEF ApplyInv, RemovedInv
      <3>2. p \notin Patched /\ next[p] = Absent
        BY <2>1, <2>3, ListFacts DEF ApplyInv
      <3>3. destination[p] = Absent \/ destination[p] = given[p]
        BY <2>3, <3>2 DEF ApplyInv, NoMixture
      <3> QED
        BY <2>3, <3>1, <3>2, <3>3
    <2>4. CASE p \notin Patched \cup RemovedPaths
      BY <2>4 DEF ApplyInv, NoMixture
    <2> QED
      BY <2>2, <2>3, <2>4
  <1> QED
    BY <1>1, ApplyInvariant, PTL

\* However many calls have died between the removal of a file and that of its
\* folder: a folder that SUCCESS leaves empty has lost the last folder in it,
\* after its own removed files; for all folders, nested in any way.
THEOREM FoldersCorrect == PatchSpec => []NoEmptyFolders
  <1>1. ApplyInv => NoEmptyFolders
    <2> SUFFICES ASSUME ApplyInv, result = "SUCCESS", NEW f \in folders, IsEmpty(f)
                 PROVE  LostSubfolderLast(f)
      BY DEF NoEmptyFolders
    <2>1. ~HasFile(f, destination) /\ ~HasFolder(f, folders)
      BY DEF IsEmpty, Present, HasFile, HasFolder
    <2>2. package # NoPackage /\ LostLast(f, Removed)
      BY <2>1 DEF ApplyInv, FoldersInv
    <2>3. DOMAIN Removed = 1..Len(Removed)
      BY <2>2 DEF ApplyInv, PackageInv, Lists, Removed
    <2> QED
      BY <2>2, <2>3 DEF LostLast, LostSubfolderLast
  <1> QED
    BY <1>1, ApplyInvariant, PTL

\* What is written is bytes.
LEMMA WrittenFile ==
  ASSUME ApplyInv, OpenDestination \/ CopyPiece \/ CloseDestination
  PROVE  \E file \in Seq(Byte) : destination' = [destination EXCEPT ![Target] = file]
  <1>1. phase \in {"open", "copy"}
    BY DEF OpenDestination, CopyPiece, CloseDestination
  <1>2. Expected \in Seq(Byte) /\ Target \in Paths /\ package # NoPackage
    BY <1>1, TargetFacts
  <1>3. temp \in Seq(Byte)
    BY <1>1, <1>2, BeginningFacts DEF ApplyInv, CopyInv
  <1>4. CASE OpenDestination
    <2>1. <<>> \in Seq(Byte)
      OBVIOUS
    <2> QED
      BY <1>4, <2>1 DEF OpenDestination
  <1>5. CASE CopyPiece
    <2> DEFINE file == destination[Target] \o Piece(temp, Copied, package.chunkSize)
    <2>1. destination[Target] \in Beginnings(temp)
      BY <1>5 DEF CopyPiece, ApplyInv, CopyInv
    <2>2. package.chunkSize \in Nat
      BY <1>2, ListFacts DEF ApplyInv
    <2>3. file \in Beginnings(temp)
      BY <1>3, <2>1, <2>2, PieceFollows DEF Copied
    <2>4. destination' = [destination EXCEPT ![Target] = file]
      <3>1. destination \in [Paths -> Content]
        BY DEF ApplyInv, PlaceInv
      <3> QED
        BY <1>2, <1>5, <3>1 DEF CopyPiece
    <2> HIDE DEF file
    <2>5. file \in Seq(Byte)
      BY <1>3, <2>3, BeginningFacts
    <2> QED
      BY <2>4, <2>5
  <1>6. CASE CloseDestination
    <2>1. PICK file \in Closing(temp) : destination' = [destination EXCEPT ![Target] = file]
      BY <1>6 DEF CloseDestination
    <2>2. file \in Seq(Byte)
      BY <1>3, WholeAndNothing, BeginningFacts DEF Closing
    <2> QED
      BY <2>1, <2>2
  <1> QED
    BY <1>4, <1>5, <1>6

\* A step that makes a file disappear removes a file the next build does not
\* have, when all patched files are in place.
LEMMA RemovalStep ==
  ASSUME ApplyInv, [PatchNext]_patchVars,
         NEW p \in Paths, destination[p] # Absent, destination'[p] = Absent
  PROVE  /\ p \in RemovedPaths
         /\ unnoticed \/ \A q \in Patched : destination[q] = next[q]
  <1>1. destination' # destination
    OBVIOUS
  <1>2. ApplyNext /\ UNCHANGED <<builds, createVars>>
    BY <1>1 DEF PatchNext, CreateStep, patchVars, applyVars
  <1>3. UNCHANGED <<builds, stage>>
    BY <1>2 DEF createVars
  <1>4. OpenDestination \/ CopyPiece \/ CloseDestination \/ RemoveFile
    BY <1>1, <1>2 DEF ApplyNext, ApplyStep, CallApply, LoadGroup, StartResource,
      SourceMissing, CopyGap, GapFails, ApplyDelta, CopyRange, RangeFails,
      AppendNothing, PatchesDone, CopyFresh, CheckFile, CheckFails, StartRemoval,
      RemoveFolder, FolderStays, NextRemoved, ApplyDone, ApplyFails, Crash, KeepDisk
  <1>5. destination \in [Paths -> Content]
    BY DEF ApplyInv, PlaceInv
  <1>6. CASE OpenDestination \/ CopyPiece \/ CloseDestination
    <2>1. PICK file \in Seq(Byte) : destination' = [destination EXCEPT ![Target] = file]
      BY <1>6, WrittenFile
    <2>2. destination'[p] = destination[p] \/ destination'[p] \in Seq(Byte)
      BY <1>5, <2>1
    <2> QED
      BY <2>2, ScenariosAssumption
  <1>7. CASE RemoveFile
    <2>1. /\ phase = "remove" /\ at <= Len(Removed)
          /\ \/ destination' = destination
             \/ destination' = [destination EXCEPT ![Doomed] = Absent]
      BY <1>7 DEF RemoveFile
    <2>2. Doomed \in RemovedPaths /\ Doomed \in Paths
      BY <2>1, DoomedFacts
    <2>3. p = Doomed
      BY <1>1, <1>5, <2>1, <2>2
    <2>4. unnoticed \/ \A q \in Patched : destination[q] = next[q]
      BY <2>1 DEF ApplyInv, PlacedInv
    <2> QED
      BY <2>2, <2>3, <2>4
  <1> QED
    BY <1>4, <1>6, <1>7

\* A file of the destination is removed only when every patched file is in
\* place, in every step of every call.
THEOREM RemovalCorrect == PatchSpec => RemovalLast
  <1>1. ApplyInv /\ [PatchNext]_patchVars =>
          [\A p \in Paths :
             destination[p] # Absent /\ destination'[p] = Absent =>
               /\ p \in RemovedPaths
               /\ unnoticed \/ \A q \in Patched : destination[q] = next[q]]_destination
    BY RemovalStep
  <1> QED
    BY <1>1, ApplyInvariant, PTL DEF PatchSpec, RemovalLast

--------------------------------------------------------------------------
(* The pairs.                                                              *)

LEMMA PairsFacts ==
  /\ Pairs \in Seq(Paths)
  /\ Len(Pairs) \in Nat
  /\ \A i, j \in 1..Len(Pairs) : Pairs[i] = Pairs[j] => i = j
  /\ \A i \in 1..Len(Pairs) : Pairs[i] \in Patched
  <1> DEFINE c == Ascending(ChangedPaths)
             n == Ascending(NewPaths)
  <1>1. Pairs \in Seq(Paths) /\ Len(Pairs) \in Nat /\ \A i \in 1..Len(Pairs) : Pairs[i] \in Patched
    BY PairsListed
  <1>2. /\ ChangedPaths \subseteq Nat /\ IsFiniteSet(ChangedPaths)
        /\ NewPaths \subseteq Nat /\ IsFiniteSet(NewPaths)
        /\ ChangedPaths \cap NewPaths = {}
    <2>1. ChangedPaths \in SUBSET Paths /\ NewPaths \in SUBSET Paths
      BY DEF ChangedPaths, NewPaths, Present
    <2>2. ChangedPaths \cap NewPaths = {}
      BY DEF ChangedPaths, NewPaths
    <2> QED
      BY <2>1, <2>2, SubsetsOfPaths
  <1>3. /\ c \in Seq(ChangedPaths) /\ Len(c) \in Nat
        /\ \A i, j \in 1..Len(c) : i < j => c[i] < c[j]
    BY <1>2, AscendingProperties
  <1>4. /\ n \in Seq(NewPaths) /\ Len(n) \in Nat
        /\ \A i, j \in 1..Len(n) : i < j => n[i] < n[j]
    BY <1>2, AscendingProperties
  <1>5. Pairs = c \o n
    BY DEF Pairs
  <1> HIDE DEF c, n
  <1>6. /\ Len(Pairs) = Len(c) + Len(n)
        /\ \A i \in 1..Len(Pairs) : Pairs[i] = IF i <= Len(c) THEN c[i] ELSE n[i - Len(c)]
    BY <1>3, <1>4, <1>5
  <1>7. ASSUME NEW i \in 1..Len(Pairs), NEW j \in 1..Len(Pairs), i < j
        PROVE  Pairs[i] # Pairs[j]
    <2>1. CASE j <= Len(c)
      <3>1. /\ i \in 1..Len(c) /\ j \in 1..Len(c)
            /\ Pairs[i] = c[i] /\ Pairs[j] = c[j]
        BY <1>3, <1>6, <1>7, <2>1
      <3>2. c[i] < c[j]
        BY <1>3, <1>7, <3>1
      <3>3. c[i] \in ChangedPaths /\ c[j] \in ChangedPaths
        BY <1>3, <3>1
      <3>4. c[i] \in Nat /\ c[j] \in Nat
        BY <1>2, <3>3
      <3> QED
        BY <3>1, <3>2, <3>4
    <2>2. CASE i <= Len(c) /\ ~(j <= Len(c))
      <3>1. /\ i \in 1..Len(c) /\ j - Len(c) \in 1..Len(n)
            /\ Pairs[i] = c[i] /\ Pairs[j] = n[j - Len(c)]
        BY <1>3, <1>4, <1>6, <2>2
      <3>2. c[i] \in ChangedPaths /\ n[j - Len(c)] \in NewPaths
        BY <1>3, <1>4, <3>1
      <3> QED
        BY <1>2, <3>1, <3>2
    <2>3. CASE ~(i <= Len(c))
      <3>1. PICK k \in 1..Len(n), l \in 1..Len(n) :
              /\ k = i - Len(c) /\ l = j - Len(c) /\ k < l
              /\ Pairs[i] = n[k] /\ Pairs[j] = n[l]
        BY <1>3, <1>4, <1>6, <1>7, <2>3
      <3>2. n[k] < n[l]
        BY <1>4, <3>1
      <3>3. n[k] \in NewPaths /\ n[l] \in NewPaths
        BY <1>4
      <3>4. n[k] \in Nat /\ n[l] \in Nat
        BY <1>2, <3>3
      <3> QED
        BY <3>1, <3>2, <3>4
    <2> QED
      BY <1>3, <2>1, <2>2, <2>3
  <1>8. ASSUME NEW i \in 1..Len(Pairs), NEW j \in 1..Len(Pairs), Pairs[i] = Pairs[j]
        PROVE  i = j
    <2>1. ~(i < j) /\ ~(j < i)
      BY <1>7, <1>8
    <2> QED
      BY <1>1, <2>1
  <1> QED
    BY <1>1, <1>8

\* The builds never change, and with them nothing that is computed from them.
LEMMA BuildsStill ==
  ASSUME builds' = builds
  PROVE  /\ previous' = previous /\ next' = next /\ given' = given /\ chunkSize' = chunkSize
         /\ ChangedPaths' = ChangedPaths /\ NewPaths' = NewPaths /\ RemovedPaths' = RemovedPaths
         /\ Pairs' = Pairs
  <1>1. previous' = previous /\ next' = next /\ given' = given /\ chunkSize' = chunkSize
    BY DEF previous, next, given, chunkSize
  <1>2. ChangedPaths' = ChangedPaths /\ NewPaths' = NewPaths /\ RemovedPaths' = RemovedPaths
    BY <1>1 DEF ChangedPaths, NewPaths, RemovedPaths, Present
  <1> QED
    BY <1>1, <1>2 DEF Pairs
--------------------------------------------------------------------------
(* What the patches of a file make of the previous one.                    *)

\* The file is made up to an offset.
MadeUpTo(made, new, offset) ==
  /\ offset < Len(new) => Len(made) = offset
  /\ Piece(made, 0, Len(new)) = Piece(new, 0, offset)

\* More bytes, made for the next `step` bytes of the file.
Continues(made, new, more, step) ==
  /\ \A j \in 1..Len(more) : Len(made) + j <= Len(new) => more[j] = new[Len(made) + j]
  /\ \/ Len(more) = step
     \/ Len(more) <= step /\ Len(made) + Len(more) >= Len(new)

LEMMA MadeFromNothing ==
  ASSUME NEW S, NEW new \in Seq(S)
  PROVE  MadeUpTo(<<>>, new, 0)
  <1>1. Piece(<<>>, 0, Len(new)) = <<>> /\ Piece(new, 0, 0) = <<>>
    BY DEF Piece, Least
  <1> QED
    BY <1>1 DEF MadeUpTo

LEMMA MadeFurther ==
  ASSUME NEW S, NEW new \in Seq(S), NEW made \in Seq(S), NEW more \in Seq(S),
         NEW offset \in Nat, NEW step \in Nat, offset < Len(new),
         MadeUpTo(made, new, offset), Continues(made, new, more, step)
  PROVE  MadeUpTo(made \o more, new, offset + step)
  <1> DEFINE all == made \o more
             n == Len(new)
             d == offset + step
  <1>1. n \in Nat /\ d \in Nat /\ Len(made) = offset /\ Len(more) \in Nat
    BY DEF MadeUpTo
  <1>2. /\ all \in Seq(S) /\ Len(all) = offset + Len(more)
        /\ \A i \in 1..Len(all) : all[i] = IF i <= offset THEN made[i] ELSE more[i - offset]
    BY <1>1
  <1>3. \A j \in 1..Len(more) : offset + j <= n => more[j] = new[offset + j]
    BY <1>1 DEF Continues
  <1>4. Len(more) = step \/ (Len(more) <= step /\ offset + Len(more) >= n)
    BY <1>1 DEF Continues
  <1> HIDE DEF all, n, d
  <1>5. ASSUME NEW i \in 1..offset PROVE made[i] = new[i]
    <2>1. i \in 1..LengthOf(made, 0, n) /\ 0 + i = i
      BY <1>1 DEF LengthOf, Least, n
    <2>2. Piece(made, 0, n) = Piece(new, 0, offset)
      BY DEF MadeUpTo, n
    <2>3. ByteAt(made, 0, i) = ByteAt(new, 0, i)
      BY <1>1, <2>1, <2>2, SameBytes
    <2> QED
      BY <2>1, <2>3 DEF ByteAt
  <1>6. ASSUME NEW i \in 1..Len(all), i <= n PROVE all[i] = new[i]
    <2>1. CASE i <= offset
      <3>1. i \in 1..offset
        BY <1>1, <1>2, <2>1
      <3>2. all[i] = made[i]
        BY <1>2, <2>1
      <3> QED
        BY <1>5, <3>1, <3>2
    <2>2. CASE ~(i <= offset)
      <3>1. PICK j \in 1..Len(more) : j = i - offset /\ offset + j = i
        BY <1>1, <1>2, <2>2
      <3> QED
        BY <1>2, <1>3, <1>6, <2>2, <3>1
    <2> QED
      BY <2>1, <2>2
  <1>7. LengthOf(all, 0, n) = LengthOf(new, 0, d) /\ LengthOf(all, 0, n) <= n
    <2>1. PICK l \in Nat : l = Len(more)
      BY <1>1
    <2>2. PICK m \in Nat : m = Len(new)
      BY <1>1
    <2>3. Len(all) = offset + l
      BY <1>2, <2>1
    <2>4. n = m /\ d = offset + step
      BY <2>2 DEF n, d
    <2>5. l = step \/ (l <= step /\ offset + l >= m)
      BY <1>4, <2>1, <2>3, <2>4
    <2>6. LengthOf(all, 0, n) = IF 0 < offset + l THEN Least(m, offset + l - 0) ELSE 0
      BY <2>3, <2>4 DEF LengthOf
    <2>7. LengthOf(new, 0, d) = IF 0 < m THEN Least(offset + step, m - 0) ELSE 0
      BY <2>2, <2>3, <2>4 DEF LengthOf
    <2> QED
      BY <2>2, <2>3, <2>4, <2>5, <2>6, <2>7 DEF Least
  <1>8. Piece(all, 0, n) = Piece(new, 0, d)
    <2>1. ASSUME NEW i \in 1..LengthOf(all, 0, n) PROVE all[0 + i] = new[0 + i]
      <3>1. i \in 1..Len(all) /\ i <= n /\ 0 + i = i
        BY <1>1, <1>2, <1>7 DEF LengthOf, Least
      <3> QED
        BY <1>6, <3>1
    <2>2. Coincide(all, 0, n, new, 0, d)
      BY <1>7, <2>1 DEF Coincide
    <2> QED
      BY <1>1, <1>2, <2>2, SamePieces
  <1>9. d < n => Len(all) = d
    <2>1. PICK l \in Nat : l = Len(more)
      BY <1>1
    <2>2. Len(all) = offset + l /\ (l = step \/ (l <= step /\ offset + l >= n))
      BY <1>2, <1>4, <2>1
    <2>3. d = offset + step
      BY DEF d
    <2> QED
      BY <1>1, <2>2, <2>3
  <1> QED
    BY <1>8, <1>9 DEF MadeUpTo, all, n, d

\* Where a number is among the multiples of another.
LEMMA PlaceOf ==
  ASSUME NEW a \in Nat, NEW m \in Nat \ {0}, NEW n \in Nat, a < m * n
  PROVE  \E k \in Nat : \E r \in 0..(m - 1) : a = m * k + r /\ k < n
  <1>1. PICK k \in Int : a = m * k + (a % m) /\ a % m \in 0..(m - 1)
    <2>1. a \in Int
      OBVIOUS
    <2> QED
      BY <2>1, Division
  <1>2. PICK r \in 0..(m - 1) : r = a % m
    BY <1>1
  <1>3. PICK x \in Int : x = m * k /\ a = x + r
    BY <1>1, <1>2
  <1>4. 0 <= k
    <2>1. m * 0 < m * k + m
      BY <1>3
    <2> QED
      BY <2>1, Multiples
  <1>5. k <= n - 1
    <2>1. m * (n - 1) + m = m * n
      OBVIOUS
    <2>2. m * k < m * (n - 1) + m
      BY <1>3, <2>1
    <2>3. n - 1 \in Int
      OBVIOUS
    <2> QED
      BY <2>2, <2>3, Multiples
  <1>6. k \in Nat /\ k < n
    BY <1>4, <1>5
  <1>7. a = m * k + r
    BY <1>1, <1>2
  <1> QED
    BY <1>6, <1>7

\* The first chunk of a match and the chunks counted behind it.
ChunkMatches(old, new, from, at0, length) ==
  Piece(old, at0, LengthOf(new, from, length)) = Piece(new, from, length)

\* A byte of one of the chunks behind the first.
ByteOf(j, length, k, r) == j = length + length * k + r + 1

AlikeBehind(old, new, from, m, length, k) ==
  Alike(new, from + length, old, m + length, length, k)

LEMMA AlikeBytes ==
  ASSUME NEW old \in Seq(Nat), NEW new \in Seq(Nat), NEW length \in Nat \ {0},
         NEW from \in Nat, NEW m \in Nat, NEW k \in Nat, NEW r \in 0..(length - 1),
         AlikeBehind(old, new, from, m, length, k),
         NEW j \in Nat, ByteOf(j, length, k, r), from + j <= Len(new)
  PROVE  ByteAt(old, m, j) = ByteAt(new, from, j)
  <1>1. PICK x \in Nat : x = length * k /\ x = k * length
    OBVIOUS
  <1>2. PICK b \in Nat : b = from + length + x
    OBVIOUS
  <1>3. PICK c \in Nat : c = m + length + x
    OBVIOUS
  <1>4. Piece(new, b, length) = Piece(old, c, length)
    <2>1. Piece(new, (from + length) + k * length, length)
            = Piece(old, (m + length) + k * length, length)
      BY DEF AlikeBehind, Alike
    <2>2. (from + length) + k * length = b /\ (m + length) + k * length = c
      BY <1>1, <1>2, <1>3
    <2> QED
      BY <2>1, <2>2
  <1>5. b + (r + 1) = from + j /\ c + (r + 1) = m + j
    <2>1. j = length + x + r + 1
      BY <1>1 DEF ByteOf
    <2> QED
      BY <1>2, <1>3, <2>1
  <1>6. PICK i \in 1..LengthOf(new, b, length) : i = r + 1
    <2>1. r + 1 \in 1..LengthOf(new, b, length)
      BY <1>2, <1>5 DEF LengthOf, Least
    <2> QED
      BY <2>1
  <1>7. ByteAt(new, b, i) = ByteAt(old, c, i)
    <2>1. length \in Nat
      OBVIOUS
    <2> QED
      BY <1>4, <2>1, SameBytes
  <1> QED
    BY <1>5, <1>6, <1>7 DEF ByteAt

\* The chunks counted behind a match, and its size.
AllAlike(old, new, from, m, length, count) ==
  \A k \in Nat : k < count => Alike(new, from, old, m + length, length, k)

IsMatchSize(size, old, m, length, count) ==
  size = Least(length * (1 + count), Len(old) - m)

\* The bytes of the match.
SameUpTo(old, new, from, m, size) ==
  \A j \in 1..size : from + j <= Len(new) => old[m + j] = new[from + j]

\* A match ends with the previous file, or with the chunks that are alike,
\* and up to there the bytes of the two files are the same - but for those
\* behind the end of the next file.
LEMMA MatchGoesOn ==
  ASSUME NEW old \in Seq(Nat), NEW new \in Seq(Nat), NEW length \in Nat \ {0},
         NEW from \in Nat, from < Len(new), NEW m \in Nat,
         ChunkMatches(old, new, from, m, length),
         NEW count \in Nat,
         NEW after, after = from + LengthOf(new, from, length),
         AllAlike(old, new, after, m, length, count),
         NEW size, IsMatchSize(size, old, m, length, count)
  PROVE  /\ size \in Nat \ {0}
         /\ m + size <= Len(old)
         /\ SameUpTo(old, new, from, m, size)
  <1> DEFINE l == LengthOf(new, from, length)
  <1>1. l \in Nat \ {0} /\ l <= length /\ l <= Len(new) - from
          /\ (l = length \/ from + l = Len(new))
    BY DEF LengthOf, Least
  <1>2. LengthOf(old, m, l) = l
    <2>1. Len(Piece(old, m, l)) = LengthOf(old, m, l)
      <3>1. l \in Nat
        BY <1>1
      <3> HIDE DEF l
      <3> QED
        BY <3>1, PieceFacts
    <2>2. Len(Piece(new, from, length)) = l
      BY PieceFacts
    <2> QED
      BY <2>1, <2>2 DEF ChunkMatches
  <1>3. m < Len(old) /\ l <= Len(old) - m
    BY <1>1, <1>2 DEF LengthOf, Least
  <1>4. PICK e \in Nat : e = length * count
    OBVIOUS
  <1>5. size = Least(length + e, Len(old) - m)
    <2>1. length * (1 + count) = length + e
      BY <1>4
    <2> QED
      BY <2>1 DEF IsMatchSize
  <1>6. size \in Nat \ {0} /\ m + size <= Len(old) /\ size <= length + e
    <2>1. PICK n \in Nat : n = Len(old)
      OBVIOUS
    <2>2. n - m \in Nat \ {0}
      BY <1>3, <2>1
    <2>3. size = IF length + e < n - m THEN length + e ELSE n - m
      BY <1>5, <2>1 DEF Least
    <2> QED
      BY <2>1, <2>2, <2>3
  <1>7. ASSUME NEW j \in 1..size, from + j <= Len(new)
        PROVE  old[m + j] = new[from + j]
    <2>1. CASE j <= l
      <3>1. j \in 1..LengthOf(old, m, l)
        BY <1>1, <1>2, <1>6, <2>1
      <3>2. Piece(old, m, l) = Piece(new, from, length)
        BY DEF ChunkMatches
      <3>3. l \in Nat
        BY <1>1
      <3> HIDE DEF l
      <3>4. ByteAt(old, m, j) = ByteAt(new, from, j)
        BY <3>1, <3>2, <3>3, SameBytes
      <3> QED
        BY <3>4 DEF ByteAt
    <2>2. CASE ~(j <= l)
      <3>1. l = length
        BY <1>1, <1>6, <1>7, <2>2
      <3>2. PICK a \in Nat : a = j - 1 - length /\ a < length * count
        <4>1. j - 1 - length \in Nat /\ j - 1 - length < e
          BY <1>6, <2>2, <3>1
        <4> QED
          BY <1>4, <4>1
      <3>3. PICK k \in Nat, r \in 0..(length - 1) : a = length * k + r /\ k < count
        BY <3>2, PlaceOf
      <3>4. PICK x \in Nat : x = length * k
        BY <3>3
      <3>5. j = length + x + r + 1
        BY <1>6, <3>2, <3>3, <3>4
      <3>6. AlikeBehind(old, new, from, m, length, k)
        BY <3>1, <3>3 DEF AlikeBehind, AllAlike
      <3>7. j \in Nat /\ ByteOf(j, length, k, r)
        BY <1>6, <3>4, <3>5 DEF ByteOf
      <3>8. ByteAt(old, m, j) = ByteAt(new, from, j)
        BY <1>7, <3>3, <3>6, <3>7, AlikeBytes
      <3> QED
        BY <3>8 DEF ByteAt
    <2> QED
      BY <2>1, <2>2
  <1> QED
    BY <1>6, <1>7 DEF SameUpTo
--------------------------------------------------------------------------
(* The patches of a file.                                                  *)

PatchType ==
  [target : Paths, dataOffset : Nat, sourceOffset : Nat, size : Nat,
   base : Seq(Byte), result : Seq(Byte), hasData : BOOLEAN]

Places(list, path) == {i \in DOMAIN list : list[i].target = path}

LEMMA PatchesOfNone ==
  ASSUME NEW list, NEW path, \A i \in DOMAIN list : list[i].target # path
  PROVE  PatchesOf(list, path) = <<>>
  <1> DEFINE order == Ascending(Places(list, path))
  <1>1. Places(list, path) = {}
    BY DEF Places
  <1>2. order \in Seq({}) /\ Len(order) = Cardinality({})
    <2>1. {} \subseteq Nat /\ IsFiniteSet({})
      BY FS_EmptySet
    <2> QED
      BY <1>1, <2>1, AscendingProperties
  <1>3. order = <<>>
    <2>1. Cardinality({}) = 0
      BY FS_EmptySet
    <2> HIDE DEF order
    <2> QED
      BY <1>2, <2>1, EmptySeq
  <1>4. PatchesOf(list, path) = [k \in DOMAIN order |-> list[order[k]]]
    BY DEF PatchesOf, Places
  <1> HIDE DEF order
  <1>5. PatchesOf(list, path) = [k \in {} |-> list[order[k]]]
    BY <1>3, <1>4
  <1> QED
    BY <1>5

LEMMA PlacesFacts ==
  ASSUME NEW list \in Seq(PatchType), NEW path
  PROVE  /\ Places(list, path) \subseteq Nat
         /\ IsFiniteSet(Places(list, path))
         /\ Ascending(Places(list, path)) \in Seq(Places(list, path))
         /\ Places(list, path) \subseteq 1..Len(list)
         /\ PatchesOf(list, path) \in Seq(PatchType)
         /\ Len(PatchesOf(list, path)) = Len(Ascending(Places(list, path)))
         /\ \A k \in 1..Len(PatchesOf(list, path)) :
              PatchesOf(list, path)[k] = list[Ascending(Places(list, path))[k]]
  <1> DEFINE S == Places(list, path)
             order == Ascending(S)
             p == PatchesOf(list, path)
  <1>1. S \subseteq 1..Len(list) /\ S \subseteq Nat /\ IsFiniteSet(S)
    <2>1. S \subseteq 1..Len(list)
      BY DEF Places
    <2>2. IsFiniteSet(1..Len(list))
      BY FS_Interval
    <2> QED
      BY <2>1, <2>2, FS_Subset
  <1> HIDE DEF S
  <1>2. order \in Seq(S)
    BY <1>1, AscendingProperties
  <1>3. p = [k \in DOMAIN order |-> list[order[k]]]
    BY DEF PatchesOf, Places, S
  <1> HIDE DEF order, p
  <1>4. DOMAIN order = 1..Len(order) /\ Len(order) \in Nat
    BY <1>2
  <1>5. ASSUME NEW k \in 1..Len(order) PROVE list[order[k]] \in PatchType
    <2>1. order[k] \in S
      BY <1>2, ElementOfSeq
    <2>2. order[k] \in 1..Len(list)
      BY <1>1, <2>1
    <2> QED
      BY <2>2, ElementOfSeq
  <1>6. p \in Seq(PatchType) /\ Len(p) = Len(order)
    BY <1>3, <1>4, <1>5
  <1>7. \A k \in 1..Len(p) : p[k] = list[order[k]]
    BY <1>3, <1>4, <1>6
  <1> QED
    BY <1>1, <1>2, <1>6, <1>7 DEF S, order, p

LEMMA PatchesOfAppend ==
  ASSUME NEW list \in Seq(PatchType), NEW x \in PatchType
  PROVE  PatchesOf(Append(list, x), x.target) = Append(PatchesOf(list, x.target), x)
  <1> DEFINE path == x.target
             more == Append(list, x)
             n == Len(list)
             S == Places(list, path)
             T == Places(more, path)
             p == PatchesOf(list, path)
             q == PatchesOf(more, path)
  <1>1. /\ n \in Nat /\ more \in Seq(PatchType) /\ Len(more) = n + 1
        /\ more[n + 1] = x /\ \A i \in 1..n : more[i] = list[i]
    OBVIOUS
  <1>2. T = S \cup {n + 1}
    BY <1>1 DEF Places
  <1> HIDE DEF path, more
  <1>3. /\ S \subseteq Nat /\ IsFiniteSet(S) /\ S \subseteq 1..n
        /\ Ascending(S) \in Seq(S)
        /\ p \in Seq(PatchType) /\ Len(p) = Len(Ascending(S))
        /\ \A k \in 1..Len(p) : p[k] = list[Ascending(S)[k]]
    BY PlacesFacts
  <1>4. /\ q \in Seq(PatchType) /\ Len(q) = Len(Ascending(T))
        /\ \A k \in 1..Len(q) : q[k] = more[Ascending(T)[k]]
    BY <1>1, PlacesFacts
  <1>5. Ascending(T) = Append(Ascending(S), n + 1)
    <2>1. n + 1 \in Nat /\ \A i \in S : i < n + 1
      BY <1>1, <1>3
    <2> HIDE DEF S, T, n
    <2> QED
      BY <1>2, <1>3, <2>1, AscendingGrows
  <1> HIDE DEF S, T, p, q, n
  <1>6. PICK a : a = Ascending(S) /\ a \in Seq(S) /\ Ascending(T) = Append(a, n + 1)
    BY <1>3, <1>5
  <1>7. Len(p) = Len(a) /\ Len(q) = Len(a) + 1 /\ Len(a) \in Nat
    BY <1>3, <1>4, <1>6
  <1>8. ASSUME NEW k \in 1..Len(q) PROVE q[k] = Append(p, x)[k]
    <2>1. CASE k \in 1..Len(a)
      <3>1. q[k] = more[a[k]]
        BY <1>4, <1>6, <2>1
      <3>2. a[k] \in 1..n
        <4>1. a[k] \in S
          BY <1>6, <2>1, ElementOfSeq
        <4> QED
          BY <1>3, <4>1
      <3>3. p[k] = list[a[k]]
        BY <1>3, <1>6, <1>7, <2>1
      <3>4. Append(p, x)[k] = p[k]
        BY <1>3, <1>7, <2>1
      <3> QED
        BY <1>1, <3>1, <3>2, <3>3, <3>4
    <2>2. CASE k = Len(a) + 1
      <3>1. q[k] = more[n + 1]
        BY <1>4, <1>6, <1>7, <2>2
      <3>2. Append(p, x)[k] = x
        BY <1>3, <1>7, <2>2
      <3> QED
        BY <1>1, <3>1, <3>2
    <2> QED
      BY <1>7, <2>1, <2>2
  <1>9. q = Append(p, x)
    <2>1. Append(p, x) \in Seq(PatchType) /\ Len(Append(p, x)) = Len(q)
      BY <1>3, <1>7
    <2> QED
      BY <1>4, <1>8, <2>1, SeqEqual
  <1> QED
    BY <1>9 DEF p, q, path, more

\* What one patch makes.
Made(x, file) ==
  IF x.hasData THEN x.result ELSE Piece(file, x.sourceOffset, x.size)

LEMMA RebuiltAppend ==
  ASSUME NEW list \in Seq(PatchType), NEW x \in PatchType, NEW file \in Seq(Byte)
  PROVE  /\ Made(x, file) \in Seq(Byte)
         /\ Rebuilt(list, file) \in Seq(Byte)
         /\ Rebuilt(Append(list, x), file) = Rebuilt(list, file) \o Made(x, file)
  <1> DEFINE parts(l) == [i \in DOMAIN l |-> Made(l[i], file)]
             more == Append(list, x)
             n == Len(list)
  <1>1. ASSUME NEW y \in PatchType PROVE Made(y, file) \in Seq(Byte)
    <2>1. y.result \in Seq(Byte) /\ y.sourceOffset \in Nat /\ y.size \in Nat
      BY DEF PatchType
    <2>2. Piece(file, y.sourceOffset, y.size) \in Seq(Byte)
      BY <2>1, PieceFacts
    <2> QED
      BY <2>1, <2>2 DEF Made
  <1>2. Rebuilt(list, file) = FlattenSeq(parts(list)) /\ Rebuilt(more, file) = FlattenSeq(parts(more))
    BY DEF Rebuilt, Made
  <1>3. /\ n \in Nat /\ more \in Seq(PatchType) /\ Len(more) = n + 1
        /\ more[n + 1] = x /\ \A i \in 1..n : more[i] = list[i]
        /\ DOMAIN list = 1..n /\ DOMAIN more = 1..(n + 1)
    OBVIOUS
  <1> HIDE DEF more, n
  <1>4. parts(list) \in Seq(Seq(Byte)) /\ Len(parts(list)) = n
    <2>1. \A i \in 1..n : Made(list[i], file) \in Seq(Byte)
      BY <1>1, <1>3
    <2> QED
      BY <1>3, <2>1
  <1>5. parts(more) = Append(parts(list), Made(x, file))
    <2> DEFINE s == parts(more)
               t == Append(parts(list), Made(x, file))
    <2>1. \A i \in 1..(n + 1) : Made(more[i], file) \in Seq(Byte)
      BY <1>1, <1>3
    <2>2. s \in Seq(Seq(Byte)) /\ Len(s) = n + 1
      BY <1>3, <2>1
    <2>3. t \in Seq(Seq(Byte)) /\ Len(t) = n + 1
      BY <1>1, <1>3, <1>4
    <2>4. ASSUME NEW i \in 1..(n + 1) PROVE s[i] = t[i]
      <3>1. s[i] = Made(more[i], file)
        BY <1>3
      <3>2. CASE i \in 1..n
        <4>1. t[i] = parts(list)[i] /\ parts(list)[i] = Made(list[i], file)
          BY <1>3, <1>4, <3>2
        <4> QED
          BY <1>3, <3>1, <3>2, <4>1
      <3>3. CASE i = n + 1
        BY <1>3, <1>4, <3>1, <3>3
      <3> QED
        BY <1>3, <3>2, <3>3
    <2> HIDE DEF s, t
    <2>5. s = t
      BY <2>2, <2>3, <2>4, SeqEqual
    <2> QED
      BY <2>5 DEF s, t
  <1> HIDE DEF parts
  <1>6. /\ FlattenSeq(parts(list)) \in Seq(Byte)
        /\ FlattenSeq(Append(parts(list), Made(x, file))) = FlattenSeq(parts(list)) \o Made(x, file)
    BY <1>1, <1>4, FlattenAppend
  <1> QED
    BY <1>1, <1>2, <1>5, <1>6 DEF more
--------------------------------------------------------------------------
(* Streams.                                                                *)

StreamType == [position : Nat, reading : BOOLEAN]

LEMMA ReadFacts ==
  ASSUME NEW stream \in StreamType, NEW S, NEW file \in Seq(S), NEW count \in Nat,
         stream.position <= Len(file)
  PROVE  /\ Read(stream, file, count) \in StreamType
         /\ Read(stream, file, count).position = Least(Len(file), stream.position + count)
         /\ Read(stream, file, count).position <= Len(file)
  <1> DEFINE end == Greatest(stream.position, Least(stream.position + count, Len(file)))
  <1>1. stream.position \in Nat /\ Len(file) \in Nat
    BY DEF StreamType
  <1>2. end \in Nat /\ end <= Len(file) /\ end = Least(Len(file), stream.position + count)
    BY <1>1 DEF Greatest, Least
  <1> HIDE DEF end
  <1>3. Read(stream, file, count) = [position |-> end, reading |-> end # Len(file)]
    BY DEF Read, end
  <1>4. (end # Len(file)) \in BOOLEAN
    OBVIOUS
  <1> QED
    BY <1>2, <1>3, <1>4 DEF StreamType

LEMMA StartReadFacts == StartRead \in StreamType /\ StartRead.position = 0
  BY DEF StartRead, StreamType
--------------------------------------------------------------------------
(* The inductive invariant of CreatePatch, in parts.                       *)

PairInv ==
  /\ builds \in Scenarios
  /\ stage \in {"pair", "chunk", "document", "created", "failed"}
  /\ pair \in Nat \ {0} /\ pair <= Len(Pairs) + 1
  /\ blind \in BOOLEAN

\* No pair but those the loop has come to has patches.
ListInv ==
  /\ patches \in Seq(PatchType)
  /\ \A i \in DOMAIN patches, j \in 1..Len(Pairs) :
       patches[i].target = Pairs[j] =>
         j < pair \/ (j = pair /\ stage \in {"chunk", "failed"})

\* The next stream is where the loop over the chunks is.
StreamInv ==
  stage = "chunk" =>
    /\ pair <= Len(Pairs) /\ Path \in ChangedPaths /\ Old # <<>>
    /\ dataOffset \in Nat /\ sourceOffset \in Nat
    /\ previousIn \in StreamType /\ previousIn.position <= Len(Old)
    /\ nextIn \in StreamType /\ nextIn.position = Least(Len(New), dataOffset)

\* The index is the one of the pair, as far as it could be written.
IndexInv ==
  stage = "chunk" =>
    /\ index \in Seq(Seq(EntryType))
    /\ ~blind => index = Generate(Old, New, chunkSize, {})

CreateInv ==
  /\ PairInv
  /\ ListInv
  /\ StreamInv
  /\ IndexInv
  /\ PatchesRebuild

LEMMA RebuildMade ==
  PatchesRebuild <=>
    (stage = "chunk" => MadeUpTo(Rebuilt(PatchesOf(patches, Path), Old), New, dataOffset))
  BY DEF PatchesRebuild, MadeUpTo

\* What the loop over the chunks may rely on.
LEMMA ChunkStageFacts ==
  ASSUME PairInv, pair <= Len(Pairs), Path \in ChangedPaths
  PROVE  /\ Path \in Paths /\ Path = Pairs[pair] /\ pair \in 1..Len(Pairs)
         /\ Old \in Seq(Byte) /\ New \in Seq(Byte)
         /\ Old \in Seq(Nat) /\ New \in Seq(Nat)
         /\ Len(Old) \in Nat /\ Len(New) \in Nat
         /\ chunkSize \in Nat \ {0}
  <1>1. Path \in Paths /\ previous[Path] # Absent /\ next[Path] # Absent
    BY DEF ChangedPaths, Present
  <1>2. previous \in [Paths -> Content] /\ next \in [Paths -> Content] /\ chunkSize \in Nat \ {0}
    BY BuildsTyped DEF PairInv
  <1>3. Old \in Seq(Byte) /\ New \in Seq(Byte)
    BY <1>1, <1>2 DEF Content, Old, New
  <1>4. Old \in Seq(Nat) /\ New \in Seq(Nat)
    BY <1>3, ScenariosAssumption, SeqMonotonic
  <1>5. Path = Pairs[pair] /\ pair \in 1..Len(Pairs)
    BY PairsFacts DEF Path, PairInv
  <1> QED
    BY <1>1, <1>2, <1>3, <1>4, <1>5

LEMMA CreateInvInit == PatchInit => CreateInv
  <1> SUFFICES ASSUME PatchInit PROVE CreateInv
    OBVIOUS
  <1> USE DEF PatchInit, CreateInit
  <1>1. PairInv
    <2>1. 1 <= Len(Pairs) + 1
      BY PairsFacts
    <2>2. blind \in BOOLEAN
      BY Zenon
    <2>3. builds \in Scenarios /\ stage = "pair" /\ pair = 1
      OBVIOUS
    <2> HIDE DEF PatchInit, CreateInit
    <2> QED
      BY <2>1, <2>2, <2>3 DEF PairInv
  <1>2. ListInv
    BY DEF ListInv
  <1>3. StreamInv /\ IndexInv /\ PatchesRebuild
    BY DEF StreamInv, IndexInv, PatchesRebuild
  <1> QED
    BY <1>1, <1>2, <1>3 DEF CreateInv
--------------------------------------------------------------------------
(* The steps of CreatePatch.                                               *)

\* The steps that leave the patches alone and no pair open.
Leaving ==
  /\ UNCHANGED <<builds, patches, blind>>
  /\ stage' \in {"pair", "document", "created", "failed"}
  /\ \/ pair' = pair /\ (stage # "chunk" \/ stage' = "failed")
        /\ (stage = "failed" => stage' = "failed")
     \/ pair' = pair + 1 /\ pair <= Len(Pairs) /\ stage # "failed"

LEMMA LeavingKeeps ==
  ASSUME CreateInv, Leaving
  PROVE  CreateInv'
  <1>1. Pairs' = Pairs /\ Len(Pairs) \in Nat
    BY BuildsStill, PairsFacts DEF Leaving
  <1>2. pair \in Nat \ {0}
    BY DEF CreateInv, PairInv
  <1>3. PairInv'
    BY <1>1, <1>2 DEF CreateInv, PairInv, Leaving
  <1>4. ListInv'
    <2>1. patches' = patches /\ patches \in Seq(PatchType)
      BY DEF CreateInv, ListInv, Leaving
    <2>2. ASSUME NEW i \in DOMAIN patches, NEW j \in 1..Len(Pairs),
                 patches[i].target = Pairs[j]
          PROVE  j < pair' \/ (j = pair' /\ stage' \in {"chunk", "failed"})
      <3>1. j < pair \/ (j = pair /\ stage \in {"chunk", "failed"})
        BY <2>2 DEF CreateInv, ListInv
      <3> QED
        BY <1>2, <3>1 DEF Leaving
    <2> QED
      BY <1>1, <2>1, <2>2 DEF ListInv
  <1>5. StreamInv' /\ IndexInv' /\ PatchesRebuild'
    BY DEF StreamInv, IndexInv, PatchesRebuild, Leaving
  <1> QED
    BY <1>3, <1>4, <1>5 DEF CreateInv

LEMMA OpenPairKeeps ==
  ASSUME CreateInv, OpenPair, builds' = builds
  PROVE  CreateInv'
  <1>1. /\ Pairs' = Pairs /\ Len(Pairs) \in Nat /\ chunkSize' = chunkSize
        /\ previous' = previous /\ next' = next /\ ChangedPaths' = ChangedPaths
    BY BuildsStill, PairsFacts
  <1>2. /\ stage = "pair" /\ pair <= Len(Pairs) /\ ~(Path \in NewPaths \/ Old = <<>>)
        /\ stage' = "chunk" /\ previousIn' = StartRead /\ nextIn' = StartRead
        /\ dataOffset' = 0 /\ sourceOffset' = 0 /\ pair' = pair /\ patches' = patches
    BY DEF OpenPair
  <1>3. PICK lost : index' = Generate(Old, New, chunkSize, lost) /\ blind' = (lost # {})
    BY DEF OpenPair
  <1>4. pair \in Nat \ {0} /\ PairInv
    BY DEF CreateInv, PairInv
  <1>5. Path \in ChangedPaths
    <2>1. pair \in 1..Len(Pairs) /\ Path = Pairs[pair]
      BY <1>1, <1>2, <1>4 DEF Path
    <2>2. Path \in Patched
      BY <2>1, PairsFacts
    <2> QED
      BY <1>2, <2>2 DEF Patched
  <1>6. /\ Old \in Seq(Byte) /\ New \in Seq(Byte)
        /\ Old \in Seq(Nat) /\ Len(Old) \in Nat /\ Len(New) \in Nat
        /\ chunkSize \in Nat \ {0} /\ Path = Pairs[pair] /\ pair \in 1..Len(Pairs)
    BY <1>2, <1>4, <1>5, ChunkStageFacts
  <1>7. Path' = Path /\ Old' = Old /\ New' = New
    BY <1>1, <1>2 DEF Path, Old, New
  <1>8. PairInv'
    <2>1. blind' \in BOOLEAN
      BY <1>3
    <2>2. builds \in Scenarios
      BY <1>4 DEF PairInv
    <2> QED
      BY <1>1, <1>2, <1>4, <2>1, <2>2 DEF PairInv
  <1>9. ListInv'
    BY <1>1, <1>2 DEF CreateInv, ListInv
  <1>10. StreamInv'
    <2>1. Least(Len(New), 0) = 0
      BY <1>6 DEF Least
    <2> QED
      BY <1>1, <1>2, <1>5, <1>6, <1>7, <2>1, StartReadFacts DEF StreamInv
  <1>11. IndexInv'
    <2>1. index' \in Seq(Seq(EntryType))
      BY <1>3, <1>6, IndexTyped
    <2>2. ~blind' => lost = {}
      BY <1>3, Zenon
    <2>3. ~blind' => index' = Generate(Old, New, chunkSize, {})
      BY <1>3, <2>2
    <2> QED
      BY <1>1, <1>7, <2>1, <2>3 DEF IndexInv
  <1>12. PatchesRebuild'
    <2>1. \A i \in DOMAIN patches : patches[i].target # Path
      <3> SUFFICES ASSUME NEW i \in DOMAIN patches, patches[i].target = Path PROVE FALSE
        OBVIOUS
      <3>1. pair < pair \/ (pair = pair /\ stage \in {"chunk", "failed"})
        BY <1>6 DEF CreateInv, ListInv
      <3> QED
        BY <1>2, <1>4, <3>1
    <2>2. PatchesOf(patches, Path) = <<>>
      BY <2>1, PatchesOfNone
    <2>3. Rebuilt(<<>>, Old) = <<>>
      <3>1. Rebuilt(<<>>, Old) = FlattenSeq(<<>>)
        BY DEF Rebuilt
      <3> QED
        BY <3>1, FlattenEmpty
    <2>4. MadeUpTo(<<>>, New, 0)
      BY <1>6, MadeFromNothing
    <2>5. MadeUpTo(Rebuilt(PatchesOf(patches, Path), Old), New, dataOffset)'
      BY <1>2, <1>7, <2>2, <2>3, <2>4 DEF MadeUpTo
    <2> QED
      BY <2>5 DEF PatchesRebuild, MadeUpTo
  <1> QED
    BY <1>8, <1>9, <1>10, <1>11, <1>12 DEF CreateInv

\* One patch more for the file the loop is at.
Adding(x) ==
  /\ stage = "chunk" /\ stage' = "chunk"
  /\ UNCHANGED <<builds, pair, index, blind>>
  /\ patches' = Append(patches, x)
  /\ dataOffset < Len(New)

LEMMA AddingStill ==
  ASSUME NEW x, Adding(x)
  PROVE  /\ Pairs' = Pairs /\ chunkSize' = chunkSize /\ ChangedPaths' = ChangedPaths
         /\ Path' = Path /\ Old' = Old /\ New' = New
  <1>1. /\ Pairs' = Pairs /\ chunkSize' = chunkSize /\ previous' = previous /\ next' = next
        /\ ChangedPaths' = ChangedPaths
    BY BuildsStill DEF Adding
  <1>2. Path' = Path
    BY <1>1 DEF Path, Adding
  <1> QED
    BY <1>1, <1>2 DEF Old, New

LEMMA AddingKeeps ==
  ASSUME CreateInv, NEW x \in PatchType, x.target = Path, Adding(x)
  PROVE  PairInv' /\ ListInv' /\ IndexInv'
  <1>1. /\ Pairs' = Pairs /\ chunkSize' = chunkSize /\ Path' = Path /\ Old' = Old /\ New' = New
    BY AddingStill
  <1>2. /\ PairInv /\ pair <= Len(Pairs) /\ Path \in ChangedPaths
        /\ pair \in Nat \ {0} /\ stage = "chunk" /\ stage' = "chunk" /\ pair' = pair
        /\ patches \in Seq(PatchType) /\ patches' = Append(patches, x)
    BY DEF CreateInv, PairInv, StreamInv, ListInv, Adding
  <1>3. Path = Pairs[pair] /\ pair \in 1..Len(Pairs)
    BY <1>2, ChunkStageFacts
  <1>4. PairInv'
    BY <1>1, <1>2 DEF PairInv, Adding
  <1>5. ListInv'
    <2>1. /\ patches' \in Seq(PatchType) /\ Len(patches) \in Nat
          /\ DOMAIN patches' = 1..(Len(patches) + 1)
          /\ patches'[Len(patches) + 1] = x
          /\ \A i \in 1..Len(patches) : patches'[i] = patches[i]
      BY <1>2
    <2>2. ASSUME NEW i \in DOMAIN patches', NEW j \in 1..Len(Pairs),
                 patches'[i].target = Pairs[j]
          PROVE  j < pair \/ j = pair
      <3>1. CASE i \in 1..Len(patches)
        <4>1. i \in DOMAIN patches /\ patches[i].target = Pairs[j]
          BY <1>2, <2>1, <2>2, <3>1
        <4> QED
          BY <4>1 DEF CreateInv, ListInv
      <3>2. CASE i = Len(patches) + 1
        <4>1. Pairs[j] = Pairs[pair]
          BY <1>3, <2>1, <2>2, <3>2
        <4> QED
          BY <1>3, <4>1, PairsFacts
      <3> QED
        BY <2>1, <3>1, <3>2
    <2> QED
      BY <1>1, <1>2, <2>1, <2>2 DEF ListInv
  <1>6. IndexInv'
    BY <1>1, <1>2 DEF CreateInv, IndexInv, Adding
  <1> QED
    BY <1>4, <1>5, <1>6

LEMMA AddingRebuilds ==
  ASSUME CreateInv, NEW x \in PatchType, x.target = Path, Adding(x),
         NEW step \in Nat, dataOffset' = dataOffset + step,
         Continues(Rebuilt(PatchesOf(patches, Path), Old), New, Made(x, Old), step)
  PROVE  PatchesRebuild'
  <1> DEFINE list == PatchesOf(patches, Path)
  <1>1. Path' = Path /\ Old' = Old /\ New' = New
    BY AddingStill
  <1>2. /\ PairInv /\ pair <= Len(Pairs) /\ Path \in ChangedPaths /\ dataOffset \in Nat
        /\ patches \in Seq(PatchType) /\ patches' = Append(patches, x) /\ dataOffset < Len(New)
    BY DEF CreateInv, StreamInv, ListInv, Adding
  <1>3. Old \in Seq(Byte) /\ New \in Seq(Byte)
    BY <1>2, ChunkStageFacts
  <1>4. list \in Seq(PatchType)
    BY <1>2, PlacesFacts
  <1>5. PatchesOf(Append(patches, x), Path) = Append(list, x)
    BY <1>2, PatchesOfAppend
  <1> HIDE DEF list
  <1>6. /\ Made(x, Old) \in Seq(Byte)
        /\ Rebuilt(list, Old) \in Seq(Byte)
        /\ Rebuilt(Append(list, x), Old) = Rebuilt(list, Old) \o Made(x, Old)
    BY <1>3, <1>4, RebuiltAppend
  <1>7. MadeUpTo(Rebuilt(list, Old), New, dataOffset)
    BY RebuildMade DEF CreateInv, Adding, list
  <1>8. Continues(Rebuilt(list, Old), New, Made(x, Old), step)
    BY DEF list
  <1>9. MadeUpTo(Rebuilt(list, Old) \o Made(x, Old), New, dataOffset + step)
    <2>1. PICK made : made = Rebuilt(list, Old)
      OBVIOUS
    <2>2. PICK more : more = Made(x, Old)
      OBVIOUS
    <2>3. made \in Seq(Byte) /\ more \in Seq(Byte)
      BY <1>6, <2>1, <2>2
    <2>4. MadeUpTo(made, New, dataOffset) /\ Continues(made, New, more, step)
      BY <1>7, <1>8, <2>1, <2>2
    <2>5. MadeUpTo(made \o more, New, dataOffset + step)
      BY <1>2, <1>3, <2>3, <2>4, MadeFurther
    <2> QED
      BY <2>1, <2>2, <2>5
  <1>10. MadeUpTo(Rebuilt(PatchesOf(patches', Path), Old), New, dataOffset')
    BY <1>2, <1>5, <1>6, <1>9
  <1>11. MadeUpTo(Rebuilt(PatchesOf(patches, Path), Old), New, dataOffset)'
    BY <1>1, <1>10 DEF MadeUpTo
  <1> QED
    BY <1>11 DEF PatchesRebuild, MadeUpTo

\* A turn of the loop that finds a match of some bytes.
MatchPatch(m, size) == NewPatch(m, size, <<>>, <<>>, FALSE)

Matches(m, size) ==
  /\ size # 0
  /\ m + size <= Len(Old)
  /\ SameUpTo(Old, New, dataOffset, m, size)
  /\ MatchPatch(m, size) \in PatchType
  /\ Adding(MatchPatch(m, size))
  /\ previousIn' = [position |-> Least(Len(Old), m + size), reading |-> m + size < Len(Old)]
  /\ nextIn' = NextAfterMatch(size)
  /\ dataOffset' = dataOffset + size
  /\ sourceOffset' = m + size

LEMMA MatchAdds ==
  ASSUME CreateInv, MatchChunk, builds' = builds
  PROVE  \E m, size \in Nat : Matches(m, size)
  <1> DEFINE after == nextIn.position + Len(NextChunk)
             counted == CountMatchingChunks(New, after, Old, Match + chunkSize, chunkSize)
             size == MatchSize(Match, 1 + counted)
             x == NewPatch(Match, size, <<>>, <<>>, FALSE)
             end == Match + size
  <1>1. /\ stage = "chunk" /\ dataOffset < Len(New) /\ Match # NoMatch
        /\ UNCHANGED <<stage, pair, index, blind, package>>
        /\ patches' = Append(patches, x)
        /\ previousIn' = [position |-> Least(Len(Old), end), reading |-> end < Len(Old)]
        /\ nextIn' = NextAfterMatch(size)
        /\ dataOffset' = dataOffset + size
        /\ sourceOffset' = end
    BY DEF MatchChunk, MoreChunks
  <1> HIDE DEF size, counted, after, x, end
  <1>2. /\ PairInv /\ pair <= Len(Pairs) /\ Path \in ChangedPaths
        /\ dataOffset \in Nat /\ index \in Seq(Seq(EntryType))
        /\ nextIn \in StreamType /\ nextIn.position = Least(Len(New), dataOffset)
    BY <1>1 DEF CreateInv, StreamInv, IndexInv
  <1>3. /\ Path \in Paths
        /\ Old \in Seq(Nat) /\ New \in Seq(Nat) /\ New \in Seq(Byte) /\ Old \in Seq(Byte)
        /\ Len(Old) \in Nat /\ Len(New) \in Nat
        /\ chunkSize \in Nat \ {0}
    BY <1>2, ChunkStageFacts
  <1>4. nextIn.position = dataOffset
    BY <1>1, <1>2, <1>3 DEF Least
  <1>5. NextChunk = Piece(New, dataOffset, chunkSize)
    BY <1>4 DEF NextChunk
  <1>6. /\ Len(NextChunk) = LengthOf(New, dataOffset, chunkSize)
        /\ LengthOf(New, dataOffset, chunkSize) \in Nat
    BY <1>2, <1>3, <1>5, PieceFacts
  <1>7. Match \in Nat /\ ChunkMatches(Old, New, dataOffset, Match, chunkSize)
    <2>1. Match = FindMatchingChunk(index, Old, NextChunk)
      BY <1>1 DEF Match
    <2>2. /\ FindMatchingChunk(index, Old, NextChunk) \in Nat
          /\ Piece(Old, FindMatchingChunk(index, Old, NextChunk), Len(NextChunk)) = NextChunk
      BY <1>1, <1>2, <2>1, MatchIsReal
    <2>3. Match \in Nat /\ Piece(Old, Match, Len(NextChunk)) = NextChunk
      BY <2>1, <2>2
    <2> QED
      BY <1>5, <1>6, <2>3 DEF ChunkMatches
  <1>8. PICK m \in Nat : m = Match
    BY <1>7
  <1>9. after = dataOffset + LengthOf(New, dataOffset, chunkSize)
    BY <1>4, <1>6 DEF after
  <1>10. /\ counted \in Nat
         /\ AllAlike(Old, New, after, m, chunkSize, counted)
    BY <1>3, <1>8, CountFacts DEF counted, AllAlike
  <1>11. /\ size \in Nat \ {0}
         /\ m + size <= Len(Old)
         /\ SameUpTo(Old, New, dataOffset, m, size)
    <2>1. IsMatchSize(size, Old, m, chunkSize, counted)
      BY <1>8 DEF size, MatchSize, IsMatchSize
    <2>2. after = dataOffset + LengthOf(New, dataOffset, chunkSize)
      BY <1>9
    <2>3. ChunkMatches(Old, New, dataOffset, m, chunkSize)
      BY <1>7, <1>8
    <2> QED
      BY <1>1, <1>2, <1>3, <1>10, <2>1, <2>2, <2>3, MatchGoesOn
  <1>12. x \in PatchType
    <2>1. x = [target |-> Path, dataOffset |-> dataOffset, sourceOffset |-> m,
               size |-> size, base |-> <<>>, result |-> <<>>, hasData |-> FALSE]
      BY <1>8 DEF x, NewPatch
    <2>2. <<>> \in Seq(Byte)
      BY EmptySeq
    <2> QED
      BY <1>2, <1>3, <1>11, <2>1, <2>2 DEF PatchType
  <1>13. Adding(x)
    BY <1>1 DEF Adding
  <1>14. x = MatchPatch(m, size) /\ end = m + size
    BY <1>8 DEF x, end, MatchPatch
  <1>15. Matches(m, size)
    BY <1>1, <1>11, <1>12, <1>13, <1>14 DEF Matches
  <1> QED
    BY <1>11, <1>15

LEMMA MatchChunkKeeps ==
  ASSUME CreateInv, MatchChunk, builds' = builds
  PROVE  CreateInv'
  <1>1. PICK m \in Nat, size \in Nat : Matches(m, size)
    BY MatchAdds
  <1> DEFINE x == MatchPatch(m, size)
             end == m + size
  <1>2. /\ size \in Nat \ {0} /\ m + size <= Len(Old) /\ SameUpTo(Old, New, dataOffset, m, size)
        /\ x \in PatchType /\ Adding(x)
        /\ previousIn' = [position |-> Least(Len(Old), end), reading |-> end < Len(Old)]
        /\ nextIn' = NextAfterMatch(size)
        /\ dataOffset' = dataOffset + size
        /\ sourceOffset' = end
    BY <1>1 DEF Matches
  <1>3. x.target = Path /\ Made(x, Old) = Piece(Old, m, size)
    BY DEF MatchPatch, NewPatch, Made
  <1> HIDE DEF x, end
  <1>4. stage = "chunk" /\ dataOffset < Len(New) /\ pair' = pair
    BY <1>2 DEF Adding
  <1>5. /\ PairInv /\ pair <= Len(Pairs) /\ Path \in ChangedPaths /\ Old # <<>>
        /\ dataOffset \in Nat
        /\ nextIn \in StreamType /\ nextIn.position = Least(Len(New), dataOffset)
    BY <1>4 DEF CreateInv, StreamInv
  <1>6. /\ New \in Seq(Byte) /\ Old \in Seq(Byte)
        /\ Len(Old) \in Nat /\ Len(New) \in Nat
        /\ chunkSize \in Nat \ {0}
    BY <1>5, ChunkStageFacts
  <1>7. nextIn.position = dataOffset
    BY <1>4, <1>5, <1>6 DEF Least
  <1>8. PairInv' /\ ListInv' /\ IndexInv'
    BY <1>2, <1>3, AddingKeeps
  <1>9. PatchesRebuild'
    <2> DEFINE made == Rebuilt(PatchesOf(patches, Path), Old)
               more == Piece(Old, m, size)
    <2>1. Len(made) = dataOffset
      BY <1>4, RebuildMade DEF CreateInv, MadeUpTo
    <2>2. Len(more) = size
      <3>1. LengthOf(Old, m, size) = size
        BY <1>2, <1>6 DEF LengthOf, Least
      <3>2. Len(more) = LengthOf(Old, m, size)
        BY <1>2, <1>6, PieceFacts
      <3> QED
        BY <3>1, <3>2
    <2>3. ASSUME NEW j \in 1..size, dataOffset + j <= Len(New)
          PROVE  more[j] = New[dataOffset + j]
      <3>1. j \in 1..LengthOf(Old, m, size)
        BY <1>2, <1>6 DEF LengthOf, Least
      <3>2. \A i \in 1..LengthOf(Old, m, size) : Piece(Old, m, size)[i] = Old[m + i]
        BY <1>6, PieceFacts
      <3>3. more[j] = Old[m + j]
        BY <3>1, <3>2
      <3> QED
        BY <1>2, <2>3, <3>3 DEF SameUpTo
    <2> HIDE DEF made, more
    <2>4. Continues(made, New, more, size)
      BY <2>1, <2>2, <2>3 DEF Continues
    <2> QED
      BY <1>2, <1>3, <2>4, AddingRebuilds DEF made, more
  <1>10. StreamInv'
    <2>1. Pairs' = Pairs /\ ChangedPaths' = ChangedPaths /\ Path' = Path /\ Old' = Old /\ New' = New
      BY <1>2, AddingStill
    <2>2. end \in Nat /\ end <= Len(Old)
      BY <1>2 DEF end
    <2>3. previousIn' \in StreamType /\ previousIn'.position <= Len(Old)
      <3>1. Least(Len(Old), end) \in Nat /\ Least(Len(Old), end) <= Len(Old)
        BY <1>6, <2>2 DEF Least
      <3>2. (end < Len(Old)) \in BOOLEAN
        OBVIOUS
      <3> QED
        BY <1>2, <3>1, <3>2 DEF StreamType
    <2>4. nextIn' \in StreamType /\ nextIn'.position = Least(Len(New), dataOffset')
      <3>1. Read(nextIn, New, chunkSize) \in StreamType
        <4>1. dataOffset <= Len(New)
          BY <1>4, <1>5, <1>6
        <4>2. nextIn.position <= Len(New) /\ chunkSize \in Nat
          BY <1>6, <1>7, <4>1
        <4> QED
          BY <1>5, <1>6, <4>2, ReadFacts
      <3>2. Least(Len(New), dataOffset + size) \in Nat
        BY <1>2, <1>5, <1>6 DEF Least
      <3>3. nextIn' = [Read(nextIn, New, chunkSize) EXCEPT !.position = Least(Len(New), dataOffset + size)]
        BY <1>2, <1>7 DEF NextAfterMatch, Seek
      <3> QED
        BY <1>2, <3>1, <3>2, <3>3 DEF StreamType
    <2>5. Old # <<>> /\ dataOffset' \in Nat /\ sourceOffset' \in Nat
      BY <1>2, <1>5, <2>2
    <2> QED
      BY <1>4, <1>5, <2>1, <2>3, <2>4, <2>5 DEF StreamInv
  <1> QED
    BY <1>8, <1>9, <1>10 DEF CreateInv

\* A turn that finds none.
Difference == NewPatch(sourceOffset, 0, PreviousChunk, NextChunk, TRUE)

LEMMA DiffAdds ==
  ASSUME CreateInv, DiffChunk, builds' = builds
  PROVE  /\ Difference \in PatchType /\ Adding(Difference)
         /\ NextChunk = Piece(New, dataOffset, chunkSize)
         /\ PreviousChunk \in Seq(Byte)
         /\ PreviousStream \in StreamType /\ PreviousStream.position <= Len(Old)
  <1>1. /\ stage = "chunk" /\ dataOffset < Len(New)
        /\ UNCHANGED <<stage, pair, index, blind, package>>
        /\ patches' = Append(patches, Difference)
    BY DEF DiffChunk, MoreChunks, Difference
  <1>2. /\ PairInv /\ pair <= Len(Pairs) /\ Path \in ChangedPaths /\ Old # <<>>
        /\ dataOffset \in Nat /\ sourceOffset \in Nat
        /\ previousIn \in StreamType /\ previousIn.position <= Len(Old)
        /\ nextIn \in StreamType /\ nextIn.position = Least(Len(New), dataOffset)
    BY <1>1 DEF CreateInv, StreamInv
  <1>3. /\ Path \in Paths
        /\ New \in Seq(Byte) /\ Old \in Seq(Byte)
        /\ Len(Old) \in Nat /\ Len(New) \in Nat
        /\ chunkSize \in Nat /\ chunkSize \in Nat \ {0}
    BY <1>2, ChunkStageFacts
  <1>4. nextIn.position = dataOffset
    BY <1>1, <1>2, <1>3 DEF Least
  <1>5. NextChunk = Piece(New, dataOffset, chunkSize)
    BY <1>4 DEF NextChunk
  <1>6. /\ NextChunk \in Seq(Byte)
        /\ Len(NextChunk) = LengthOf(New, dataOffset, chunkSize)
        /\ LengthOf(New, dataOffset, chunkSize) \in Nat
    BY <1>2, <1>3, <1>5, PieceFacts
  <1>7. PreviousStream \in StreamType /\ PreviousStream.position <= Len(Old)
    BY <1>2, <1>3, StartReadFacts DEF PreviousStream
  <1>8. PreviousChunk \in Seq(Byte) /\ Len(PreviousChunk) \in Nat
    <2>1. PICK p \in Nat : p = PreviousStream.position
      BY <1>7 DEF StreamType
    <2>2. Piece(Old, p, chunkSize) \in Seq(Byte)
      BY <1>3, PieceFacts
    <2>3. PreviousChunk \in Seq(Byte)
      BY <2>1, <2>2, EmptySeq DEF PreviousChunk
    <2> QED
      BY <2>3, LenProperties
  <1>9. Difference \in PatchType
    <2>1. Difference = [target |-> Path, dataOffset |-> dataOffset, sourceOffset |-> sourceOffset,
                        size |-> 0, base |-> PreviousChunk, result |-> NextChunk, hasData |-> TRUE]
      BY DEF Difference, NewPatch
    <2> QED
      BY <1>2, <1>3, <1>6, <1>8, <2>1 DEF PatchType
  <1>10. Adding(Difference)
    BY <1>1 DEF Adding
  <1> QED
    BY <1>5, <1>7, <1>8, <1>9, <1>10

LEMMA DiffChunkKeeps ==
  ASSUME CreateInv, DiffChunk, builds' = builds
  PROVE  CreateInv'
  <1>1. /\ stage = "chunk" /\ dataOffset < Len(New)
        /\ UNCHANGED <<stage, pair, index, blind, package>>
        /\ previousIn' = IF PreviousStream.reading
                         THEN Read(PreviousStream, Old, chunkSize)
                         ELSE PreviousStream
        /\ nextIn' = Read(nextIn, New, chunkSize)
        /\ dataOffset' = dataOffset + chunkSize
        /\ sourceOffset' = sourceOffset + (IF PreviousChunk # <<>>
                                           THEN Len(PreviousChunk)
                                           ELSE Len(NextChunk))
    BY DEF DiffChunk, MoreChunks
  <1>2. /\ PairInv /\ pair <= Len(Pairs) /\ Path \in ChangedPaths /\ Old # <<>>
        /\ dataOffset \in Nat /\ sourceOffset \in Nat
        /\ previousIn \in StreamType /\ previousIn.position <= Len(Old)
        /\ nextIn \in StreamType /\ nextIn.position = Least(Len(New), dataOffset)
    BY <1>1 DEF CreateInv, StreamInv
  <1>3. /\ Path \in Paths
        /\ New \in Seq(Byte) /\ Old \in Seq(Byte)
        /\ Len(Old) \in Nat /\ Len(New) \in Nat
        /\ chunkSize \in Nat /\ chunkSize \in Nat \ {0}
    BY <1>2, ChunkStageFacts
  <1>4. nextIn.position = dataOffset
    BY <1>1, <1>2, <1>3 DEF Least
  <1>5. /\ Difference \in PatchType /\ Adding(Difference)
        /\ NextChunk = Piece(New, dataOffset, chunkSize)
        /\ PreviousChunk \in Seq(Byte) /\ Len(PreviousChunk) \in Nat
        /\ PreviousStream \in StreamType /\ PreviousStream.position <= Len(Old)
    BY DiffAdds
  <1>6. /\ NextChunk \in Seq(Byte)
        /\ Len(NextChunk) = LengthOf(New, dataOffset, chunkSize)
        /\ LengthOf(New, dataOffset, chunkSize) \in Nat
    BY <1>2, <1>3, <1>5, PieceFacts
  <1>7. Difference.target = Path /\ Made(Difference, Old) = NextChunk
    BY DEF Difference, NewPatch, Made
  <1> HIDE DEF Difference
  <1>8. PairInv' /\ ListInv' /\ IndexInv'
    BY <1>5, <1>7, AddingKeeps
  <1>9. PatchesRebuild'
    <2> DEFINE made == Rebuilt(PatchesOf(patches, Path), Old)
    <2>1. Len(made) = dataOffset
      BY <1>1, RebuildMade DEF CreateInv, MadeUpTo
    <2>2. \A j \in 1..Len(NextChunk) : NextChunk[j] = New[dataOffset + j]
      <3>1. \A j \in 1..LengthOf(New, dataOffset, chunkSize) :
              Piece(New, dataOffset, chunkSize)[j] = New[dataOffset + j]
        BY <1>2, <1>3, PieceFacts
      <3> QED
        BY <1>5, <1>6, <3>1
    <2>3. \/ Len(NextChunk) = chunkSize
          \/ Len(NextChunk) <= chunkSize /\ dataOffset + Len(NextChunk) >= Len(New)
      BY <1>1, <1>2, <1>3, <1>6 DEF LengthOf, Least
    <2> HIDE DEF made
    <2>4. Continues(made, New, NextChunk, chunkSize)
      BY <2>1, <2>2, <2>3 DEF Continues
    <2> QED
      BY <1>1, <1>3, <1>5, <1>6, <1>7, <2>4, AddingRebuilds DEF made
  <1>10. StreamInv'
    <2>1. Pairs' = Pairs /\ ChangedPaths' = ChangedPaths /\ Path' = Path /\ Old' = Old /\ New' = New
      BY <1>5, AddingStill
    <2>2. previousIn' \in StreamType /\ previousIn'.position <= Len(Old)
      <3>1. Read(PreviousStream, Old, chunkSize) \in StreamType
              /\ Read(PreviousStream, Old, chunkSize).position <= Len(Old)
        BY <1>3, <1>5, ReadFacts
      <3> QED
        BY <1>1, <1>5, <3>1
    <2>3. nextIn' \in StreamType /\ nextIn'.position = Least(Len(New), dataOffset')
      <3>1. dataOffset <= Len(New)
        BY <1>1, <1>2, <1>3
      <3>2. nextIn.position <= Len(New)
        BY <1>4, <3>1
      <3>3. /\ Read(nextIn, New, chunkSize) \in StreamType
            /\ Read(nextIn, New, chunkSize).position = Least(Len(New), nextIn.position + chunkSize)
        BY <1>2, <1>3, <3>2, ReadFacts
      <3> QED
        BY <1>1, <1>4, <3>3
    <2>4. dataOffset' \in Nat /\ sourceOffset' \in Nat
      <3>1. PICK n \in Nat : n = IF PreviousChunk # <<>> THEN Len(PreviousChunk) ELSE Len(NextChunk)
        BY <1>5, <1>6
      <3>2. sourceOffset' = sourceOffset + n
        BY <1>1, <3>1
      <3> QED
        BY <1>1, <1>2, <1>3, <3>2
    <2>5. pair' = pair
      BY <1>1
    <2> QED
      BY <1>2, <2>1, <2>2, <2>3, <2>4, <2>5 DEF StreamInv
  <1> QED
    BY <1>8, <1>9, <1>10 DEF CreateInv

LEMMA CreateStepKeepsCreate ==
  ASSUME CreateInv, CreateStep
  PROVE  CreateInv'
  <1>1. builds' = builds
    BY DEF CreateStep
  <1>2. CASE OpenPair
    BY <1>1, <1>2, OpenPairKeeps
  <1>3. CASE MatchChunk
    BY <1>1, <1>3, MatchChunkKeeps
  <1>4. CASE DiffChunk
    BY <1>1, <1>4, DiffChunkKeeps
  <1>5. CASE SkipPair \/ NextPair \/ PutGroup \/ PutDocument \/ CreateFails
    <2>1. stage = "chunk" => pair <= Len(Pairs)
      BY DEF CreateInv, StreamInv
    <2>2. Leaving
      BY <1>1, <1>5, <2>1 DEF Leaving, SkipPair, NextPair, PutGroup, PutDocument, CreateFails,
        KeepFile
    <2> QED
      BY <2>2, LeavingKeeps
  <1> QED
    BY <1>2, <1>3, <1>4, <1>5 DEF CreateStep, CreateNext

LEMMA CreateStillKeeps ==
  ASSUME CreateInv, UNCHANGED <<builds, createVars>>
  PROVE  CreateInv'
  <1>1. UNCHANGED <<builds, stage, pair, index, previousIn, nextIn, dataOffset, sourceOffset,
                    patches, blind>>
    BY DEF createVars
  <1>2. /\ Pairs' = Pairs /\ chunkSize' = chunkSize /\ previous' = previous /\ next' = next
        /\ ChangedPaths' = ChangedPaths
    BY <1>1, BuildsStill
  <1>3. Path' = Path
    BY <1>1, <1>2 DEF Path
  <1>4. Old' = Old /\ New' = New
    BY <1>2, <1>3 DEF Old, New
  <1>5. PairInv' /\ ListInv'
    BY <1>1, <1>2 DEF CreateInv, PairInv, ListInv
  <1>6. StreamInv' /\ IndexInv'
    BY <1>1, <1>2, <1>3, <1>4 DEF CreateInv, StreamInv, IndexInv
  <1>7. PatchesRebuild'
    BY <1>1, <1>3, <1>4 DEF CreateInv, PatchesRebuild
  <1> QED
    BY <1>5, <1>6, <1>7 DEF CreateInv

LEMMA CreateInvNext == CreateInv /\ [PatchNext]_patchVars => CreateInv'
  <1> SUFFICES ASSUME CreateInv, [PatchNext]_patchVars PROVE CreateInv'
    OBVIOUS
  <1>1. CASE CreateStep
    BY <1>1, CreateStepKeepsCreate
  <1>2. CASE UNCHANGED <<builds, createVars>>
    BY <1>2, CreateStillKeeps
  <1> QED
    BY <1>1, <1>2 DEF PatchNext, patchVars

\* The inductive invariant of CreatePatch.
THEOREM CreateInvariant == PatchSpec => []CreateInv
  BY CreateInvInit, CreateInvNext, PTL DEF PatchSpec
--------------------------------------------------------------------------
(* What follows from it.                                                   *)

\* At every turn of CreatePatch's loop the patches so far rebuild the next
\* file up to dataOffset, whatever checksums collide and whatever index files
\* could not be written; for all files, chunk sizes and moduli.
THEOREM PatchesCorrect == PatchSpec => []PatchesRebuild
  BY CreateInvariant, PTL DEF CreateInv

LEMMA FirstChunkFacts ==
  ASSUME CreateInv, AtFirstChunk
  PROVE  /\ Old \in Seq(Nat) /\ New \in Seq(Nat)
         /\ Len(Old) \in Nat /\ Len(New) \in Nat
         /\ chunkSize \in Nat \ {0}
         /\ index \in Seq(Seq(EntryType))
         /\ ~blind => index = Generate(Old, New, chunkSize, {})
  BY ChunkStageFacts DEF CreateInv, AtFirstChunk, StreamInv, IndexInv

\* The checksums Generate rolls from window to window are the checksums of
\* the windows, for every file, length and modulus.
THEOREM RollingCorrect == PatchSpec => []RollingIsExact
  <1>1. CreateInv => RollingIsExact
    <2> SUFFICES ASSUME CreateInv, AtFirstChunk,
                        NEW k \in DOMAIN RollingSums(Old, chunkSize)
                 PROVE  RollingSums(Old, chunkSize)[k] = FullChecksum(Piece(Old, k, chunkSize))
      BY DEF RollingIsExact
    <2>1. RollingSums(Old, chunkSize) =
            [i \in 0..(Len(Old) - chunkSize) |-> FullChecksum(Piece(Old, i, chunkSize))]
      BY FirstChunkFacts, RollingWindows
    <2> QED
      BY <2>1
  <1> QED
    BY <1>1, CreateInvariant, PTL

\* The checksums CreatePatch asks for.
LEMMA FilterFacts ==
  ASSUME NEW new \in Seq(Nat), NEW length \in Nat \ {0}
  PROVE  \A c \in ChecksumFilter(new, length) : c \in Nat
  <1> SUFFICES ASSUME NEW i \in 0..Len(new)
               PROVE  Checksum(FullChecksum(Piece(new, i * length, length))) \in Nat
    BY DEF ChecksumFilter
  <1>1. PICK a \in Nat : a = i * length
    OBVIOUS
  <1>2. length \in Nat
    OBVIOUS
  <1>3. Piece(new, a, length) \in Seq(Nat)
    BY <1>2, PieceFacts
  <1> QED
    BY <1>1, <1>3, ChecksumNumber

\* FindChunkOffsets gives every window with the checksum that is asked for at
\* its own offset, however many entries an index file has room for; any other
\* offset is what it reads behind the last entry of a file that ends with
\* the checksum.
THEOREM IndexCorrect == PatchSpec => []IndexExact
  <1>1. CreateInv => IndexExact
    <2> SUFFICES ASSUME CreateInv, AtFirstChunk, IndexIsWhole,
                        NEW c \in ChecksumFilter(New, chunkSize),
                        NEW unread \in [DOMAIN index -> 0..(OffsetModulo - 1)]
                 PROVE  LET offsets == ChunkOffsets(index, c, unread)
                        IN  /\ WindowsWith(c) \subseteq offsets
                            /\ \A offset \in offsets \ WindowsWith(c) :
                                 UnreadOffset(index, c, unread, offset)
      BY DEF IndexExact, UnreadOffset
    <2>1. /\ Old \in Seq(Nat) /\ New \in Seq(Nat) /\ chunkSize \in Nat \ {0}
          /\ index = Generate(Old, New, chunkSize, {})
      BY FirstChunkFacts DEF IndexIsWhole
    <2>2. c \in Nat
      BY <2>1, FilterFacts
    <2>3. OffsetsFit(Old)
      BY DEF IndexIsWhole, OffsetsFit
    <2>4. \A x : EntryOffset(index, c, x)
                  <=> x \in 0..(Len(Old) - chunkSize) /\ SumAt(Old, chunkSize, x) = c
      BY <2>1, <2>2, <2>3, OffsetsExact
    <2>5. \A x : EntryOffset(index, c, x) <=> x \in WindowsWith(c)
      BY <2>4 DEF WindowsWith, WindowSum, SumAt
    <2> QED
      BY <2>5, OffsetsOfIndex
  <1> QED
    BY <1>1, CreateInvariant, PTL

\* A chunk of the next file that the previous one has is found there, if no
\* window with the same checksum and other bytes is in the way and the first
\* index file has one of its windows.
THEOREM ChunkFoundCorrect == PatchSpec => []ChunkFound
  <1>1. CreateInv => ChunkFound
    <2> SUFFICES ASSUME CreateInv, AtFirstChunk, IndexIsWhole,
                        NEW chunk \in FoundableChunks, InFirstFile(chunk)
                 PROVE  IsFound(chunk)
      BY DEF ChunkFound
    <2>1. /\ Old \in Seq(Nat) /\ New \in Seq(Nat) /\ chunkSize \in Nat \ {0}
          /\ Len(New) \in Nat
          /\ index = Generate(Old, New, chunkSize, {})
      BY FirstChunkFacts DEF IndexIsWhole
    <2>2. PICK s \in Nat \ {0} : s = chunkSize
      BY <2>1
    <2>3. PICK i \in 0..Len(New) : /\ (i + 1) * chunkSize <= Len(New)
                                  /\ chunk = Piece(New, i * chunkSize, chunkSize)
      BY DEF FoundableChunks
    <2>4. PICK a \in Nat : a = i * s /\ (i + 1) * s = a + s
      BY <2>2
    <2>5. a < Len(New) /\ a + s <= Len(New)
      BY <2>1, <2>2, <2>3, <2>4
    <2>6. chunk = Piece(New, a, s) /\ Len(chunk) = s
      <3>1. LengthOf(New, a, s) = s
        BY <2>1, <2>5 DEF LengthOf, Least
      <3>2. Len(Piece(New, a, s)) = LengthOf(New, a, s)
        BY <2>1, PieceFacts
      <3> QED
        BY <2>2, <2>3, <2>4, <3>1, <3>2
    <2>7. PICK c : c = Checksum(FullChecksum(chunk))
      OBVIOUS
    <2>8. \A k \in WindowsWith(c) : Piece(Old, k, Len(chunk)) = chunk
      BY <2>2, <2>6, <2>7 DEF FoundableChunks
    <2>9. PICK k \in WindowsWith(c) : FileNumber(RelevantWindows(Old, New, chunkSize), k) = 0
      BY <2>7 DEF InFirstFile
    <2>10. k \in 0..(Len(Old) - chunkSize) /\ SumAt(Old, chunkSize, k) = c
      BY <2>9 DEF WindowsWith, WindowSum, SumAt
    <2>11. k \in RelevantWindows(Old, New, chunkSize)
      <3>1. c \in ChecksumFilter(New, chunkSize)
        BY <2>2, <2>4, <2>5, <2>6, <2>7 DEF ChecksumFilter
      <3> QED
        BY <2>1, <2>10, <3>1, WindowsTyped DEF IsRelevant, SumAt
    <2>12. OffsetsFit(Old)
      BY DEF IndexIsWhole, OffsetsFit
    <2>13. PICK first : /\ first = FirstWithChecksum(index, c)
                        /\ first \in 0..(Len(Old) - chunkSize) /\ first # NoMatch
                        /\ SumAt(Old, chunkSize, first) = c
      <3>1. FileNumber(RelevantWindows(Old, New, chunkSize), k) = 0
        BY <2>9
      <3>2. /\ FirstWithChecksum(index, c) \in 0..(Len(Old) - chunkSize)
            /\ FirstWithChecksum(index, c) # NoMatch
            /\ SumAt(Old, chunkSize, FirstWithChecksum(index, c)) = c
        <4>1. CandidateIsWindow(Old, New, chunkSize, SumAt(Old, chunkSize, k))
          BY <2>1, <2>11, <2>12, <3>1, FirstFileFacts
        <4>2. CandidateIsWindow(Old, New, chunkSize, c)
          BY <2>10, <4>1
        <4> QED
          BY <2>1, <4>2 DEF CandidateIsWindow
      <3> QED
        BY <3>2
    <2>14. first \in WindowsWith(c)
      BY <2>13 DEF WindowsWith, WindowSum, SumAt
    <2>15. FindMatchingChunk(index, Old, chunk) = first
      BY <2>7, <2>8, <2>13, <2>14 DEF FindMatchingChunk
    <2> QED
      BY <2>7, <2>14, <2>15 DEF IsFound
  <1> QED
    BY <1>1, CreateInvariant, PTL
--------------------------------------------------------------------------
(* The types of what Apply keeps.                                          *)

\* What a temporary file may have in it.
Patchwork == Byte \cup {Garbage}

StreamsTyped ==
  /\ package # NoPackage => package.patches \in Seq(PatchType)
  /\ patchAt \in Nat \ {0}
  /\ input \in StreamType
  /\ phase = "patch" => Source # Absent /\ temp \in Seq(Patchwork)

CallTyped ==
  /\ folders \subseteq UNION {FoldersFor(p) : p \in Paths}
  /\ result \in Results
  /\ calls \in 0..builds.calls
  /\ disturbed \in BOOLEAN /\ unnoticed \in BOOLEAN /\ warned \in BOOLEAN

TypeInv == ApplyInv /\ CreateInv /\ StreamsTyped /\ CallTyped

LEMMA ReadTyped ==
  ASSUME NEW stream, stream.position \in Nat, NEW S, NEW file \in Seq(S), NEW count \in Nat
  PROVE  Read(stream, file, count) \in StreamType
  <1> DEFINE end == Greatest(stream.position, Least(stream.position + count, Len(file)))
  <1>1. end \in Nat
    BY DEF Greatest, Least
  <1> HIDE DEF end
  <1>2. Read(stream, file, count) = [position |-> end, reading |-> end # Len(file)]
    BY DEF Read, end
  <1>3. (end # Len(file)) \in BOOLEAN
    OBVIOUS
  <1> QED
    BY <1>1, <1>2, <1>3 DEF StreamType

LEMMA TypeInvInit == PatchInit => TypeInv
  <1> SUFFICES ASSUME PatchInit PROVE TypeInv
    OBVIOUS
  <1>1. ApplyInv /\ CreateInv
    BY ApplyInit0, CreateInvInit
  <1>2. StreamsTyped
    <2>1. package # NoPackage => package.patches \in Seq(PatchType)
      <3>1. builds \in Scenarios /\ package = builds.package
        BY DEF PatchInit
      <3>2. package # NoPackage => IsPackage(package, builds)
        BY <3>1, ScenariosAssumption
      <3> QED
        BY <3>2 DEF IsPackage, PatchType
    <2>2. patchAt = 1 /\ input = StartRead /\ phase = "idle"
      BY DEF PatchInit, ApplyInit
    <2> QED
      BY <2>1, <2>2, StartReadFacts DEF StreamsTyped
  <1>3. CallTyped
    <2>1. builds.calls \in Nat
      BY ScenariosAssumption DEF PatchInit
    <2>2. /\ folders = UNION {FoldersFor(p) : p \in Present(given)} /\ result = NoResult /\ calls = 0
      BY DEF PatchInit, ApplyInit
    <2>3. disturbed \in BOOLEAN /\ unnoticed \in BOOLEAN /\ warned \in BOOLEAN
      BY Zenon DEF PatchInit, ApplyInit
    <2>4. folders \subseteq UNION {FoldersFor(p) : p \in Paths}
      BY <2>2 DEF Present
    <2> QED
      BY <2>1, <2>2, <2>3, <2>4 DEF CallTyped, Results
  <1> QED
    BY <1>1, <1>2, <1>3 DEF TypeInv

\* CreatePatch, and stuttering.
LEMMA CreateKeepsTypes ==
  ASSUME TypeInv, UNCHANGED <<builds, applyVars>>,
         package' = package \/ (PutDocument /\ builds.package = NoPackage)
  PROVE  StreamsTyped' /\ CallTyped'
  <1>1. UNCHANGED <<builds, phase, at, patchAt, input, temp, destination, folders, result, calls,
                    disturbed, unnoticed, warned>>
    BY DEF applyVars
  <1>2. CallTyped'
    BY <1>1 DEF TypeInv, CallTyped
  <1>3. CASE package' = package
    <2>1. Source' = Source
      <3>1. given' = given
        BY <1>1 DEF given
      <3>2. SourceBuild' = SourceBuild /\ Target' = Target
        BY <1>1, <1>3, <3>1 DEF SourceBuild, Target, Group
      <3> QED
        BY <3>2 DEF Source
    <2> QED
      BY <1>1, <1>2, <1>3, <2>1 DEF TypeInv, StreamsTyped
  <1>4. CASE PutDocument /\ builds.package = NoPackage
    <2>1. /\ stage = "document"
          /\ package' = [group |-> Pairs, removed |-> Ascending(RemovedPaths),
                         patches |-> patches, chunkSize |-> chunkSize]
      BY <1>4 DEF PutDocument
    <2>2. phase = "idle"
      BY <1>4, <2>1 DEF TypeInv, ApplyInv, PackageInv, PlaceInv
    <2>3. patches \in Seq(PatchType)
      BY DEF TypeInv, CreateInv, ListInv
    <2>4. package'.patches \in Seq(PatchType)
      BY <2>1, <2>3
    <2> QED
      BY <1>1, <1>2, <2>2, <2>4 DEF TypeInv, StreamsTyped
  <1> QED
    BY <1>3, <1>4

LEMMA PatchPhaseFacts ==
  ASSUME TypeInv, phase = "patch"
  PROVE  /\ Source \in Seq(Byte) /\ Source \in Seq(Patchwork) /\ Len(Source) \in Nat
         /\ temp \in Seq(Patchwork) /\ Len(temp) \in Nat
         /\ package.chunkSize \in Nat \ {0}
         /\ input \in StreamType /\ input.position \in Nat
         /\ patchAt \in Nat \ {0}
         /\ patchAt <= Len(Patches) => ThePatch \in PatchType
  <1>1. /\ package # NoPackage /\ Lists(package) /\ Target \in Paths
        /\ destination \in [Paths -> Content] /\ builds \in Scenarios
    BY TargetFacts DEF TypeInv, ApplyInv, PackageInv, PlaceInv
  <1>2. given \in [Paths -> Content]
    BY <1>1, BuildsTyped
  <1>3. Source \in Content
    BY <1>1, <1>2 DEF Source, SourceBuild
  <1>4. /\ Source # Absent /\ temp \in Seq(Patchwork) /\ package.patches \in Seq(PatchType)
        /\ input \in StreamType /\ patchAt \in Nat \ {0}
    BY <1>1 DEF TypeInv, StreamsTyped
  <1>5. Source \in Seq(Byte) /\ Source \in Seq(Patchwork)
    <2>1. Source \in Seq(Byte)
      BY <1>3, <1>4 DEF Content
    <2> QED
      BY <2>1, SeqMonotonic DEF Patchwork
  <1>6. Patches \in Seq(PatchType)
    BY <1>4, PlacesFacts DEF Patches
  <1>7. patchAt <= Len(Patches) => ThePatch \in PatchType
    BY <1>4, <1>6 DEF ThePatch
  <1>8. input.position \in Nat
    BY <1>4 DEF StreamType
  <1> QED
    BY <1>1, <1>4, <1>5, <1>7, <1>8, LenProperties DEF Lists

\* The steps that make the temporary file longer.
LEMMA CopyGapTyped ==
  ASSUME TypeInv, CopyGap
  PROVE  input' \in StreamType /\ temp' \in Seq(Patchwork)
  <1>1. phase = "patch" /\ ThePatch \in PatchType
    BY PatchPhaseFacts DEF CopyGap, AtPatch
  <1>2. /\ Source \in Seq(Patchwork) /\ temp \in Seq(Patchwork) /\ Len(temp) \in Nat
        /\ package.chunkSize \in Nat \ {0} /\ input.position \in Nat
    BY <1>1, PatchPhaseFacts
  <1> DEFINE count == Least(Remaining, package.chunkSize)
  <1>3. temp' = temp \o Piece(Source, input.position, count) /\ input' = Read(input, Source, count)
    BY DEF CopyGap
  <1>4. count \in Nat
    <2>1. ThePatch.dataOffset \in Nat
      BY <1>1 DEF PatchType
    <2>2. Remaining \in Int /\ Remaining > 0
      BY <1>2, <2>1 DEF Remaining, CopyGap, Gap
    <2> QED
      BY <1>2, <2>2 DEF Least
  <1> HIDE DEF count
  <1>5. Piece(Source, input.position, count) \in Seq(Patchwork)
    BY <1>2, <1>4, PieceFacts
  <1>6. Read(input, Source, count) \in StreamType
    BY <1>2, <1>4, ReadTyped
  <1> QED
    BY <1>2, <1>3, <1>5, <1>6

LEMMA ApplyDeltaTyped ==
  ASSUME TypeInv, ApplyDelta
  PROVE  input' \in StreamType /\ temp' \in Seq(Patchwork)
  <1>1. phase = "patch" /\ ThePatch \in PatchType
    BY PatchPhaseFacts DEF ApplyDelta, AtOffset, AtPatch
  <1>2. /\ Source \in Seq(Patchwork) /\ temp \in Seq(Patchwork)
        /\ package.chunkSize \in Nat \ {0} /\ input \in StreamType
    BY <1>1, PatchPhaseFacts
  <1> DEFINE stream == AppliedAt(Reopened)
             bytes == Piece(Source, stream.position, package.chunkSize)
  <1>3. PICK out \in Outcomes(bytes) : temp' = temp \o out
    BY DEF ApplyDelta
  <1>4. input' = Read(stream, Source, package.chunkSize)
    BY DEF ApplyDelta
  <1>5. ThePatch.sourceOffset \in Nat /\ ThePatch.result \in Seq(Byte)
    BY <1>1 DEF PatchType
  <1>6. stream.position = ThePatch.sourceOffset
    BY <1>2 DEF AppliedAt, Reopened, Seek, StreamType
  <1>7. out \in Seq(Patchwork)
    <2>1. ThePatch.result \in Seq(Patchwork)
      BY <1>5, SeqMonotonic DEF Patchwork
    <2>2. PICK r \in Seq(Patchwork) : r = ThePatch.result
      BY <2>1
    <2>3. [i \in DOMAIN r |-> Garbage] \in Seq(Patchwork)
      <3>1. DOMAIN r = 1..Len(r) /\ Len(r) \in Nat /\ Garbage \in Patchwork
        BY LenProperties DEF Patchwork
      <3> QED
        BY <3>1
    <2>4. out = r \/ out = [i \in DOMAIN r |-> Garbage]
      BY <2>2 DEF Outcomes
    <2> QED
      BY <2>3, <2>4
  <1> HIDE DEF stream
  <1>8. Read(stream, Source, package.chunkSize) \in StreamType
    BY <1>2, <1>5, <1>6, ReadTyped
  <1> QED
    BY <1>2, <1>3, <1>4, <1>7, <1>8

LEMMA CopyRangeTyped ==
  ASSUME TypeInv, CopyRange
  PROVE  input' \in StreamType /\ temp' \in Seq(Patchwork)
  <1>1. phase = "patch" /\ ThePatch \in PatchType
    BY PatchPhaseFacts DEF CopyRange, AtOffset, AtPatch
  <1>2. /\ Source \in Seq(Patchwork) /\ temp \in Seq(Patchwork)
        /\ package.chunkSize \in Nat \ {0} /\ input \in StreamType /\ input.position \in Nat
    BY <1>1, PatchPhaseFacts
  <1> DEFINE size == package.chunkSize
             pieces == (ThePatch.size + size - 1) \div size
  <1>3. /\ temp' = temp \o Piece(Source, ThePatch.sourceOffset, ThePatch.size)
        /\ input' = Read(Reopened, Source, pieces * size)
    BY DEF CopyRange
  <1>4. ThePatch.sourceOffset \in Nat /\ ThePatch.size \in Nat
    BY <1>1 DEF PatchType
  <1>5. pieces * size \in Nat
    <2>1. PICK s \in Nat \ {0} : s = size
      BY <1>2
    <2>2. PICK n \in Nat : n = ThePatch.size + size - 1
      BY <1>4, <2>1
    <2>3. PICK p \in Int : p = n \div s
      OBVIOUS
    <2>4. p \in Nat
      <3>1. n \div s \in Nat
        OBVIOUS
      <3> QED
        BY <2>3, <3>1
    <2>5. p * s \in Nat
      BY <2>4
    <2> QED
      BY <2>1, <2>2, <2>3, <2>5
  <1> HIDE DEF pieces, size
  <1>6. Reopened.position = input.position
    BY <1>2 DEF Reopened, StreamType
  <1>7. Piece(Source, ThePatch.sourceOffset, ThePatch.size) \in Seq(Patchwork)
    BY <1>2, <1>4, PieceFacts
  <1>8. Read(Reopened, Source, pieces * size) \in StreamType
    BY <1>2, <1>5, <1>6, ReadTyped
  <1> QED
    BY <1>2, <1>3, <1>7, <1>8

\* The steps of Apply that leave the streams as they are, or set them for
\* another resource.
LEMMA StreamsKept ==
  ASSUME TypeInv, ApplyNext, UNCHANGED <<builds, createVars>>
  PROVE  StreamsTyped'
  <1>1. /\ package # NoPackage => package.patches \in Seq(PatchType)
        /\ patchAt \in Nat \ {0} /\ input \in StreamType
    BY DEF TypeInv, StreamsTyped
  <1>2. package' = package
    BY DEF ApplyNext, ApplyStep, CallApply, LoadGroup, StartResource, SourceMissing, CopyGap,
      GapFails, ApplyDelta, CopyRange, RangeFails, AppendNothing, PatchesDone, CopyFresh,
      CheckFile, CheckFails, OpenDestination, CopyPiece, CloseDestination, StartRemoval,
      RemoveFile, RemoveFolder, NextRemoved, ApplyDone, ApplyFails, FolderStays, Crash, KeepCall
  <1>3. ASSUME destination' = destination, at' = at
        PROVE  Source' = Source
    <2>1. given' = given
      BY DEF given
    <2>2. SourceBuild' = SourceBuild /\ Target' = Target
      BY <1>2, <1>3, <2>1 DEF SourceBuild, Target, Group
    <2> QED
      BY <2>2 DEF Source
  <1>4. CASE CopyGap \/ ApplyDelta \/ CopyRange
    <2>1. input' \in StreamType /\ temp' \in Seq(Patchwork)
      BY <1>4, CopyGapTyped, ApplyDeltaTyped, CopyRangeTyped
    <2>2. /\ phase = "patch" /\ destination' = destination /\ at' = at
          /\ patchAt' = patchAt \/ patchAt' = patchAt + 1
      BY <1>4 DEF CopyGap, ApplyDelta, CopyRange, AtOffset, AtPatch, KeepDisk
    <2>3. Source # Absent
      BY <2>2 DEF TypeInv, StreamsTyped
    <2>4. patchAt' \in Nat \ {0}
      BY <1>1, <2>2
    <2> QED
      BY <1>1, <1>2, <1>3, <2>1, <2>2, <2>3, <2>4 DEF StreamsTyped
  <1>5. CASE AppendNothing
    <2>1. /\ phase = "patch" /\ destination' = destination /\ at' = at /\ temp' = temp
          /\ input' = input /\ patchAt' = patchAt + 1
      BY <1>5 DEF AppendNothing, AtPatch, KeepDisk
    <2>2. Source # Absent /\ temp \in Seq(Patchwork)
      BY <2>1 DEF TypeInv, StreamsTyped
    <2>3. patchAt' \in Nat \ {0}
      BY <1>1, <2>1
    <2> QED
      BY <1>1, <1>2, <1>3, <2>1, <2>2, <2>3 DEF StreamsTyped
  <1>6. CASE StartResource
    <2>1. /\ destination' = destination /\ at' = at /\ temp' = <<>> /\ patchAt' = 1
          /\ input' = StartRead
          /\ phase' = IF Patches = <<>> THEN "fresh" ELSE "patch"
          /\ Patches # <<>> => Source # Absent
      BY <1>6 DEF StartResource, KeepDisk
    <2>2. <<>> \in Seq(Patchwork)
      BY EmptySeq
    <2> QED
      BY <1>1, <1>2, <1>3, <2>1, <2>2, StartReadFacts DEF StreamsTyped
  <1>7. CASE ~(CopyGap \/ ApplyDelta \/ CopyRange \/ AppendNothing \/ StartResource)
    <2>1. phase' # "patch" /\ patchAt' = patchAt /\ input' = input
      BY <1>7 DEF ApplyNext, ApplyStep, CallApply, LoadGroup, SourceMissing,
        GapFails, RangeFails, PatchesDone, CopyFresh,
        CheckFile, CheckFails, OpenDestination, CopyPiece, CloseDestination, StartRemoval,
        RemoveFile, RemoveFolder, NextRemoved, ApplyDone, ApplyFails, FolderStays, Crash,
        KeepPlace, Return
    <2> QED
      BY <1>1, <1>2, <2>1 DEF StreamsTyped
  <1> QED
    BY <1>4, <1>5, <1>6, <1>7

LEMMA CallKept ==
  ASSUME TypeInv, ApplyNext, UNCHANGED <<builds, createVars>>
  PROVE  CallTyped'
  <1>1. /\ folders \subseteq UNION {FoldersFor(p) : p \in Paths}
        /\ result \in Results
        /\ calls \in 0..builds.calls /\ builds.calls \in Nat
        /\ disturbed \in BOOLEAN /\ unnoticed \in BOOLEAN /\ warned \in BOOLEAN
    <2>1. builds \in Scenarios
      BY DEF TypeInv, CreateInv, PairInv
    <2>2. builds.calls \in Nat
      BY <2>1, ScenariosAssumption
    <2> QED
      BY <2>2 DEF TypeInv, CallTyped
  <1>2. folders' \subseteq UNION {FoldersFor(p) : p \in Paths}
    <2>1. CASE OpenDestination
      <3>1. phase = "open" /\ folders' = folders \cup FoldersFor(Target)
        BY <2>1 DEF OpenDestination
      <3>2. Target \in Paths
        BY <3>1, TargetFacts DEF TypeInv
      <3> QED
        BY <1>1, <3>1, <3>2
    <2>2. CASE RemoveFolder
      <3>1. folders' \subseteq folders
        BY <2>2 DEF RemoveFolder
      <3> QED
        BY <1>1, <3>1
    <2>3. CASE ~(OpenDestination \/ RemoveFolder)
      <3>1. folders' = folders
        BY <2>3 DEF ApplyNext, ApplyStep, CallApply, LoadGroup, StartResource, SourceMissing,
          CopyGap, GapFails, ApplyDelta, CopyRange, RangeFails, AppendNothing, PatchesDone,
          CopyFresh, CheckFile, CheckFails, CopyPiece, CloseDestination, StartRemoval,
          RemoveFile, NextRemoved, ApplyDone, ApplyFails, FolderStays, Crash, KeepDisk
      <3> QED
        BY <1>1, <3>1
    <2> QED
      BY <2>1, <2>2, <2>3
  <1>3. result' \in Results
    <2>1. \/ result' = result
          \/ result' \in {NoResult, "SUCCESS", "FAIL", "FAILED_TO_OPEN_FILE",
                          "FAILED_TO_READ_FROM_STREAM", "UNEXPECTED_PATCH_CHECKSUM_RESULT"}
      BY DEF ApplyNext, ApplyStep, CallApply, LoadGroup, StartResource, SourceMissing,
        CopyGap, GapFails, ApplyDelta, CopyRange, RangeFails, AppendNothing, PatchesDone,
        CopyFresh, CheckFile, CheckFails, OpenDestination, CopyPiece, CloseDestination,
        StartRemoval, RemoveFile, RemoveFolder, NextRemoved, ApplyDone, ApplyFails,
        FolderStays, Crash, KeepCall, Return
    <2> QED
      BY <1>1, <2>1 DEF Results
  <1>4. calls' \in 0..builds'.calls
    <2>1. calls' = calls \/ (calls' = calls + 1 /\ calls < builds.calls)
      BY DEF ApplyNext, ApplyStep, CallApply, LoadGroup, StartResource, SourceMissing,
        CopyGap, GapFails, ApplyDelta, CopyRange, RangeFails, AppendNothing, PatchesDone,
        CopyFresh, CheckFile, CheckFails, OpenDestination, CopyPiece, CloseDestination,
        StartRemoval, RemoveFile, RemoveFolder, NextRemoved, ApplyDone, ApplyFails,
        FolderStays, Crash, KeepCall
    <2> QED
      BY <1>1, <2>1
  <1>5. disturbed' \in BOOLEAN
    <2>1. CASE CallApply
      <3>1. disturbed' = (SourceBuild # previous)
        BY <2>1 DEF CallApply
      <3> QED
        BY <3>1
    <2>2. CASE Crash \/ ApplyFails
      <3>1. disturbed' = TRUE
        BY <2>2, Zenon DEF Crash, ApplyFails
      <3> QED
        BY <3>1
    <2>3. CASE ~(CallApply \/ Crash \/ ApplyFails)
      <3>1. disturbed' = disturbed
        BY <2>3 DEF ApplyNext, ApplyStep, LoadGroup, StartResource, SourceMissing,
          CopyGap, GapFails, ApplyDelta, CopyRange, RangeFails, AppendNothing, PatchesDone,
          CopyFresh, CheckFile, CheckFails, OpenDestination, CopyPiece, CloseDestination,
          StartRemoval, RemoveFile, RemoveFolder, NextRemoved, ApplyDone, FolderStays, KeepCall
      <3> QED
        BY <1>1, <3>1
    <2> QED
      BY <2>1, <2>2, <2>3
  <1>6. unnoticed' \in BOOLEAN
    <2>1. CASE CheckFile \/ CloseDestination
      <3>1. PICK file : unnoticed' = (unnoticed \/ file # temp)
        BY <2>1 DEF CheckFile, CloseDestination
      <3> QED
        BY <3>1
    <2>2. CASE CallApply
      <3>1. unnoticed' = FALSE
        BY <2>2, Zenon DEF CallApply
      <3> QED
        BY <3>1
    <2>3. CASE ~(CheckFile \/ CloseDestination \/ CallApply)
      <3>1. unnoticed' = unnoticed
        BY <2>3 DEF ApplyNext, ApplyStep, LoadGroup, StartResource, SourceMissing,
          CopyGap, GapFails, ApplyDelta, CopyRange, RangeFails, AppendNothing, PatchesDone,
          CopyFresh, CheckFails, OpenDestination, CopyPiece, StartRemoval, RemoveFile,
          RemoveFolder, NextRemoved, ApplyDone, ApplyFails, FolderStays, Crash, KeepDisk
      <3> QED
        BY <1>1, <3>1
    <2> QED
      BY <2>1, <2>2, <2>3
  <1>7. warned' \in BOOLEAN
    <2>1. CASE RemoveFile
      <3>1. PICK stays : warned' = (warned \/ stays)
        BY <2>1 DEF RemoveFile
      <3> QED
        BY <3>1
    <2>2. CASE CallApply
      <3>1. warned' = FALSE
        BY <2>2, Zenon DEF CallApply
      <3> QED
        BY <3>1
    <2>3. CASE ~(RemoveFile \/ CallApply)
      <3>1. warned' = warned
        BY <2>3 DEF ApplyNext, ApplyStep, LoadGroup, StartResource, SourceMissing,
          CopyGap, GapFails, ApplyDelta, CopyRange, RangeFails, AppendNothing, PatchesDone,
          CopyFresh, CheckFile, CheckFails, OpenDestination, CopyPiece, CloseDestination,
          StartRemoval, RemoveFolder, NextRemoved, ApplyDone, ApplyFails, FolderStays, Crash,
          KeepDisk
      <3> QED
        BY <1>1, <3>1
    <2> QED
      BY <2>1, <2>2, <2>3
  <1> QED
    BY <1>2, <1>3, <1>4, <1>5, <1>6, <1>7 DEF CallTyped

LEMMA TypeInvNext == TypeInv /\ [PatchNext]_patchVars => TypeInv'
  <1> SUFFICES ASSUME TypeInv, [PatchNext]_patchVars PROVE TypeInv'
    OBVIOUS
  <1>1. ApplyInv' /\ CreateInv'
    BY ApplyInvNext, CreateInvNext DEF TypeInv
  <1>2. CASE CreateStep
    <2>1. UNCHANGED <<builds, applyVars>> /\ builds.package = NoPackage
      BY <1>2 DEF CreateStep
    <2>2. package' = package \/ PutDocument
      BY <1>2 DEF CreateStep, CreateNext, SkipPair, OpenPair, MatchChunk, DiffChunk, NextPair,
        PutGroup, CreateFails
    <2>3. StreamsTyped' /\ CallTyped'
      BY <2>1, <2>2, CreateKeepsTypes
    <2> QED
      BY <1>1, <2>3 DEF TypeInv
  <1>3. CASE ApplyNext /\ UNCHANGED <<builds, createVars>>
    BY <1>1, <1>3, StreamsKept, CallKept DEF TypeInv
  <1>4. CASE UNCHANGED patchVars
    <2>1. UNCHANGED <<builds, applyVars>> /\ package' = package
      BY <1>4 DEF patchVars
    <2>2. StreamsTyped' /\ CallTyped'
      BY <2>1, CreateKeepsTypes
    <2> QED
      BY <1>1, <2>2 DEF TypeInv
  <1> QED
    BY <1>2, <1>3, <1>4 DEF PatchNext

\* The bytes of a file of the destination come from one of the builds.
LEMMA FilesTyped ==
  ASSUME ApplyInv, NEW p \in Paths
  PROVE  IsFile(destination[p])
  <1>1. /\ destination[p] \in Content /\ builds \in Scenarios /\ NoMixture
    BY DEF ApplyInv, PlaceInv, PackageInv
  <1>2. next \in [Paths -> Content] /\ given \in [Paths -> Content]
    BY <1>1, BuildsTyped
  <1>3. CASE destination[p] = given[p]
    BY <1>3 DEF IsFile, Bytes, Present
  <1>4. CASE p \in Patched /\ destination[p] \in Beginnings(next[p])
    <2>1. next[p] # Absent /\ p \in Present(next)
      BY <1>4 DEF Patched, ChangedPaths, NewPaths, Present
    <2>2. next[p] \in Seq(Byte)
      BY <1>2, <2>1 DEF Content
    <2>3. PICK b : b = destination[p]
      OBVIOUS
    <2>4. /\ b \in Seq(Byte) /\ Len(b) <= Len(next[p])
          /\ \A i \in 1..Len(b) : b[i] = next[p][i]
      BY <1>4, <2>2, <2>3, BeginningFacts
    <2>5. ASSUME NEW i \in DOMAIN b PROVE b[i] \in Bytes
      <3>1. i \in 1..Len(b) /\ i \in DOMAIN next[p]
        BY <2>2, <2>4
      <3>2. b[i] = next[p][i]
        BY <2>4, <3>1
      <3>3. next[p][i] \in Bytes
        BY <2>1, <3>1 DEF Bytes
      <3> QED
        BY <3>2, <3>3
    <2> QED
      BY <2>3, <2>5 DEF IsFile
  <1>5. CASE destination[p] = Absent
    BY <1>5 DEF IsFile
  <1> QED
    BY <1>1, <1>3, <1>4, <1>5 DEF NoMixture

\* The streams, patches and loops of CreatePatch and Apply are where the code
\* can use them, and no byte a patch has made out of other data reaches a
\* build; for all builds, packages of other versions, failures and crashes.
THEOREM PatchTypeCorrect == PatchSpec => []PatchTypeOK
  <1>1. TypeInv => PatchTypeOK
    <2> SUFFICES ASSUME TypeInv PROVE PatchTypeOK
      OBVIOUS
    <2>1. /\ stage \in {"pair", "chunk", "document", "created", "failed"}
          /\ pair \in 1..(Len(Pairs) + 1)
          /\ blind \in BOOLEAN
      BY PairsFacts DEF TypeInv, CreateInv, PairInv
    <2>2. stage = "chunk" => /\ previousIn.position \in 0..Len(Old)
                             /\ nextIn.position \in 0..Len(New)
      <3> SUFFICES ASSUME stage = "chunk"
                   PROVE  /\ previousIn.position \in 0..Len(Old)
                          /\ nextIn.position \in 0..Len(New)
        OBVIOUS
      <3>1. /\ PairInv /\ pair <= Len(Pairs) /\ Path \in ChangedPaths
            /\ previousIn \in StreamType /\ previousIn.position <= Len(Old)
            /\ nextIn \in StreamType /\ nextIn.position = Least(Len(New), dataOffset)
            /\ dataOffset \in Nat
        BY DEF TypeInv, CreateInv, StreamInv
      <3>2. Len(Old) \in Nat /\ Len(New) \in Nat
        BY <3>1, ChunkStageFacts
      <3>3. previousIn.position \in Nat
        BY <3>1 DEF StreamType
      <3> QED
        BY <3>1, <3>2, <3>3 DEF Least
    <2>3. /\ phase \in {"idle", "loading", "resource", "patch", "fresh", "check",
                        "open", "copy", "remove", "tidy"}
          /\ at \in Nat
      BY DEF TypeInv, ApplyInv, PlaceInv
    <2>4. patchAt \in Nat /\ input.position \in Nat
      BY DEF TypeInv, StreamsTyped, StreamType
    <2>5. \A p \in Paths : IsFile(destination[p])
      BY FilesTyped DEF TypeInv
    <2>6. /\ folders \subseteq UNION {FoldersFor(p) : p \in Paths}
          /\ result \in Results
          /\ calls \in 0..builds.calls
      BY DEF TypeInv, CallTyped
    <2>7. {blind, disturbed, unnoticed, warned} \subseteq BOOLEAN
      BY <2>1 DEF TypeInv, CallTyped
    <2> QED
      BY <2>1, <2>2, <2>3, <2>4, <2>5, <2>6, <2>7 DEF PatchTypeOK
  <1> QED
    BY <1>1, TypeInvInit, TypeInvNext, PTL DEF PatchSpec
--------------------------------------------------------------------------
(* When a call of Apply can fail.                                          *)

\* The patches before the k-th one.
Preceding(list, k) == SubSeq(list, 1, k - 1)

LEMMA PrecedingFacts ==
  ASSUME NEW S, NEW list \in Seq(S), NEW k \in 1..(Len(list) + 1)
  PROVE  /\ Preceding(list, k) \in Seq(S)
         /\ Len(Preceding(list, k)) = k - 1
         /\ \A i \in 1..(k - 1) : Preceding(list, k)[i] = list[i]
  <1>1. PICK n \in Nat : n = k - 1
    OBVIOUS
  <1>2. n <= Len(list) /\ 1 \in 1..(Len(list) + 1) /\ n \in 0..Len(list)
    BY <1>1
  <1>3. /\ SubSeq(list, 1, n) \in Seq(S)
        /\ Len(SubSeq(list, 1, n)) = n
        /\ \A i \in 1..n : SubSeq(list, 1, n)[i] = list[i]
    BY <1>2
  <1> QED
    BY <1>1, <1>3 DEF Preceding

LEMMA PrecedingNext ==
  ASSUME NEW S, NEW list \in Seq(S), NEW k \in 1..Len(list)
  PROVE  Preceding(list, k + 1) = Append(Preceding(list, k), list[k])
  <1> DEFINE b == Preceding(list, k + 1)
             a == Preceding(list, k)
             c == Append(a, list[k])
  <1>1. /\ k \in Nat /\ k + 1 \in 1..(Len(list) + 1) /\ k \in 1..(Len(list) + 1)
        /\ (k + 1) - 1 = k
    OBVIOUS
  <1>2. b \in Seq(S) /\ Len(b) = k /\ \A i \in 1..k : b[i] = list[i]
    BY <1>1, PrecedingFacts
  <1>3. a \in Seq(S) /\ Len(a) = k - 1 /\ \A i \in 1..(k - 1) : a[i] = list[i]
    BY <1>1, PrecedingFacts
  <1> HIDE DEF a, b
  <1>4. c \in Seq(S) /\ Len(c) = k
    BY <1>3
  <1>5. \A i \in 1..k : c[i] = list[i]
    BY <1>3
  <1> HIDE DEF c
  <1>6. b = c
    BY <1>1, <1>2, <1>4, <1>5, SeqEqual
  <1> QED
    BY <1>6 DEF a, b, c

LEMMA PrecedingEnds ==
  ASSUME NEW S, NEW list \in Seq(S)
  PROVE  Preceding(list, 1) = <<>> /\ Preceding(list, Len(list) + 1) = list
  <1>1. /\ Len(list) \in Nat /\ 1 \in 1..(Len(list) + 1)
        /\ Len(list) + 1 \in 1..(Len(list) + 1) /\ (Len(list) + 1) - 1 = Len(list)
    OBVIOUS
  <1>2. Preceding(list, 1) = <<>>
    BY <1>1, PrecedingFacts, EmptySeq
  <1>3. Preceding(list, Len(list) + 1) = list
    <2> DEFINE b == Preceding(list, Len(list) + 1)
    <2>1. b \in Seq(S) /\ Len(b) = Len(list) /\ \A i \in 1..Len(list) : b[i] = list[i]
      BY <1>1, PrecedingFacts
    <2> HIDE DEF b
    <2>2. b = list
      BY <2>1, SeqEqual
    <2> QED
      BY <2>2 DEF b
  <1> QED
    BY <1>2, <1>3

LEMMA PrecedingAppend ==
  ASSUME NEW S, NEW list \in Seq(S), NEW x \in S, NEW k \in 1..(Len(list) + 1)
  PROVE  Preceding(Append(list, x), k) = Preceding(list, k)
  <1> DEFINE more == Append(list, x)
             a == Preceding(list, k)
             b == Preceding(more, k)
  <1>1. /\ more \in Seq(S) /\ Len(more) = Len(list) + 1 /\ Len(list) \in Nat
        /\ \A i \in 1..Len(list) : more[i] = list[i]
        /\ k \in 1..(Len(more) + 1)
    OBVIOUS
  <1> HIDE DEF more
  <1>2. b \in Seq(S) /\ Len(b) = k - 1 /\ \A i \in 1..(k - 1) : b[i] = more[i]
    BY <1>1, PrecedingFacts
  <1>3. a \in Seq(S) /\ Len(a) = k - 1 /\ \A i \in 1..(k - 1) : a[i] = list[i]
    BY PrecedingFacts
  <1> HIDE DEF a, b
  <1>4. \A i \in 1..Len(b) : b[i] = a[i]
    BY <1>1, <1>2, <1>3
  <1>5. b = a
    BY <1>2, <1>3, <1>4, SeqEqual
  <1> QED
    BY <1>5 DEF a, b, more
\* A patch begins where the patches before it have come to, in the file, and
\* neither its data nor the range it copies is longer than there is.
GoesOn(x, made, old, new) ==
  /\ x.dataOffset < Len(new)
  /\ Len(made) = x.dataOffset
  /\ IF x.hasData THEN x.dataOffset + Len(x.result) <= Len(new)
                  ELSE x.sourceOffset + x.size <= Len(old)

Chained(list, old, new) ==
  \A k \in 1..Len(list) : GoesOn(list[k], Rebuilt(Preceding(list, k), old), old, new)

\* The patches of a file, if it has any, make all of it.
MakesAll(list, old, new) ==
  list # <<>> => Piece(Rebuilt(list, old), 0, Len(new)) = new

ChainInv ==
  /\ \A i \in DOMAIN patches : patches[i].target \in ChangedPaths
  /\ \A p \in ChangedPaths :
       /\ Chained(PatchesOf(patches, p), previous[p], next[p])
       /\ \/ stage = "failed"
          \/ stage = "chunk" /\ p = Path
          \/ MakesAll(PatchesOf(patches, p), previous[p], next[p])

\* A package that was not made by another tool is the one CreatePatch made.
OwnInv ==
  builds.package = NoPackage /\ package # NoPackage =>
    /\ stage = "created"
    /\ package.group = Pairs /\ package.patches = patches /\ package.chunkSize = chunkSize

\* The call under way can fail because of its patches only: no fault, and
\* no other reason.
Undisturbed ==
  /\ builds.package = NoPackage /\ package # NoPackage
  /\ ~disturbed
  /\ \A i \in DOMAIN package.patches :
       BaseIsRecorded(package.patches[i]) /\ EndsWithFile(package.patches[i])

\* The files the loop still has to read are the previous ones.
AsBefore ==
  /\ phase = "loading" => SourceBuild = previous
  /\ phase \in {"resource", "patch", "fresh", "check", "open", "copy"} =>
       \A i \in 1..Len(Group) :
         i > at \/ (i = at /\ phase \in {"resource", "patch"}) =>
           SourceBuild[Group[i]] = previous[Group[i]]

\* The temporary file is what the patches that were applied make.
AsPatched ==
  /\ phase = "patch" =>
       /\ Patches # <<>> /\ patchAt <= Len(Patches) + 1
       /\ temp = Rebuilt(Preceding(Patches, patchAt), previous[Target])
  /\ phase = "check" => temp = Expected

ProgressInv ==
  /\ package = NoPackage => result = NoResult
  /\ Undisturbed => /\ result \in {NoResult, "SUCCESS"}
                    /\ AsBefore
                    /\ AsPatched

FailInv == TypeInv /\ ChainInv /\ OwnInv /\ ProgressInv

LEMMA ChainedAppend ==
  ASSUME NEW list \in Seq(PatchType), NEW x \in PatchType, NEW old, NEW new,
         Chained(list, old, new), GoesOn(x, Rebuilt(list, old), old, new)
  PROVE  Chained(Append(list, x), old, new)
  <1> DEFINE more == Append(list, x)
             n == Len(list)
  <1>1. /\ n \in Nat /\ Len(more) = n + 1 /\ more[n + 1] = x
        /\ \A k \in 1..n : more[k] = list[k]
    OBVIOUS
  <1>2. \A k \in 1..(n + 1) : Preceding(more, k) = Preceding(list, k)
    BY PrecedingAppend
  <1>3. Preceding(list, n + 1) = list
    BY PrecedingEnds
  <1> HIDE DEF more
  <1>4. ASSUME NEW k \in 1..(n + 1)
        PROVE  GoesOn(more[k], Rebuilt(Preceding(more, k), old), old, new)
    <2>1. CASE k \in 1..n
      <3>1. GoesOn(list[k], Rebuilt(Preceding(list, k), old), old, new)
        BY <2>1 DEF Chained
      <3>2. more[k] = list[k] /\ Preceding(more, k) = Preceding(list, k)
        BY <1>1, <1>2, <2>1
      <3> QED
        BY <3>1, <3>2
    <2>2. CASE k = n + 1
      <3>1. more[k] = x /\ Preceding(more, k) = list
        BY <1>1, <1>2, <1>3, <2>2
      <3> QED
        BY <3>1
    <2> QED
      BY <1>1, <2>1, <2>2
  <1>5. Chained(more, old, new)
    BY <1>1, <1>4 DEF Chained
  <1> QED
    BY <1>5 DEF more

LEMMA ChainedNone ==
  ASSUME NEW old, NEW new
  PROVE  Chained(<<>>, old, new) /\ MakesAll(<<>>, old, new)
  BY DEF Chained, MakesAll

\* A patch for another file is no patch for this one.
LEMMA PatchesOfOther ==
  ASSUME NEW list \in Seq(PatchType), NEW x \in PatchType, NEW path, path # x.target
  PROVE  PatchesOf(Append(list, x), path) = PatchesOf(list, path)
  <1> DEFINE more == Append(list, x)
             S == Places(list, path)
             p == PatchesOf(list, path)
             q == PatchesOf(more, path)
  <1>1. /\ Len(list) \in Nat /\ more \in Seq(PatchType) /\ Len(more) = Len(list) + 1
        /\ more[Len(list) + 1] = x /\ \A i \in 1..Len(list) : more[i] = list[i]
    OBVIOUS
  <1>2. Places(more, path) = S
    BY <1>1 DEF Places
  <1> HIDE DEF more
  <1>3. /\ Ascending(S) \in Seq(S) /\ S \subseteq 1..Len(list)
        /\ p \in Seq(PatchType) /\ Len(p) = Len(Ascending(S))
        /\ \A k \in 1..Len(p) : p[k] = list[Ascending(S)[k]]
    BY PlacesFacts
  <1>4. /\ q \in Seq(PatchType) /\ Len(q) = Len(Ascending(S))
        /\ \A k \in 1..Len(q) : q[k] = more[Ascending(S)[k]]
    BY <1>1, <1>2, PlacesFacts
  <1> HIDE DEF S, p, q
  <1>5. PICK a : a = Ascending(S) /\ a \in Seq(S)
    BY <1>3
  <1>6. ASSUME NEW k \in 1..Len(q) PROVE q[k] = p[k]
    <2>1. a[k] \in S
      BY <1>4, <1>5, ElementOfSeq
    <2>2. a[k] \in 1..Len(list)
      BY <1>3, <2>1
    <2>3. q[k] = more[a[k]] /\ p[k] = list[a[k]]
      BY <1>3, <1>4, <1>5
    <2> QED
      BY <1>1, <2>2, <2>3
  <1>7. q = p
    BY <1>3, <1>4, <1>6, SeqEqual
  <1> QED
    BY <1>7 DEF p, q, more

\* The patches of a file are patches of the list, and are for the file.
LEMMA PatchesOfMembers ==
  ASSUME NEW list \in Seq(PatchType), NEW path, NEW k \in 1..Len(PatchesOf(list, path))
  PROVE  \E i \in DOMAIN list : PatchesOf(list, path)[k] = list[i] /\ list[i].target = path
  <1> DEFINE S == Places(list, path)
             p == PatchesOf(list, path)
  <1>1. /\ Ascending(S) \in Seq(S) /\ S \subseteq 1..Len(list)
        /\ Len(p) = Len(Ascending(S))
        /\ \A j \in 1..Len(p) : p[j] = list[Ascending(S)[j]]
    BY PlacesFacts
  <1>2. \A i \in S : i \in DOMAIN list /\ list[i].target = path
    BY DEF Places
  <1> HIDE DEF S, p
  <1>3. PICK a : a = Ascending(S) /\ a \in Seq(S)
    BY <1>1
  <1>4. k \in 1..Len(a)
    BY <1>1, <1>3 DEF p
  <1>5. a[k] \in S
    BY <1>3, <1>4, ElementOfSeq
  <1>6. p[k] = list[a[k]]
    BY <1>1, <1>3, <1>4
  <1> QED
    BY <1>2, <1>5, <1>6 DEF p

\* Patches that follow each other make no more bytes than the file has, so
\* what begins with the file is the file.
LEMMA ChainedEnds ==
  ASSUME NEW list \in Seq(PatchType), list # <<>>,
         NEW old \in Seq(Byte), NEW new \in Seq(Byte),
         Chained(list, old, new), MakesAll(list, old, new),
         \A k \in 1..Len(list) : ~list[k].hasData => list[k].dataOffset + list[k].size <= Len(new)
  PROVE  Rebuilt(list, old) = new
  <1> DEFINE n == Len(list)
             x == list[n]
             front == Preceding(list, n)
             made == Rebuilt(front, old)
             all == Rebuilt(list, old)
  <1>1. n \in Nat /\ n \in 1..n /\ n \in 1..(n + 1) /\ x \in PatchType
    BY EmptySeq, ElementOfSeq
  <1>2. front \in Seq(PatchType) /\ list = Append(front, x)
    BY <1>1, PrecedingFacts, PrecedingNext, PrecedingEnds
  <1>3. GoesOn(x, made, old, new)
    BY <1>1 DEF Chained
  <1>4. ~x.hasData => x.dataOffset + x.size <= Len(new)
    BY <1>1
  <1> HIDE DEF n, x, front, made, all
  <1>5. /\ Made(x, old) \in Seq(Byte) /\ made \in Seq(Byte)
        /\ Rebuilt(Append(front, x), old) = made \o Made(x, old)
    BY <1>1, <1>2, RebuiltAppend DEF made
  <1>6. all = made \o Made(x, old)
    BY <1>2, <1>5 DEF all
  <1>7. /\ all \in Seq(Byte) /\ Len(all) = Len(made) + Len(Made(x, old))
        /\ Len(made) = x.dataOffset /\ Len(made) \in Nat /\ Len(Made(x, old)) \in Nat
    <2>1. PICK m : m = Made(x, old) /\ m \in Seq(Byte)
      BY <1>5
    <2>2. all = made \o m /\ made \in Seq(Byte)
      BY <1>5, <1>6, <2>1
    <2>3. all \in Seq(Byte) /\ Len(all) = Len(made) + Len(m) /\ Len(made) \in Nat /\ Len(m) \in Nat
      BY <2>1, <2>2
    <2>4. Len(made) = x.dataOffset
      BY <1>3 DEF GoesOn
    <2> QED
      BY <2>1, <2>3, <2>4
  <1>8. x.dataOffset + Len(Made(x, old)) <= Len(new)
    <2>1. CASE x.hasData
      BY <1>3, <2>1 DEF GoesOn, Made
    <2>2. CASE ~x.hasData
      <3>1. /\ x.sourceOffset \in Nat /\ x.size \in Nat /\ x.dataOffset \in Nat
        BY <1>1 DEF PatchType
      <3>2. /\ Len(Piece(old, x.sourceOffset, x.size)) = LengthOf(old, x.sourceOffset, x.size)
            /\ LengthOf(old, x.sourceOffset, x.size) \in Nat
        BY <3>1, PieceFacts
      <3>3. LengthOf(old, x.sourceOffset, x.size) <= x.size
        BY <3>1 DEF LengthOf, Least
      <3>4. Len(Made(x, old)) <= x.size
        BY <2>2, <3>2, <3>3 DEF Made
      <3> QED
        BY <1>4, <1>7, <2>2, <3>1, <3>4
    <2> QED
      BY <2>1, <2>2
  <1>9. Len(all) <= Len(new) /\ Len(new) \in Nat
    BY <1>7, <1>8
  <1>10. Piece(all, 0, Len(new)) = all
    <2>1. /\ Piece(all, 0, Len(new)) \in Seq(Byte)
          /\ Len(Piece(all, 0, Len(new))) = LengthOf(all, 0, Len(new))
      BY <1>7, <1>9, PieceFacts
    <2>2. \A i \in 1..LengthOf(all, 0, Len(new)) : Piece(all, 0, Len(new))[i] = all[0 + i]
      BY <1>7, <1>9, PieceFacts
    <2>3. LengthOf(all, 0, Len(new)) = Len(all)
      BY <1>7, <1>9 DEF LengthOf, Least
    <2>4. \A i \in 1..Len(all) : Piece(all, 0, Len(new))[i] = all[i]
      BY <2>2, <2>3
    <2> QED
      BY <1>7, <2>1, <2>3, <2>4, SeqEqual
  <1>11. Piece(all, 0, Len(new)) = new
    BY DEF MakesAll, all
  <1> QED
    BY <1>10, <1>11 DEF all

LEMMA ChainInvInit == PatchInit => ChainInv /\ OwnInv /\ ProgressInv
  <1> SUFFICES ASSUME PatchInit PROVE ChainInv /\ OwnInv /\ ProgressInv
    OBVIOUS
  <1>1. patches = <<>> /\ package = builds.package /\ result = NoResult /\ phase = "idle"
    BY DEF PatchInit, CreateInit, ApplyInit
  <1>2. \A p \in ChangedPaths : PatchesOf(patches, p) = <<>>
    BY <1>1, PatchesOfNone
  <1>3. ChainInv
    BY <1>1, <1>2, ChainedNone DEF ChainInv
  <1>4. AsBefore /\ AsPatched
    BY <1>1 DEF AsBefore, AsPatched
  <1> QED
    BY <1>1, <1>3, <1>4 DEF OwnInv, ProgressInv

\* A file of the loop's that is done has been made.
LEMMA DoneIsMade ==
  ASSUME CreateInv, stage = "chunk", dataOffset >= Len(New)
  PROVE  MakesAll(PatchesOf(patches, Path), Old, New)
  <1>1. /\ PairInv /\ pair <= Len(Pairs) /\ Path \in ChangedPaths /\ dataOffset \in Nat
    BY DEF CreateInv, StreamInv
  <1>2. New \in Seq(Byte) /\ Len(New) \in Nat
    BY <1>1, ChunkStageFacts
  <1>3. Piece(Rebuilt(PatchesOf(patches, Path), Old), 0, Len(New)) = Piece(New, 0, dataOffset)
    BY RebuildMade DEF CreateInv, MadeUpTo
  <1>4. Piece(New, 0, dataOffset) = New
    <2> DEFINE p == Piece(New, 0, dataOffset)
    <2>1. p \in Seq(Byte) /\ Len(p) = LengthOf(New, 0, dataOffset)
      BY <1>1, <1>2, PieceFacts
    <2>2. \A i \in 1..LengthOf(New, 0, dataOffset) : p[i] = New[0 + i]
      BY <1>1, <1>2, PieceFacts
    <2>3. LengthOf(New, 0, dataOffset) = Len(New)
      BY <1>1, <1>2 DEF LengthOf, Least
    <2> HIDE DEF p
    <2>4. \A i \in 1..Len(p) : p[i] = New[i]
      BY <1>2, <2>1, <2>2, <2>3
    <2>5. p = New
      BY <1>2, <2>1, <2>3, <2>4, SeqEqual
    <2> QED
      BY <2>5 DEF p
  <1> QED
    BY <1>3, <1>4 DEF MakesAll

\* The steps of CreatePatch that leave the patches alone.
LEMMA LeavingChains ==
  ASSUME CreateInv, ChainInv, UNCHANGED <<builds, patches>>,
         \/ stage' = "failed"
         \/ stage \notin {"chunk", "failed"}
         \/ stage = "chunk" /\ dataOffset >= Len(New)
         \/ UNCHANGED <<stage, pair>>
  PROVE  ChainInv'
  <1>1. previous' = previous /\ next' = next /\ ChangedPaths' = ChangedPaths /\ Pairs' = Pairs
    BY BuildsStill
  <1>2. patches' = patches
    OBVIOUS
  <1>3. \A i \in DOMAIN patches' : patches'[i].target \in ChangedPaths'
    BY <1>1, <1>2 DEF ChainInv
  <1>4. ASSUME NEW p \in ChangedPaths
        PROVE  /\ Chained(PatchesOf(patches', p), previous'[p], next'[p])
               /\ \/ stage' = "failed"
                  \/ stage' = "chunk" /\ p = Path'
                  \/ MakesAll(PatchesOf(patches', p), previous'[p], next'[p])
    <2>1. /\ Chained(PatchesOf(patches, p), previous[p], next[p])
          /\ \/ stage = "failed"
             \/ stage = "chunk" /\ p = Path
             \/ MakesAll(PatchesOf(patches, p), previous[p], next[p])
      BY DEF ChainInv
    <2>2. Chained(PatchesOf(patches', p), previous'[p], next'[p])
      BY <1>1, <1>2, <2>1
    <2>3. CASE stage' = "failed"
      BY <2>2, <2>3
    <2>4. CASE MakesAll(PatchesOf(patches, p), previous[p], next[p])
      BY <1>1, <1>2, <2>2, <2>4
    <2>5. CASE stage = "chunk" /\ dataOffset >= Len(New) /\ p = Path
      <3>1. MakesAll(PatchesOf(patches, p), previous[p], next[p])
        BY <2>5, DoneIsMade DEF Old, New
      <3> QED
        BY <2>4, <3>1
    <2>6. CASE UNCHANGED <<stage, pair>>
      <3>1. Path' = Path
        BY <1>1, <2>6 DEF Path
      <3> QED
        BY <1>1, <1>2, <2>1, <2>2, <2>6, <3>1
    <2> QED
      BY <2>1, <2>3, <2>4, <2>5, <2>6
  <1> QED
    BY <1>1, <1>3, <1>4 DEF ChainInv

\* The steps that add a patch.
LEMMA AddingChains ==
  ASSUME CreateInv, ChainInv, NEW x \in PatchType, x.target = Path, Adding(x),
         GoesOn(x, Rebuilt(PatchesOf(patches, Path), Old), Old, New)
  PROVE  ChainInv'
  <1>1. previous' = previous /\ next' = next /\ ChangedPaths' = ChangedPaths
    BY BuildsStill DEF Adding
  <1>2. /\ patches \in Seq(PatchType) /\ patches' = Append(patches, x)
        /\ stage' = "chunk" /\ Path' = Path /\ Path \in ChangedPaths
    BY AddingStill DEF CreateInv, ListInv, StreamInv, Adding
  <1>3. \A i \in DOMAIN patches' : patches'[i].target \in ChangedPaths'
    <2>1. ASSUME NEW i \in DOMAIN patches' PROVE patches'[i].target \in ChangedPaths
      <3>1. (i \in DOMAIN patches /\ patches'[i] = patches[i]) \/ patches'[i] = x
        BY <1>2
      <3> QED
        BY <1>2, <3>1 DEF ChainInv
    <2> QED
      BY <1>1, <2>1
  <1>4. ASSUME NEW p \in ChangedPaths
        PROVE  /\ Chained(PatchesOf(patches', p), previous'[p], next'[p])
               /\ \/ stage' = "failed"
                  \/ stage' = "chunk" /\ p = Path'
                  \/ MakesAll(PatchesOf(patches', p), previous'[p], next'[p])
    <2>1. /\ Chained(PatchesOf(patches, p), previous[p], next[p])
          /\ \/ stage = "failed"
             \/ stage = "chunk" /\ p = Path
             \/ MakesAll(PatchesOf(patches, p), previous[p], next[p])
      BY DEF ChainInv
    <2>2. CASE p = Path
      <3>1. PatchesOf(patches', p) = Append(PatchesOf(patches, p), x)
        BY <1>2, <2>2, PatchesOfAppend
      <3>2. PatchesOf(patches, p) \in Seq(PatchType)
        BY <1>2, PlacesFacts
      <3>3. GoesOn(x, Rebuilt(PatchesOf(patches, p), previous[p]), previous[p], next[p])
        BY <2>2 DEF Old, New
      <3>4. Chained(PatchesOf(patches', p), previous[p], next[p])
        BY <2>1, <3>1, <3>2, <3>3, ChainedAppend
      <3> QED
        BY <1>1, <1>2, <2>2, <3>4
    <2>3. CASE p # Path
      <3>1. PatchesOf(patches', p) = PatchesOf(patches, p)
        BY <1>2, <2>3, PatchesOfOther
      <3>2. stage = "chunk"
        BY DEF Adding
      <3> QED
        BY <1>1, <2>1, <2>3, <3>1, <3>2
    <2> QED
      BY <2>2, <2>3
  <1> QED
    BY <1>1, <1>3, <1>4 DEF ChainInv

LEMMA MatchChains ==
  ASSUME CreateInv, ChainInv, MatchChunk, builds' = builds
  PROVE  ChainInv'
  <1>1. PICK m \in Nat, size \in Nat : Matches(m, size)
    BY MatchAdds
  <1> DEFINE x == MatchPatch(m, size)
  <1>2. m + size <= Len(Old) /\ x \in PatchType /\ Adding(x)
    BY <1>1 DEF Matches
  <1>3. /\ x.target = Path /\ x.dataOffset = dataOffset /\ ~x.hasData
        /\ x.sourceOffset = m /\ x.size = size
    BY DEF MatchPatch, NewPatch
  <1> HIDE DEF x
  <1>4. stage = "chunk" /\ dataOffset < Len(New)
    BY <1>2 DEF Adding
  <1>5. Len(Rebuilt(PatchesOf(patches, Path), Old)) = dataOffset
    BY <1>4, RebuildMade DEF CreateInv, MadeUpTo
  <1>6. GoesOn(x, Rebuilt(PatchesOf(patches, Path), Old), Old, New)
    BY <1>2, <1>3, <1>4, <1>5 DEF GoesOn
  <1> QED
    BY <1>2, <1>3, <1>6, AddingChains

LEMMA DiffChains ==
  ASSUME CreateInv, ChainInv, DiffChunk, builds' = builds
  PROVE  ChainInv'
  <1> DEFINE x == Difference
  <1>1. x \in PatchType /\ Adding(x) /\ NextChunk = Piece(New, dataOffset, chunkSize)
    BY DiffAdds
  <1>2. x.target = Path /\ x.dataOffset = dataOffset /\ x.hasData /\ x.result = NextChunk
    BY DEF Difference, NewPatch
  <1> HIDE DEF x
  <1>3. stage = "chunk" /\ dataOffset < Len(New)
    BY <1>1 DEF Adding
  <1>4. PairInv /\ pair <= Len(Pairs) /\ Path \in ChangedPaths /\ dataOffset \in Nat
    BY <1>3 DEF CreateInv, StreamInv
  <1>5. New \in Seq(Byte) /\ Len(New) \in Nat /\ chunkSize \in Nat /\ chunkSize \in Nat \ {0}
    BY <1>4, ChunkStageFacts
  <1>6. Len(Rebuilt(PatchesOf(patches, Path), Old)) = dataOffset
    BY <1>3, RebuildMade DEF CreateInv, MadeUpTo
  <1>7. dataOffset + Len(NextChunk) <= Len(New)
    <2>1. Len(NextChunk) = LengthOf(New, dataOffset, chunkSize)
      BY <1>1, <1>4, <1>5, PieceFacts
    <2> QED
      BY <1>3, <1>4, <1>5, <2>1 DEF LengthOf, Least
  <1>8. GoesOn(x, Rebuilt(PatchesOf(patches, Path), Old), Old, New)
    BY <1>2, <1>3, <1>6, <1>7 DEF GoesOn
  <1> QED
    BY <1>1, <1>2, <1>8, AddingChains

LEMMA ChainInvNext ==
  ASSUME CreateInv, ChainInv, [PatchNext]_patchVars
  PROVE  ChainInv'
  <1>1. CASE CreateStep
    <2>1. builds' = builds /\ CreateNext
      BY <1>1 DEF CreateStep
    <2>2. CASE MatchChunk
      BY <2>1, <2>2, MatchChains
    <2>3. CASE DiffChunk
      BY <2>1, <2>3, DiffChains
    <2>4. CASE SkipPair \/ OpenPair \/ NextPair \/ PutGroup \/ PutDocument \/ CreateFails
      <3>1. patches' = patches
        BY <2>4 DEF SkipPair, OpenPair, NextPair, PutGroup, PutDocument, CreateFails
      <3>2. \/ stage' = "failed"
            \/ stage \notin {"chunk", "failed"}
            \/ stage = "chunk" /\ dataOffset >= Len(New)
        BY <2>4 DEF SkipPair, OpenPair, NextPair, PutGroup, PutDocument, CreateFails
      <3> QED
        BY <2>1, <3>1, <3>2, LeavingChains
    <2> QED
      BY <2>1, <2>2, <2>3, <2>4 DEF CreateNext
  <1>2. CASE UNCHANGED <<builds, createVars>>
    BY <1>2, LeavingChains DEF createVars
  <1> QED
    BY <1>1, <1>2 DEF PatchNext, patchVars

LEMMA OwnInvNext ==
  ASSUME PackageInv, OwnInv, [PatchNext]_patchVars
  PROVE  OwnInv'
  <1>1. CASE CreateStep
    <2>1. builds' = builds /\ builds.package = NoPackage
      BY <1>1 DEF CreateStep
    <2>2. Pairs' = Pairs /\ chunkSize' = chunkSize
      BY <2>1, BuildsStill
    <2>3. CASE PutDocument
      <3>1. /\ stage' = "created" /\ patches' = patches
            /\ package'.group = Pairs /\ package'.patches = patches
            /\ package'.chunkSize = chunkSize
        BY <2>3 DEF PutDocument
      <3> QED
        BY <2>1, <2>2, <3>1 DEF OwnInv
    <2>4. CASE SkipPair \/ OpenPair \/ NextPair \/ PutGroup \/ CreateFails \/ MatchChunk \/ DiffChunk
      <3>1. package' = package /\ stage # "created"
        BY <2>4 DEF SkipPair, OpenPair, NextPair, PutGroup, CreateFails, MatchChunk, DiffChunk,
          MoreChunks
      <3>2. package = NoPackage
        BY <2>1, <3>1 DEF PackageInv
      <3> QED
        BY <3>1, <3>2 DEF OwnInv
    <2> QED
      BY <1>1, <2>3, <2>4 DEF CreateStep, CreateNext
  <1>2. CASE UNCHANGED <<builds, createVars, package>>
    <2>1. Pairs' = Pairs /\ chunkSize' = chunkSize /\ stage' = stage /\ patches' = patches
      BY <1>2, BuildsStill DEF createVars
    <2> QED
      BY <1>2, <2>1 DEF OwnInv
  <1>3. CASE ApplyNext /\ UNCHANGED <<builds, createVars>>
    BY <1>2, <1>3 DEF ApplyNext, ApplyStep, CallApply, LoadGroup, StartResource, SourceMissing, CopyGap,
      GapFails, ApplyDelta, CopyRange, RangeFails, AppendNothing, PatchesDone, CopyFresh,
      CheckFile, CheckFails, OpenDestination, CopyPiece, CloseDestination, StartRemoval,
      RemoveFile, RemoveFolder, NextRemoved, ApplyDone, ApplyFails, FolderStays, Crash, KeepCall
  <1> QED
    BY <1>1, <1>2, <1>3 DEF PatchNext, patchVars

\* What a call finds that can only fail because of its patches.
LEMMA OwnFacts ==
  ASSUME FailInv, Undisturbed
  PROVE  /\ stage = "created" /\ Group = Pairs /\ package.patches = patches
         /\ package.chunkSize = chunkSize
         /\ patches \in Seq(PatchType)
         /\ \A i, j \in 1..Len(Group) : Group[i] = Group[j] => i = j
  <1>1. /\ stage = "created"
        /\ package.group = Pairs /\ package.patches = patches /\ package.chunkSize = chunkSize
    BY DEF FailInv, OwnInv, Undisturbed
  <1>2. Group = Pairs
    BY <1>1 DEF Group
  <1> QED
    BY <1>1, <1>2, PairsFacts DEF FailInv, TypeInv, CreateInv, ListInv

LEMMA TargetChain ==
  ASSUME FailInv, Undisturbed, at \in 1..Len(Group)
  PROVE  /\ Patches \in Seq(PatchType)
         /\ Patches # <<>> =>
              /\ previous[Target] \in Seq(Byte) /\ Expected \in Seq(Byte)
              /\ Chained(Patches, previous[Target], Expected)
              /\ MakesAll(Patches, previous[Target], Expected)
              /\ \A k \in 1..Len(Patches) :
                   /\ Patches[k].target = Target
                   /\ BaseIsRecorded(Patches[k]) /\ EndsWithFile(Patches[k])
  <1>1. /\ stage = "created" /\ package.patches = patches /\ patches \in Seq(PatchType)
    BY OwnFacts
  <1>2. Patches = PatchesOf(patches, Target)
    BY <1>1 DEF Patches
  <1>3. Patches \in Seq(PatchType)
    BY <1>1, <1>2, PlacesFacts
  <1>4. ASSUME NEW k \in 1..Len(Patches)
        PROVE  /\ Patches[k].target = Target /\ Target \in ChangedPaths
               /\ BaseIsRecorded(Patches[k]) /\ EndsWithFile(Patches[k])
    <2>1. PICK i \in DOMAIN patches : Patches[k] = patches[i] /\ patches[i].target = Target
      BY <1>1, <1>2, <1>4, PatchesOfMembers
    <2>2. patches[i].target \in ChangedPaths
      BY DEF FailInv, ChainInv
    <2>3. BaseIsRecorded(patches[i]) /\ EndsWithFile(patches[i])
      BY <1>1 DEF Undisturbed
    <2> QED
      BY <2>1, <2>2, <2>3
  <1>5. ASSUME Patches # <<>>
        PROVE  /\ previous[Target] \in Seq(Byte) /\ Expected \in Seq(Byte)
               /\ Chained(Patches, previous[Target], Expected)
               /\ MakesAll(Patches, previous[Target], Expected)
    <2>1. 1 \in 1..Len(Patches)
      BY <1>3, <1>5, EmptySeq
    <2>2. Target \in ChangedPaths
      BY <1>4, <2>1
    <2>3. /\ Chained(PatchesOf(patches, Target), previous[Target], next[Target])
          /\ MakesAll(PatchesOf(patches, Target), previous[Target], next[Target])
      BY <1>1, <2>2 DEF FailInv, ChainInv
    <2>4. previous \in [Paths -> Content] /\ next \in [Paths -> Content]
      BY BuildsTyped DEF FailInv, TypeInv, ApplyInv, PackageInv
    <2>5. previous[Target] \in Seq(Byte) /\ next[Target] \in Seq(Byte)
      BY <2>2, <2>4 DEF ChangedPaths, Present, Content
    <2> QED
      BY <1>2, <2>3, <2>5 DEF Expected
  <1> QED
    BY <1>3, <1>4, <1>5

\* Where the loop over the patches is.
LEMMA AtPatchFacts ==
  ASSUME FailInv, Undisturbed, phase = "patch"
  PROVE  /\ at \in 1..Len(Group) /\ Patches # <<>>
         /\ Source = previous[Target]
         /\ patchAt \in 1..(Len(Patches) + 1) /\ Len(Patches) \in Nat
         /\ temp = Rebuilt(Preceding(Patches, patchAt), Source)
         /\ patchAt <= Len(Patches) =>
              /\ ThePatch \in PatchType
              /\ GoesOn(ThePatch, temp, Source, Expected)
              /\ ThePatch.target = Target /\ BaseIsRecorded(ThePatch)
              /\ ~Gap /\ ThePatch.dataOffset < Len(Expected)
  <1>1. at \in 1..Len(Group)
    <2>1. ApplyInv
      BY DEF FailInv, TypeInv
    <2> QED
      BY <2>1, TargetFacts
  <1>2. /\ Patches # <<>> /\ patchAt <= Len(Patches) + 1
        /\ temp = Rebuilt(Preceding(Patches, patchAt), previous[Target])
    BY DEF FailInv, ProgressInv, AsPatched
  <1>3. Source = previous[Target]
    <2>1. AsBefore
      BY DEF FailInv, ProgressInv
    <2>2. SourceBuild[Group[at]] = previous[Group[at]]
      BY <1>1, <2>1 DEF AsBefore
    <2> QED
      BY <2>2 DEF Source, Target
  <1>4. patchAt \in Nat \ {0}
    BY DEF FailInv, TypeInv, StreamsTyped
  <1>5. /\ Patches \in Seq(PatchType)
        /\ Chained(Patches, previous[Target], Expected)
        /\ \A k \in 1..Len(Patches) : Patches[k].target = Target /\ BaseIsRecorded(Patches[k])
    BY <1>1, <1>2, TargetChain
  <1>6. Len(Patches) \in Nat /\ patchAt \in 1..(Len(Patches) + 1)
    BY <1>2, <1>4, <1>5
  <1>7. ASSUME patchAt <= Len(Patches)
        PROVE  /\ ThePatch \in PatchType
               /\ GoesOn(ThePatch, temp, Source, Expected)
               /\ ThePatch.target = Target /\ BaseIsRecorded(ThePatch)
               /\ ~Gap /\ ThePatch.dataOffset < Len(Expected)
    <2>1. patchAt \in 1..Len(Patches)
      BY <1>6, <1>7
    <2>2. ThePatch \in PatchType /\ ThePatch.target = Target /\ BaseIsRecorded(ThePatch)
      BY <1>5, <2>1 DEF ThePatch
    <2>3. GoesOn(ThePatch, temp, Source, Expected)
      BY <1>2, <1>3, <1>5, <2>1 DEF ThePatch, Chained
    <2>4. /\ ThePatch.dataOffset < Len(Expected) /\ Len(temp) = ThePatch.dataOffset
          /\ ThePatch.dataOffset \in Nat
      BY <2>2, <2>3 DEF GoesOn, PatchType
    <2>5. ~Gap
      BY <2>4 DEF Gap, Remaining
    <2> QED
      BY <2>2, <2>3, <2>4, <2>5
  <1> QED
    BY <1>1, <1>2, <1>3, <1>6, <1>7

\* The patch is applied, and makes what it should.
LEMMA AppliedFurther ==
  ASSUME FailInv, Undisturbed, phase = "patch", patchAt <= Len(Patches),
         NEW out, out = Made(ThePatch, Source)
  PROVE  temp \o out = Rebuilt(Preceding(Patches, patchAt + 1), previous[Target])
  <1>1. /\ at \in 1..Len(Group) /\ Patches # <<>> /\ Source = previous[Target]
        /\ patchAt \in 1..Len(Patches)
        /\ temp = Rebuilt(Preceding(Patches, patchAt), Source)
        /\ ThePatch \in PatchType
    BY AtPatchFacts
  <1>2. Patches \in Seq(PatchType) /\ Source \in Seq(Byte)
    BY <1>1, TargetChain
  <1>3. Preceding(Patches, patchAt + 1) = Append(Preceding(Patches, patchAt), ThePatch)
    BY <1>1, <1>2, PrecedingNext DEF ThePatch
  <1>4. Preceding(Patches, patchAt) \in Seq(PatchType)
    BY <1>1, <1>2, PrecedingFacts
  <1>5. Rebuilt(Append(Preceding(Patches, patchAt), ThePatch), Source)
          = Rebuilt(Preceding(Patches, patchAt), Source) \o Made(ThePatch, Source)
    BY <1>1, <1>2, <1>4, RebuiltAppend
  <1> QED
    BY <1>1, <1>3, <1>5

--------------------------------------------------------------------------
(* Its steps.                                                              *)

LEMMA UndisturbedKept ==
  ASSUME UNCHANGED <<builds, package, disturbed>>
  PROVE  /\ Undisturbed' = Undisturbed
         /\ previous' = previous /\ next' = next /\ Group' = Group
  <1>1. /\ previous' = previous /\ next' = next /\ chunkSize' = chunkSize
        /\ package' = package /\ builds' = builds /\ disturbed' = disturbed
    BY BuildsStill
  <1>2. Undisturbed' = Undisturbed
    BY <1>1 DEF Undisturbed, BaseIsRecorded, EndsWithFile
  <1> QED
    BY <1>1, <1>2 DEF Group

\* The steps that leave the destination alone.
LEMMA AsBeforeKept ==
  ASSUME FailInv, Undisturbed, UNCHANGED <<builds, package, destination>>,
         \/ phase = "loading" /\ phase' = "resource"
         \/ /\ phase \in {"resource", "patch", "fresh", "check", "open", "copy"}
            /\ phase \in {"resource", "patch"} \/ phase' \notin {"resource", "patch"}
            /\ at' = at /\ phase' # "loading"
         \/ phase' \notin {"loading", "resource", "patch", "fresh", "check", "open", "copy"}
  PROVE  AsBefore'
  <1>1. /\ AsBefore
        /\ \A i \in 1..Len(Group) : Group[i] \in Paths
    BY ListFacts DEF FailInv, TypeInv, ApplyInv, ProgressInv, Undisturbed
  <1>2. given' = given /\ previous' = previous /\ Group' = Group
    BY BuildsStill DEF Group
  <1>3. SourceBuild' = SourceBuild
    BY <1>2 DEF SourceBuild
  <1>4. CASE phase = "loading" /\ phase' = "resource"
    <2>1. SourceBuild = previous
      BY <1>1, <1>4 DEF AsBefore
    <2> QED
      BY <1>2, <1>3, <1>4, <2>1 DEF AsBefore
  <1>5. CASE /\ phase \in {"resource", "patch", "fresh", "check", "open", "copy"}
             /\ phase \in {"resource", "patch"} \/ phase' \notin {"resource", "patch"}
             /\ at' = at /\ phase' # "loading"
    BY <1>1, <1>2, <1>3, <1>5 DEF AsBefore
  <1>6. CASE phase' \notin {"loading", "resource", "patch", "fresh", "check", "open", "copy"}
    BY <1>6 DEF AsBefore
  <1> QED
    BY <1>4, <1>5, <1>6

\* The steps that write the file the loop is at: no later file is the same.
LEMMA AsBeforeWritten ==
  ASSUME FailInv, Undisturbed, UNCHANGED <<builds, package>>,
         phase \in {"open", "copy"},
         NEW file, destination' = [destination EXCEPT ![Target] = file],
         \/ phase' = "copy" /\ at' = at
         \/ phase' = "resource" /\ at' = at + 1
  PROVE  AsBefore'
  <1>1. /\ AsBefore /\ at \in Nat /\ destination \in [Paths -> Content]
        /\ \A i \in 1..Len(Group) : Group[i] \in Paths
    <2>1. ApplyInv /\ AsBefore
      BY DEF FailInv, TypeInv, ProgressInv
    <2>2. \A i \in 1..Len(Group) : Group[i] \in Patched
      BY <2>1, ListFacts DEF ApplyInv, Undisturbed
    <2>3. \A p \in Patched : p \in Paths
      BY <2>1, ListFacts DEF ApplyInv, Undisturbed
    <2> QED
      BY <2>1, <2>2, <2>3 DEF ApplyInv, PlaceInv
  <1>2. at \in 1..Len(Group)
    BY TargetFacts DEF FailInv, TypeInv
  <1>3. given' = given /\ previous' = previous /\ Group' = Group
    BY BuildsStill DEF Group
  <1>4. \A i \in 1..Len(Group) : i > at => Group[i] # Target
    <2>1. \A i, j \in 1..Len(Group) : Group[i] = Group[j] => i = j
      BY OwnFacts
    <2> QED
      BY <1>1, <1>2, <2>1 DEF Target
  <1>5. ASSUME NEW i \in 1..Len(Group), i > at
        PROVE  SourceBuild'[Group[i]] = previous[Group[i]]
    <2>1. SourceBuild[Group[i]] = previous[Group[i]]
      BY <1>1, <1>5 DEF AsBefore
    <2>2. destination'[Group[i]] = destination[Group[i]]
      BY <1>1, <1>4, <1>5
    <2> QED
      BY <1>3, <2>1, <2>2 DEF SourceBuild
  <1>6. \A i \in 1..Len(Group) : i > at' \/ (i = at' /\ phase' \in {"resource", "patch"}) => i > at
    BY <1>1
  <1> QED
    BY <1>3, <1>5, <1>6 DEF AsBefore

\* The reasons a call would have to fail, and what else does not happen.
LEMMA NothingFails ==
  ASSUME FailInv, Undisturbed
  PROVE  /\ ~SourceMissing /\ ~CopyGap /\ ~GapFails /\ ~RangeFails /\ ~AppendNothing
         /\ ~CheckFails
  <1>1. ~SourceMissing
    <2> SUFFICES ASSUME SourceMissing PROVE FALSE
      OBVIOUS
    <2>1. phase = "resource" /\ at <= Len(Group) /\ Patches # <<>> /\ Source = Absent
      BY DEF SourceMissing
    <2>2. /\ at \in Nat \ {0} /\ Len(Group) \in Nat /\ AsBefore /\ Absent \notin Seq(Byte)
      BY ListFacts, BuildsTyped
        DEF FailInv, TypeInv, ApplyInv, PlaceInv, PackageInv, ProgressInv, Undisturbed
    <2>3. at \in 1..Len(Group)
      BY <2>1, <2>2
    <2>4. SourceBuild[Group[at]] = previous[Group[at]]
      BY <2>1, <2>2, <2>3 DEF AsBefore
    <2>5. previous[Target] \in Seq(Byte)
      BY <2>1, <2>3, TargetChain
    <2> QED
      BY <2>1, <2>2, <2>4, <2>5 DEF Source, Target
  <1>2. ASSUME AtPatch PROVE ~Gap /\ ThePatch.dataOffset < Len(Expected)
                             /\ GoesOn(ThePatch, temp, Source, Expected)
    BY <1>2, AtPatchFacts DEF AtPatch
  <1>3. ~CopyGap /\ ~GapFails
    BY <1>2 DEF CopyGap, GapFails
  <1>4. ~RangeFails
    BY <1>2 DEF RangeFails, AtOffset, RangeExists, GoesOn
  <1>5. ~AppendNothing
    <2> SUFFICES ASSUME AppendNothing PROVE FALSE
      OBVIOUS
    <2>1. AtPatch /\ ThePatch.dataOffset >= Len(Expected)
      BY DEF AppendNothing
    <2>2. phase = "patch" /\ patchAt <= Len(Patches)
      BY <2>1 DEF AtPatch
    <2>3. ThePatch \in PatchType /\ at \in 1..Len(Group) /\ Patches # <<>>
      BY <2>2, AtPatchFacts
    <2>4. Expected \in Seq(Byte)
      BY <2>3, TargetChain
    <2>5. ThePatch.dataOffset \in Nat /\ Len(Expected) \in Nat
      BY <2>3, <2>4 DEF PatchType
    <2> QED
      BY <1>2, <2>1, <2>5
  <1>6. ~CheckFails
    BY DEF CheckFails, ChecksumRight, FailInv, ProgressInv, AsPatched
  <1> QED
    BY <1>1, <1>3, <1>4, <1>5, <1>6

\* What the temporary file becomes.
LEMMA AsPatchedNext ==
  ASSUME FailInv, Undisturbed, UNCHANGED <<builds, package, disturbed>>,
         StartResource \/ ApplyDelta \/ CopyRange \/ PatchesDone \/ CopyFresh
  PROVE  AsPatched'
  <1>1. previous' = previous /\ next' = next /\ Group' = Group
    BY UndisturbedKept
  <1>2. at' = at
    BY DEF StartResource, ApplyDelta, CopyRange, PatchesDone, CopyFresh, KeepPlace
  <1>3. Target' = Target /\ Expected' = Expected /\ Patches' = Patches
    <2>1. Target' = Target
      BY <1>1, <1>2 DEF Target
    <2> QED
      BY <1>1, <2>1 DEF Expected, Patches
  <1>4. CASE StartResource
    <2>1. /\ phase = "resource" /\ at <= Len(Group)
          /\ temp' = <<>> /\ patchAt' = 1
          /\ phase' = IF Patches = <<>> THEN "fresh" ELSE "patch"
      BY <1>4 DEF StartResource
    <2>2. at \in 1..Len(Group)
      BY <2>1, ListFacts DEF FailInv, TypeInv, ApplyInv, PlaceInv, Undisturbed
    <2>3. Patches \in Seq(PatchType)
      BY <2>2, TargetChain
    <2>4. Patches # <<>> => previous[Target] \in Seq(Byte)
      BY <2>2, TargetChain
    <2>5. Preceding(Patches, 1) = <<>> /\ 1 <= Len(Patches) + 1
      BY <2>3, PrecedingEnds
    <2>6. \A f : Rebuilt(<<>>, f) = <<>>
      BY FlattenEmpty DEF Rebuilt
    <2> QED
      BY <1>1, <1>3, <2>1, <2>5, <2>6 DEF AsPatched
  <1>5. CASE ApplyDelta \/ CopyRange
    <2>1. phase = "patch" /\ phase' = phase /\ patchAt <= Len(Patches) /\ patchAt' = patchAt + 1
      BY <1>5 DEF ApplyDelta, CopyRange, AtOffset, AtPatch
    <2>2. /\ at \in 1..Len(Group) /\ Patches # <<>> /\ Source = previous[Target]
          /\ patchAt \in 1..(Len(Patches) + 1) /\ Len(Patches) \in Nat
          /\ ThePatch \in PatchType /\ ThePatch.target = Target /\ BaseIsRecorded(ThePatch)
      BY <2>1, AtPatchFacts
    <2>3. PICK out : temp' = temp \o out /\ out = Made(ThePatch, Source)
      <3>1. CASE ApplyDelta
        <4>1. /\ ThePatch.hasData
              /\ \E out \in Outcomes(Piece(Source, ThePatch.sourceOffset, package.chunkSize)) :
                   temp' = temp \o out
          BY <3>1 DEF ApplyDelta, AppliedAt, Seek, Reopened
        <4>2. package.chunkSize = chunkSize
          BY OwnFacts
        <4>3. \/ ThePatch.base = <<>>
              \/ ThePatch.base = Piece(Source, ThePatch.sourceOffset, package.chunkSize)
          BY <2>2, <4>1, <4>2 DEF BaseIsRecorded
        <4>4. Outcomes(Piece(Source, ThePatch.sourceOffset, package.chunkSize)) = {ThePatch.result}
          BY <4>3 DEF Outcomes
        <4> QED
          BY <4>1, <4>4 DEF Made
      <3>2. CASE CopyRange
        BY <3>2 DEF CopyRange, Made
      <3> QED
        BY <1>5, <3>1, <3>2
    <2>4. temp \o out = Rebuilt(Preceding(Patches, patchAt + 1), previous[Target])
      BY <2>1, <2>3, AppliedFurther
    <2>5. patchAt' <= Len(Patches) + 1
      BY <2>1, <2>2
    <2> QED
      BY <1>1, <1>3, <2>1, <2>2, <2>3, <2>4, <2>5 DEF AsPatched
  <1>6. CASE PatchesDone
    <2>1. phase = "patch" /\ patchAt > Len(Patches) /\ phase' = "check" /\ temp' = temp
      BY <1>6 DEF PatchesDone
    <2>2. /\ at \in 1..Len(Group) /\ Patches # <<>> /\ Source = previous[Target]
          /\ patchAt \in 1..(Len(Patches) + 1) /\ Len(Patches) \in Nat
          /\ temp = Rebuilt(Preceding(Patches, patchAt), Source)
      BY <2>1, AtPatchFacts
    <2>3. patchAt = Len(Patches) + 1
      BY <2>1, <2>2
    <2>4. /\ Patches \in Seq(PatchType)
          /\ previous[Target] \in Seq(Byte) /\ Expected \in Seq(Byte)
          /\ Chained(Patches, previous[Target], Expected)
          /\ MakesAll(Patches, previous[Target], Expected)
          /\ \A k \in 1..Len(Patches) : Patches[k].target = Target /\ EndsWithFile(Patches[k])
      BY <2>2, TargetChain
    <2>5. \A k \in 1..Len(Patches) : ~Patches[k].hasData =>
            Patches[k].dataOffset + Patches[k].size <= Len(Expected)
      BY <2>4 DEF EndsWithFile, Expected
    <2>6. Rebuilt(Patches, previous[Target]) = Expected
      BY <2>2, <2>4, <2>5, ChainedEnds
    <2>7. Preceding(Patches, patchAt) = Patches
      BY <2>3, <2>4, PrecedingEnds
    <2> QED
      BY <1>3, <2>1, <2>2, <2>6, <2>7 DEF AsPatched
  <1>7. CASE CopyFresh
    BY <1>3, <1>7 DEF CopyFresh, AsPatched
  <1> QED
    BY <1>4, <1>5, <1>6, <1>7

\* The steps of a call that has met no fault.
LEMMA GoingOn ==
  ASSUME FailInv, ApplyNext, UNCHANGED <<builds, createVars>>,
         ~CallApply, ~ApplyFails, ~Crash
  PROVE  ProgressInv'
  <1>1. UNCHANGED <<builds, package, disturbed>> /\ phase # "idle"
    BY DEF ApplyNext, ApplyStep, LoadGroup, StartResource, SourceMissing, CopyGap,
      GapFails, ApplyDelta, CopyRange, RangeFails, AppendNothing, PatchesDone, CopyFresh,
      CheckFile, CheckFails, OpenDestination, CopyPiece, CloseDestination, StartRemoval,
      RemoveFile, RemoveFolder, NextRemoved, ApplyDone, FolderStays, KeepCall,
      AtOffset, AtPatch
  <1>2. package # NoPackage /\ package' # NoPackage
    BY <1>1 DEF FailInv, TypeInv, ApplyInv, PlaceInv
  <1>3. SUFFICES ASSUME Undisturbed
                 PROVE  result' \in {NoResult, "SUCCESS"} /\ AsBefore' /\ AsPatched'
    BY <1>1, <1>2, UndisturbedKept DEF ProgressInv
  <1>4. result \in {NoResult, "SUCCESS"}
    BY <1>3 DEF FailInv, ProgressInv
  <1>5. CASE StartResource \/ ApplyDelta \/ CopyRange \/ PatchesDone \/ CopyFresh
    <2>1. AsPatched'
      BY <1>1, <1>3, <1>5, AsPatchedNext
    <2>2. /\ destination' = destination /\ at' = at /\ result' = result
          /\ phase \in {"resource", "patch", "fresh"} /\ phase' \in {"patch", "fresh", "check"}
          /\ phase \in {"resource", "patch"} \/ phase' # "patch"
      BY <1>5 DEF StartResource, ApplyDelta, CopyRange, PatchesDone, CopyFresh, AtOffset, AtPatch,
        KeepDisk, KeepCall, KeepPlace
    <2>3. AsBefore'
      BY <1>1, <1>3, <2>2, AsBeforeKept
    <2> QED
      BY <1>4, <2>1, <2>2, <2>3
  <1>6. CASE LoadGroup \/ CheckFile \/ StartRemoval
    <2>1. /\ destination' = destination /\ result' = result
          /\ phase' \in {"resource", "open", "remove"}
          /\ \/ phase = "loading" /\ phase' = "resource"
             \/ phase = "check" /\ phase' = "open" /\ at' = at
             \/ phase' = "remove"
      BY <1>6 DEF LoadGroup, CheckFile, StartRemoval, KeepDisk, KeepCall, KeepPlace
    <2>2. AsBefore'
      BY <1>1, <1>3, <2>1, AsBeforeKept
    <2>3. AsPatched'
      BY <2>1 DEF AsPatched
    <2> QED
      BY <1>4, <2>1, <2>2, <2>3
  <1>7. CASE OpenDestination \/ CopyPiece \/ CloseDestination
    <2>1. /\ phase \in {"open", "copy"} /\ result' = result
          /\ \/ phase' = "copy" /\ at' = at
             \/ phase' = "resource" /\ at' = at + 1
      BY <1>7 DEF OpenDestination, CopyPiece, CloseDestination, KeepCall, KeepPlace
    <2>2. PICK file : destination' = [destination EXCEPT ![Target] = file]
      BY <1>7, WrittenFile DEF FailInv, TypeInv
    <2>3. AsBefore'
      BY <1>1, <1>3, <2>1, <2>2, AsBeforeWritten
    <2>4. AsPatched'
      BY <2>1 DEF AsPatched
    <2> QED
      BY <1>4, <2>1, <2>3, <2>4
  <1>8. CASE RemoveFile \/ RemoveFolder \/ FolderStays \/ NextRemoved \/ ApplyDone
    <2>1. phase' \in {"remove", "tidy", "idle"} /\ result' \in {result, "SUCCESS"}
      BY <1>8 DEF RemoveFile, RemoveFolder, FolderStays, NextRemoved, ApplyDone, KeepCall, Return
    <2>2. AsBefore' /\ AsPatched'
      BY <2>1 DEF AsBefore, AsPatched
    <2> QED
      BY <1>4, <2>1, <2>2
  <1> QED
    BY <1>3, <1>5, <1>6, <1>7, <1>8, NothingFails DEF ApplyNext, ApplyStep

\* The beginning of a call, its faults, and what is no step of a call.
LEMMA OtherSteps ==
  ASSUME FailInv, [PatchNext]_patchVars,
         CreateStep \/ UNCHANGED patchVars \/ CallApply \/ ApplyFails \/ Crash,
         builds' = builds
  PROVE  ProgressInv'
  <1>1. CASE CallApply
    <2>1. /\ package # NoPackage /\ package' = package /\ destination' = destination
          /\ phase' = "loading" /\ result' = NoResult
          /\ disturbed' = (SourceBuild # previous)
      BY <1>1 DEF CallApply
    <2>2. given' = given /\ previous' = previous
      BY BuildsStill
    <2>3. SourceBuild' = SourceBuild
      BY <2>1, <2>2 DEF SourceBuild
    <2>4. ASSUME Undisturbed' PROVE SourceBuild' = previous'
      <3>1. ~disturbed'
        BY <2>4 DEF Undisturbed
      <3>2. SourceBuild = previous
        BY <2>1, <3>1, Zenon
      <3> QED
        BY <2>2, <2>3, <3>2
    <2>5. Undisturbed' => AsBefore' /\ AsPatched'
      BY <2>1, <2>4 DEF AsBefore, AsPatched
    <2> QED
      BY <2>1, <2>5 DEF ProgressInv
  <1>2. CASE ApplyFails \/ Crash
    <2>1. disturbed' = TRUE /\ package' = package /\ phase # "idle"
      BY <1>2 DEF ApplyFails, Crash
    <2>2. ~Undisturbed'
      BY <2>1 DEF Undisturbed
    <2>3. package # NoPackage
      BY <2>1 DEF FailInv, TypeInv, ApplyInv, PlaceInv
    <2> QED
      BY <2>1, <2>2, <2>3 DEF ProgressInv
  <1>3. CASE CreateStep
    <2>1. /\ result' = result /\ phase' = phase /\ disturbed' = disturbed
          /\ builds.package = NoPackage
      BY <1>3 DEF CreateStep, applyVars
    <2>2. stage # "created"
      BY <1>3 DEF CreateStep, CreateNext, SkipPair, OpenPair, MatchChunk, DiffChunk, MoreChunks,
        NextPair, PutGroup, PutDocument, CreateFails
    <2>3. package = NoPackage
      BY <2>1, <2>2 DEF FailInv, TypeInv, ApplyInv, PackageInv
    <2>4. result = NoResult /\ phase = "idle"
      BY <2>3 DEF FailInv, TypeInv, ApplyInv, PlaceInv, ProgressInv
    <2>5. AsBefore' /\ AsPatched'
      BY <2>1, <2>4 DEF AsBefore, AsPatched
    <2> QED
      BY <2>1, <2>4, <2>5 DEF ProgressInv
  <1>4. CASE UNCHANGED patchVars
    <2>1. UNCHANGED <<builds, package, disturbed, destination, at, phase, result, patchAt, temp>>
      BY <1>4 DEF patchVars, applyVars
    <2>2. /\ Undisturbed' = Undisturbed /\ previous' = previous /\ next' = next /\ Group' = Group
          /\ given' = given
      BY <2>1, UndisturbedKept, BuildsStill
    <2>3. Target' = Target /\ Expected' = Expected /\ Patches' = Patches
      BY <2>1, <2>2 DEF Target, Expected, Patches
    <2>4. SourceBuild' = SourceBuild
      BY <2>1, <2>2 DEF SourceBuild
    <2>5. AsBefore' = AsBefore
      BY <2>1, <2>2, <2>4 DEF AsBefore
    <2>6. AsPatched' = AsPatched
      BY <2>1, <2>2, <2>3 DEF AsPatched
    <2>7. ProgressInv
      BY DEF FailInv
    <2> QED
      BY <2>1, <2>2, <2>5, <2>6, <2>7 DEF ProgressInv
  <1> QED
    BY <1>1, <1>2, <1>3, <1>4

LEMMA FailInvNext == FailInv /\ [PatchNext]_patchVars => FailInv'
  <1> SUFFICES ASSUME FailInv, [PatchNext]_patchVars PROVE FailInv'
    OBVIOUS
  <1>1. TypeInv'
    BY TypeInvNext DEF FailInv
  <1>2. ChainInv' /\ OwnInv'
    BY ChainInvNext, OwnInvNext DEF FailInv, TypeInv, ApplyInv
  <1>3. builds' = builds
    BY DEF PatchNext, CreateStep, patchVars
  <1>4. ProgressInv'
    BY <1>3, GoingOn, OtherSteps DEF PatchNext
  <1> QED
    BY <1>1, <1>2, <1>4 DEF FailInv

\* A call of Apply with a package that CreatePatch has made, on the previous
\* build, fails only because of its patches: one was made from other bytes
\* than those it is applied to, or copies beyond the end of the file.  For
\* all builds, chunk sizes and moduli, in place or not, and however many
\* calls have failed or died before in the staging area.  (A package of
\* another tool may fail for other reasons.)
THEOREM FailureCorrect ==
  PatchSpec => [](builds.package = NoPackage => FailureExplained)
  <1>1. PatchInit => FailInv
    BY TypeInvInit, ChainInvInit DEF FailInv
  <1>2. FailInv => (builds.package = NoPackage => FailureExplained)
    <2> SUFFICES ASSUME FailInv, builds.package = NoPackage,
                        result \in Results \ {NoResult, "SUCCESS"}, ~disturbed
                 PROVE  \E i \in DOMAIN package.patches :
                          ~BaseIsRecorded(package.patches[i]) \/ ~EndsWithFile(package.patches[i])
      BY DEF FailureExplained
    <2>1. package # NoPackage /\ ~Undisturbed
      BY DEF FailInv, ProgressInv
    <2> QED
      BY <2>1 DEF Undisturbed
  <1> QED
    BY <1>1, <1>2, FailInvNext, PTL DEF PatchSpec
==========================================================================

------------------------------ MODULE PatchMC ------------------------------
(***************************************************************************)
(* Small builds for TLC.  Byte 0 makes the checksums of runs of different  *)
(* lengths equal, and so does the modulus of the configuration for others. *)
(***************************************************************************)
EXTENDS Patch

CONSTANT MaxLength      \* of the files of which every pair is taken

\* Paths 1 and 3 share a folder, path 2 is in one below it.
MCFolderOf == [p \in Paths |-> IF p = 2 THEN "a/b" ELSE "a"]

MCAbove == [f \in {"a", "a/b"} |-> IF f = "a/b" THEN {"a"} ELSE {}]

Files(length) == UNION {[1..n -> Byte] : n \in 0..length}

Build(first, second, third) == [p \in Paths |-> <<first, second, third>>[p]]

Scenario(old, new, real, size, pack, inPlace, troubled, times) ==
  [previous |-> old, next |-> new, given |-> real, chunkSize |-> size, package |-> pack,
   inPlace |-> inPlace, troubled |-> troubled, calls |-> times]

\* Every pair of files, patched without faults: once in a staging area, and
\* for shorter files twice in place, where the second call meets files that
\* are patched already.
PairsOf(files, inPlace, times) ==
  {Scenario(Build(old, Absent, Absent), Build(new, Absent, Absent),
            Build(old, Absent, Absent), size, NoPackage, inPlace, FALSE, times) :
     old \in files, new \in files, size \in 1..2}

Pairwise ==
  PairsOf(Files(MaxLength), FALSE, 1) \cup PairsOf(Files(MaxLength - 1), TRUE, 2)

\* Changed, new, unchanged, emptied and removed files on a disk that fails.
Troubled ==
  {Scenario(b[1], b[2], b[1], 2, NoPackage, inPlace, TRUE, 2) :
     inPlace \in BOOLEAN,
     b \in {<<Build(<<1, 2, 1>>, Absent, <<1>>),
              Build(<<2, 1, 1>>, <<2, 2>>, Absent)>>,
            <<Build(<<1, 2, 2, 1>>, <<2>>, <<>>),
              Build(<<2, 1>>, <<2>>, <<1>>)>>}}

\* Another file than the one the package was made for, or none.
Astray ==
  {Scenario(Build(<<1, 2, 1>>, Absent, Absent), Build(<<2, 1, 1>>, Absent, Absent),
            Build(file, Absent, Absent), size, NoPackage, inPlace, FALSE, 1) :
     file \in Files(MaxLength) \cup {Absent}, size \in 1..2, inPlace \in BOOLEAN}

\* A package in which data that has not changed has no patch, and whose last
\* patch is behind the end of the file.
Delta(pos, base, out) ==
  [target |-> 1, dataOffset |-> pos, sourceOffset |-> pos, size |-> 0,
   base |-> base, result |-> out, hasData |-> TRUE]

OldPackage ==
  [group |-> <<1>>, removed |-> <<>>, chunkSize |-> 2,
   patches |-> <<Delta(3, <<1>>, <<0>>), Delta(4, <<>>, <<>>)>>]

Foreign ==
  {Scenario(Build(<<1, 2, 1, 1>>, Absent, Absent),
            Build(<<1, 2, 1, 0>>, Absent, Absent),
            Build(file, Absent, Absent), 2, OldPackage, inPlace, FALSE, 2) :
     file \in {<<1, 2, 1, 1>>, <<1, 2>>, <<2>>}, inPlace \in BOOLEAN}

\* The byte that is sought is at an offset an index file has no room for.
Wrapped ==
  {Scenario(Build(<<0, 0, 0, 0, 1>>, Absent, Absent), Build(<<1, 0>>, Absent, Absent),
            Build(<<0, 0, 0, 0, 1>>, Absent, Absent), size, NoPackage, FALSE, FALSE, 1) :
     size \in 1..2}

\* Any files are removed, which leaves none, some or all of a folder.
Emptied ==
  {Scenario(old, new, old, 1, NoPackage, FALSE, TRUE, 2) :
     old \in [Paths -> {Absent, <<1>>}], new \in [Paths -> {Absent, <<1>>}]}

MCScenarios ==
  Pairwise \cup Troubled \cup Astray \cup Foreign \cup Wrapped \cup Emptied
============================================================================

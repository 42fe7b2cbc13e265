------------------------ MODULE ResourceListsMC ------------------------
(***************************************************************************)
(* Merge and Diff on every pair of lists of at most MaxLength resources.   *)
(* The first list is also written as a document of each kind and read      *)
(* again.                                                                  *)
(***************************************************************************)
EXTENDS GroupDocuments

File(path, checksum, usize, csize) ==
  [path |-> path, checksum |-> checksum, usize |-> usize, csize |-> csize,
   type |-> "Resource"]

\* A file in two contents of the same size, the same content with and
\* without a compressed size, and a file of its own path.
MCFiles ==
  {File(1, "a", 2, 1), File(1, "b", 2, 3), File(2, "c", 1, 1),
   File(2, "c", 1, Unset), File(3, "d", 1, 1)}

MCGroupFile == File(4, "g", 3, Unset)

\* 0.0.1 counts as greater than 0.1.0 and is exported as that.
MCVersions == {<<0, 0, 0>>, <<0, 0, 1>>, <<0, 1, 0>>, <<0, 2, 0>>}

MCPrefixes == {Unset, "res"}

MCOperations == {Unset, 33279}
============================================================================

------------------------ MODULE ResourceGroupMC ------------------------
(***************************************************************************)
(* Small instances of ResourceGroup.  uintmax_t has four values, so that   *)
(* totals wrap after two resources.                                        *)
(***************************************************************************)
EXTENDS ResourceGroup

CONSTANTS none, bad

File(path, checksum, usize, csize) ==
  [path |-> path, checksum |-> checksum, usize |-> usize, csize |-> csize,
   type |-> "Resource"]

\* Two contents of one path, of the same size; a large file; a file whose
\* compression was skipped; a patch.
MCResources ==
  {File(1, "a", 2, 1), File(1, "b", 2, 3), File(2, "c", 3, 2),
   File(2, "d", 1, none),
   [File(3, "e", 1, 1) EXCEPT !.type = "BinaryPatch"]}

AllFields ==
  {"Type", "Version", "NumberOfResources", "Resources",
   "TotalResourcesSizeUnCompressed", "TotalResourcesSizeCompressed"}

Document(type, version, missing, items) ==
  [type |-> type, version |-> version, fields |-> AllFields \ missing,
   items |-> items]

Patch == [File(3, "e", 1, 1) EXCEPT !.type = "BinaryPatch"]

\* Documents that stop an import at each of its checks, one of the first
\* version, one of a later minor version, and one that lists a patch and
\* then an entry that is no resource.
MCDocuments ==
  {Document(TypeId, <<0, 0, 0>>, {}, <<>>),
   Document(TypeId, <<0, 1, 0>>, {"Type"}, <<>>),
   Document("PatchGroup", <<0, 1, 0>>, {}, <<>>),
   Document(TypeId, <<0, 1, 0>>, {"Version"}, <<>>),
   Document(TypeId, <<1, 0, 0>>, {}, <<>>),
   Document(TypeId, <<0, 2, 0>>, {"NumberOfResources"}, <<>>),
   Document(TypeId, <<0, 1, 0>>, {"Resources"}, <<>>),
   Document(TypeId, <<0, 1, 0>>, {"TotalResourcesSizeCompressed"}, <<>>),
   Document(TypeId, <<0, 1, 0>>, {}, <<Patch, bad>>)}
--------------------------------------------------------------------------
(* Two groups, so that a merge can have two sources and a third target.    *)

MergedResources == {File(1, "a", 2, 1), File(1, "b", 2, none)}

\* Nothing depends on what the last call returned.
WithoutResult == <<groups, call>>

GroupSymmetry == Permutations(Groups)
============================================================================

-------------------------- MODULE GroupDocuments --------------------------
(***************************************************************************)
(* A group of any kind is written as a document and read again.  Its       *)
(* resources are those of the list `this`, as objects of the class the     *)
(* kind of group has, with all the parameters of the class.                *)
(***************************************************************************)
EXTENDS ListPairs, Documents

CONSTANTS
  GroupFile,          \* the group of resources a package is made of
  GroupVersions,      \* of this program, of earlier and of later ones
  ResourcePrefixes,   \* strings, or Unset
  Operations          \* positive numbers, or Unset

ASSUME ParametersAssumption ==
  /\ GroupFile.path \in Nat
  /\ \A r \in Files \cup {GroupFile} : /\ r.checksum \in STRING
                                       /\ r.usize \in Nat
                                       /\ r.csize \in (Nat \ {0}) \cup {Unset}
  /\ GroupVersions \subseteq Version
  /\ ResourcePrefixes \subseteq STRING \cup {Unset}
  /\ Operations \subseteq (Nat \ {0}) \cup {Unset}

GroupTypes == {"ResourceGroup", "BundleGroup", "PatchGroup"}

\* What a parameter of a resource holds, and a parameter of a group.  (The
\* provers do not know that a literal is a string.)
Value ==
  Nat \cup STRING \cup Classes \cup {"the path", Default} \cup (Nat \X STRING)

Nodes == UNION {[D -> Value \cup {Unset}] :
                  D \in SUBSET (ResourceParameters \cup PatchParameters)}

OwnValue == Nat \cup Seq(Nat) \cup Nodes \cup {Unset}

\* No value is no number, string or pair, no resource and no node of one,
\* and no document.
ASSUME UnsetAssumption ==
  /\ Unset \notin Value
  /\ \A D \in SUBSET (ResourceParameters \cup PatchParameters) :
       Unset \notin [D -> Value \cup {Unset}]
  /\ \A D \in SUBSET (PatchGroupParameters \cup BundleGroupParameters) :
       /\ Unset \notin [D -> OwnValue]
       /\ Unset \notin [version : Version, type : GroupTypes,
                        own : [D -> OwnValue], resources : Seq(Nodes)]

\* A resource of the list with all its parameters, as an object of `class`.
Object(r, class, prefix, operation) ==
  [p \in ParametersOf(class) |->
     CASE p \in {"RelativePath", "TargetResourceRelativePath"} -> r.path
       [] p = "Type"            -> class
       [] p = "Location"        -> <<r.path, r.checksum>>
       [] p = "Checksum"        -> r.checksum
       [] p = "CompressedSize"  -> r.csize
       [] p = "BinaryOperation" -> operation
       [] p = "Prefix"          -> prefix
       [] OTHER                 -> r.usize]

ClassOf(type) ==
  CASE type = "PatchGroup"  -> "BinaryPatch"
    [] type = "BundleGroup" -> "BinaryChunk"
    [] OTHER                -> "Resource"

\* A group of the list, with a chunk size, removed paths and the group the
\* package is made of where its type has them.
GroupOf(list, type, version, prefix, operation) ==
  [type |-> type, version |-> version,
   own |-> [p \in GroupParameters(type) |->
              CASE p = "ResourceGroupResource" ->
                     Object(GroupFile, "ResourceGroup", Unset, Unset)
                [] p = "RemovedResourceRelativePaths" -> [i \in DOMAIN list |-> list[i].path]
                [] OTHER -> 2],
   resources |-> [i \in DOMAIN list |->
                    Object(list[i], ClassOf(type), prefix, operation)]]

\* Whatever the version of a group, what ExportToFile writes of it can be
\* read again and is the same group: every parameter is written, expected
\* and required in the same versions, on both sides.  Two losses are the
\* code's: documents of 0.0.0 have no types, so that a plain group that
\* is not empty cannot be read; and a row of CSV without a prefix comes
\* back with another path.  Copies, as Merge and Diff take them, are equal,
\* except that a patch has none.  (Nothing of it depends on `other`.)
DocumentsRestoreGroups ==
  other = <<>> =>
  \A type \in GroupTypes, version \in GroupVersions,
     prefix \in ResourcePrefixes, operation \in Operations :
    LET group    == GroupOf(this, type, version, prefix, operation)
        document == ExportYaml(group, DocumentVersion)
        read     == ImportDocument(document)
    IN  /\ document # Unset
        /\ IF version = <<0, 0, 0>>
           THEN (read = Unset) = (type = "ResourceGroup" /\ this # <<>>)
           ELSE read = [group EXCEPT !.version = DocumentVersion]
        /\ \A i \in DOMAIN this :
             LET r    == group.resources[i]
                 row  == ExportToCsv(r)
                 copy == CreateResourceFromResource(r, version)
             IN  /\ (row = Unset) = (r["CompressedSize"] = Unset)
                 /\ type = "ResourceGroup" /\ row # Unset
                      => (ImportFromCsv(row) = r) = (prefix # Unset)
                 /\ copy = IF type = "PatchGroup" THEN Unset ELSE r
===========================================================================

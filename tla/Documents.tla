---------------------------- MODULE Documents ----------------------------
(***************************************************************************)
(* What the documents of the library hold.  A resource is a function from  *)
(* the parameters of its class to their values, Unset where an optional    *)
(* holds none; a YAML node is a function from the tags it has.  Which      *)
(* parameters belong to a document is decided by its version.  An operator *)
(* that may fail is Unset when it does.                                    *)
(***************************************************************************)
EXTENDS ResourceLists, Versions

CONSTANT Default        \* a string or path that was not given: "", "NOT_SET"

ResourceParameters ==
  {"RelativePath", "Type", "Location", "Checksum", "UncompressedSize",
   "CompressedSize", "BinaryOperation", "Prefix"}

PatchParameters == {"TargetResourceRelativePath", "DataOffset", "SourceOffset"}

OptionalParameters == {"CompressedSize", "BinaryOperation", "Prefix"}

PatchGroupParameters ==
  {"ResourceGroupResource", "MaxInputChunkSize", "RemovedResourceRelativePaths"}

BundleGroupParameters == {"ResourceGroupResource", "ChunkSize"}

\* The table of parameters: context, parameter, introduced in.  None is
\* deprecated before VERSION_MAX.
ParameterTable ==
  {<<"Resource", p, <<0, 0, 0>>>> : p \in ResourceParameters \ {"Type"}}
  \cup {<<"Resource", "Type", <<0, 1, 0>>>>}
  \cup {<<"BinaryPatch", p, <<0, 0, 0>>>> : p \in PatchParameters}
  \cup {<<"PatchGroup", p, <<0, 1, 0>>>> : p \in PatchGroupParameters}
  \cup {<<"BundleGroup", p, <<0, 1, 0>>>> : p \in BundleGroupParameters}

\* A plausible slip: < for <=.
ExpectedInLater(parameter, context, version) ==
  \E e \in ParameterTable :
    e[1] = context /\ e[2] = parameter /\ Greater(version, e[3])

IsParameterExpected(parameter, context, version) ==
  \E e \in ParameterTable :
    e[1] = context /\ e[2] = parameter /\ LessOrEqual(e[3], version)
--------------------------------------------------------------------------
(* Resources.                                                              *)

Classes == {"Resource", "BinaryChunk", "BinaryPatch", "ResourceGroup",
            "BundleResourceGroup", "PatchResourceGroup"}

ParametersOf(class) ==
  IF class = "BinaryPatch" THEN ResourceParameters \cup PatchParameters
  ELSE ResourceParameters

Expected(parameters, version) ==
  {p \in parameters :
     IsParameterExpected(p, IF p \in PatchParameters THEN "BinaryPatch"
                            ELSE "Resource", version)}

\* The object the constructor makes of params that are all defaults.
NewResourceInfo(class) ==
  [p \in ParametersOf(class) |->
     CASE p = "Type" -> class
       [] p \in OptionalParameters -> Unset
       [] p \in {"UncompressedSize", "DataOffset", "SourceOffset"} -> 0
       [] OTHER -> Default]

ExportToYaml(resource, version) ==
  LET expected == Expected(DOMAIN resource, version)
  IN  IF \E p \in expected \ OptionalParameters : resource[p] = Unset
      THEN Unset
      ELSE [p \in {q \in expected : resource[q] # Unset} |-> resource[p]]

\* Into a new object: what is missing, or not expected, stays as it was.
ImportFromYaml(node, class, version) ==
  LET expected == Expected(ParametersOf(class), version)
  IN  IF ~(expected \ OptionalParameters \subseteq DOMAIN node) THEN Unset
      ELSE [p \in ParametersOf(class) |->
              IF p \in expected \cap DOMAIN node THEN node[p]
              ELSE NewResourceInfo(class)[p]]

\* The class is that of the Type, which an old document does not have.
CreateResourceInfoFromYamlNode(node, version) ==
  IF "Type" \in DOMAIN node /\ node["Type"] \in Classes
  THEN ImportFromYaml(node, node["Type"], version)
  ELSE Unset

\* TypeId is static, so that no resource passes for a patch.
SetParametersFromResource(other, class, version) ==
  LET copied == Expected(ResourceParameters, version) \ {"Type"}
  IN  IF class = "BinaryPatch" \/ \E p \in copied \ OptionalParameters : other[p] = Unset
      THEN Unset
      ELSE [p \in ParametersOf(class) |->
              CASE p \notin copied -> NewResourceInfo(class)[p]
                [] p = "BinaryOperation" /\ other[p] = 0 -> Unset
                [] OTHER -> other[p]]

\* A resource that is a group is not copied; the call succeeds all the same.
CreateResourceFromResource(resource, version) ==
  IF resource["Type"] \in {"Resource", "BinaryPatch", "BinaryChunk"}
  THEN SetParametersFromResource(resource, resource["Type"], version)
  ELSE Unset
--------------------------------------------------------------------------
(* Rows of CSV: as a resource, except that a path and its prefix are in    *)
(* one column and that there is no type.                                   *)

ExportToCsv(resource) ==
  IF resource["CompressedSize"] = Unset THEN Unset
  ELSE [p \in {q \in ResourceParameters \ {"Type"} : resource[q] # Unset} |->
          resource[p]]

\* A path of which the first character is missing.
Shortened == 0

\* The column is cut at ":/" without a check that there is one: a path
\* without a prefix is taken for the prefix, and for the path but for its
\* first character.  A compressed size or an operation of 0 is no value.
ImportFromCsv(row) ==
  [p \in ResourceParameters |->
     CASE p = "Type" -> "Resource"
       [] p \in {"BinaryOperation", "CompressedSize"} ->
            IF p \in DOMAIN row /\ row[p] # 0 THEN row[p] ELSE Unset
       [] p = "Prefix" -> IF p \in DOMAIN row THEN row[p] ELSE "the path"
       [] p = "RelativePath" -> IF "Prefix" \in DOMAIN row THEN row[p] ELSE Shortened
       [] OTHER -> row[p]]
--------------------------------------------------------------------------
(* Groups: their type, their version, the parameters a bundle and a patch  *)
(* have of their own, and the resources.  The number of resources and the  *)
(* totals are the matter of module ResourceGroup.                          *)

GroupParameters(type) ==
  CASE type = "PatchGroup"  -> PatchGroupParameters
    [] type = "BundleGroup" -> BundleGroupParameters
    [] OTHER                -> {}

NewGroupParameters(type) ==
  [p \in GroupParameters(type) |->
     CASE p = "ResourceGroupResource" -> NewResourceInfo("ResourceGroup")
       [] p = "ChunkSize" -> 1000
       [] p = "RemovedResourceRelativePaths" -> <<>>
       [] OTHER -> Unset]

ExpectedOfGroup(type, version) ==
  {p \in GroupParameters(type) : IsParameterExpected(p, type, version)}

\* A resource group that cannot be exported leaves a node that cannot be
\* imported: its result is not looked at.
ExportGroupSpecialisedYaml(group, version) ==
  [p \in ExpectedOfGroup(group.type, version) |->
     IF p = "ResourceGroupResource" THEN ExportToYaml(group.own[p], version)
     ELSE group.own[p]]

ExportYaml(group, requested) ==
  LET version == ExportedVersion(requested, group.version)
      nodes   == [i \in DOMAIN group.resources |->
                    ExportToYaml(group.resources[i], version)]
  IN  IF \/ requested \notin ValidVersions
         \/ "MaxInputChunkSize" \in ExpectedOfGroup(group.type, version)
            /\ group.own["MaxInputChunkSize"] = Unset
         \/ Unset \in {nodes[i] : i \in DOMAIN nodes}
      THEN Unset
      ELSE [version |-> version, type |-> group.type,
            own |-> ExportGroupSpecialisedYaml(group, version),
            resources |-> nodes]

\* The removed paths may be missing; a group of resources must be one.
ImportGroupSpecialisedYaml(document) ==
  LET expected == ExpectedOfGroup(document.type, document.version)
      group    == CreateResourceInfoFromYamlNode(
                    document.own["ResourceGroupResource"], document.version)
  IN  IF \/ ~(expected \ {"RemovedResourceRelativePaths"} \subseteq DOMAIN document.own)
         \/ "ResourceGroupResource" \in expected
            /\ (group = Unset \/ group["Type"] # "ResourceGroup")
      THEN Unset
      ELSE [p \in GroupParameters(document.type) |->
              IF p \notin expected \cap DOMAIN document.own
              THEN NewGroupParameters(document.type)[p]
              ELSE IF p = "ResourceGroupResource" THEN group
              ELSE document.own[p]]

\* Only a group of its own kind makes resources without asking for a Type.
CreateResourceFromYaml(type, node, version) ==
  CASE type = "PatchGroup"  -> ImportFromYaml(node, "BinaryPatch", version)
    [] type = "BundleGroup" -> ImportFromYaml(node, "BinaryChunk", version)
    [] OTHER                -> CreateResourceInfoFromYamlNode(node, version)

\* A document of the right type, read into a new group.
ImportDocument(document) ==
  LET own       == ImportGroupSpecialisedYaml(document)
      resources == [i \in DOMAIN document.resources |->
                      CreateResourceFromYaml(document.type, document.resources[i],
                                             document.version)]
  IN  IF \/ document.version[1] > DocumentVersion[1]
         \/ own = Unset
         \/ Unset \in {resources[i] : i \in DOMAIN resources}
      THEN Unset
      ELSE [type |-> document.type, version |-> document.version, own |-> own,
            resources |-> resources]
=============================================================================

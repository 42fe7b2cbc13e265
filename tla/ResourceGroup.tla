-------------------------- MODULE ResourceGroup --------------------------
(***************************************************************************)
(* The ResourceGroup objects of one program and the calls it makes on      *)
(* them.  A group is its list of resources and the figures kept beside the *)
(* list: the number of resources, the total uncompressed size and the      *)
(* total compressed size, which may hold no value.  The figures are never  *)
(* recomputed from the list: every call updates them one resource at a     *)
(* time, and a call that fails half way returns with what it had done.     *)
(*                                                                         *)
(* The library is single threaded.  A call that loops over resources is    *)
(* one step to begin it, one step per resource and one to finish it;       *)
(* between them the state is what a status callback sees, and what is left *)
(* when the call returns early.                                            *)
(***************************************************************************)
EXTENDS ResourceLists, Versions

CONSTANTS
  Groups,         \* the ResourceGroup objects
  NoGroup,
  Resources,      \* the resources that exist: records, see below
  BadResource,    \* an entry of a file that is not a resource
  Documents,      \* YAML files other programs and versions wrote
  MaxUint,        \* largest value of uintmax_t
  MaxItems        \* bound: longest list a call is given or makes

ASSUME ResourcesAssumption ==
  \A r \in Resources :
    /\ DOMAIN r = {"path", "checksum", "usize", "csize", "type"}
    /\ r.path \in Nat
    /\ r.usize \in 0..MaxUint
    /\ r.csize \in 1..MaxUint \cup {Unset}

ASSUME SizesAssumption ==
  /\ MaxUint \in Nat \ {0}
  /\ MaxItems \in Nat
  /\ MaxItems <= MaxUint

ASSUME SentinelsAssumption ==
  /\ BadResource \notin Resources
  /\ NoGroup \notin Groups
  /\ Unset \notin Nat

ASSUME DocumentsAssumption ==
  \A d \in Documents :
    /\ d.version \in Version
    /\ d.items \in Seq(Resources \cup {BadResource})

VARIABLES
  groups,         \* groups[g]: the members of ResourceGroupImpl
  call,           \* the call in progress
  result          \* what the last finished call returned

vars == <<groups, call, result>>

TypeId == "ResourceGroup"

Types == {TypeId} \cup {d.type : d \in Documents}

Uint == 0..MaxUint

Plain == {r \in Resources : r.type = "Resource"}

Paths == {r.path : r \in Resources}

AddingCalls == {"directory", "yaml", "csv", "merge"}

Calls == AddingCalls \cup {"remove", "idle"}

Idle == [op |-> "idle", target |-> NoGroup, pending |-> <<>>, flag |-> FALSE]

Codes == {"SUCCESS", "MALFORMED", "FILE_TYPE_MISMATCH", "IO_ERROR",
          "DOCUMENT_VERSION_UNSUPPORTED", "RESOURCE_TYPE_MISSMATCH",
          "RESOURCE_NOT_FOUND", "RESOURCE_VALUE_NOT_SET",
          "REQUIRED_RESOURCE_PARAMETER_NOT_SET", "bad_optional_access"}
--------------------------------------------------------------------------
(* uintmax_t arithmetic: it wraps.                                         *)

Plus(a, b) == IF a + b > MaxUint THEN a + b - MaxUint - 1 ELSE a + b

\* A plausible slip: arithmetic on a signed or wider type.
MinusWithoutWrap(a, b) == a - b

Minus(a, b) == IF a < b THEN a + MaxUint + 1 - b ELSE a - b
--------------------------------------------------------------------------
Fresh ==
  [items |-> <<>>, number |-> 0, total |-> 0, totalC |-> 0,
   type |-> TypeId, version |-> DocumentVersion]

Init ==
  /\ groups = [g \in Groups |-> Fresh]
  /\ call = Idle
  /\ result = "SUCCESS"

Return(code) == call' = Idle /\ result' = code

\* A plausible slip: a resource whose path is listed already is not counted.
AddResourceOnce(g, r) ==
  [g EXCEPT !.items  = Append(@, r),
            !.number = IF r.path \in PathsOf(g.items) THEN @ ELSE Plus(@, 1),
            !.total  = Plus(@, r.usize),
            !.totalC = IF Unset \in {@, r.csize} THEN @ ELSE Plus(@, r.csize)]

\* A plausible slip: the compressed size is counted in the wrong total.
AddResourceMixed(g, r) ==
  [g EXCEPT !.items  = Append(@, r),
            !.number = Plus(@, 1),
            !.total  = Plus(@, r.usize),
            !.totalC = IF Unset \in {@, r.csize} THEN @ ELSE Plus(@, r.usize)]

\* The group with one resource more.  The list and the number come first,
\* so a failure after them leaves the resource in.
AddResource(g, r) ==
  [g EXCEPT !.items  = Append(@, r),
            !.number = Plus(@, 1),
            !.total  = Plus(@, r.usize),
            !.totalC = IF Unset \in {@, r.csize} THEN @ ELSE Plus(@, r.csize)]

\* optional::value() of the compressed total throws when it was reset.
Throws(g, r) == r.csize # Unset /\ g.totalC = Unset

\* Every imported CSV row upgrades the document to 0.1.0.
Upgraded(g) == IF call.op = "csv" THEN [g EXCEPT !.version = DocumentVersion]
                                  ELSE g

AddNext(t) ==
  /\ call.op \in AddingCalls /\ call.target = t /\ call.pending # <<>>
  /\ LET r == Head(call.pending)
     IN  /\ r # BadResource
         /\ call.op = "merge" => r.type # "BinaryPatch"
         /\ groups' = [groups EXCEPT ![t] = AddResource(Upgraded(@), r)]
         /\ IF Throws(groups[t], r)
            THEN Return("bad_optional_access")
            ELSE /\ call' = [call EXCEPT !.pending = Tail(@)]
                 /\ UNCHANGED result

\* An entry of a file that is no resource ends an import.  A CSV row is
\* rejected before the version is upgraded.
RejectEntry(t) ==
  /\ call.op \in {"yaml", "csv"} /\ call.target = t /\ call.pending # <<>>
  /\ Head(call.pending) = BadResource
  /\ Return("MALFORMED")
  /\ UNCHANGED groups

\* PatchResourceInfo::SetParametersFromResource compares its type id with
\* the static one of ResourceInfo, so the copy of a patch always fails.
RejectCopy(t) ==
  /\ call.op = "merge" /\ call.target = t /\ call.pending # <<>>
  /\ Head(call.pending).type = "BinaryPatch"
  /\ Return("RESOURCE_TYPE_MISSMATCH")
  /\ UNCHANGED groups

\* Reading a file of the directory, or exporting a resource just added,
\* can fail at any point.
DirectoryFails(t) ==
  /\ call.op = "directory" /\ call.target = t
  /\ Return("IO_ERROR")
  /\ UNCHANGED groups

FinishAdding(t) ==
  /\ call.op \in AddingCalls /\ call.target = t /\ call.pending = <<>>
  /\ groups' = IF call.op = "directory" /\ ~call.flag
               THEN [groups EXCEPT ![t].totalC = Unset]
               ELSE groups
  /\ Return("SUCCESS")
--------------------------------------------------------------------------
(* Calls that add resources.  Room(t, list) is a bound of the model: the   *)
(* list has at most MaxItems entries, and so has what it is appended to.   *)

Room(t, list) ==
  /\ list \in BoundedSeq(Resources \cup {BadResource}, MaxItems)
  /\ Len(groups[t].items) + Len(list) <= MaxItems

Begin(op, t, list, flag) ==
  /\ call.op = "idle"
  /\ call' = [op |-> op, target |-> t, pending |-> list, flag |-> flag]
  /\ UNCHANGED result

\* A program discards a group object and makes another.
NewGroup(t) ==
  /\ call.op = "idle"
  /\ groups' = [groups EXCEPT ![t] = Fresh]
  /\ UNCHANGED <<call, result>>

\* The files of a directory, in the unspecified order of the iterator.
Listings(calculateCompressions) ==
  {list \in BoundedSeq(Plain, MaxItems) :
     /\ UniquePaths(list)
     /\ \A i \in DOMAIN list :
          (list[i].csize # Unset) = calculateCompressions}

CreateFromDirectory(t, calculateCompressions) ==
  \E list \in Listings(calculateCompressions) :
    /\ Room(t, list)
    /\ Begin("directory", t, list, calculateCompressions)
    /\ UNCHANGED groups

\* What ExportYaml writes; `fields` are the keys of the header.  A resource
\* has a Type from 0.1.0 on only, and one without a Type cannot be imported.
ExportYaml(g, requested) ==
  [type |-> g.type,
   version |-> ExportedVersion(requested, g.version),
   number |-> g.number,
   fields |-> {"Type", "Version", "NumberOfResources", "Resources",
               "TotalResourcesSizeUnCompressed"}
              \cup (IF g.totalC = Unset THEN {}
                    ELSE {"TotalResourcesSizeCompressed"}),
   items |-> IF ExportedVersion(requested, g.version) = DocumentVersion
             THEN g.items
             ELSE [i \in DOMAIN g.items |-> BadResource]]

YamlFiles ==
  Documents \cup
  {ExportYaml(groups[g], v) : g \in Groups, v \in YamlVersions}

\* ImportFromYaml up to its loop.  The type, the version and the compressed
\* total of the group are overwritten before the checks that may fail.
ImportFromYaml(t, d) ==
  LET typed  == [groups[t] EXCEPT !.type = d.type]
      dated  == [typed EXCEPT !.version = d.version]
      header == IF "TotalResourcesSizeCompressed" \in d.fields THEN dated
                ELSE [dated EXCEPT !.totalC = Unset]
      Stop(g, code) == /\ call.op = "idle"
                       /\ groups' = [groups EXCEPT ![t] = g]
                       /\ Return(code)
  IN \/ /\ "Type" \notin d.fields
        /\ Stop(groups[t], "MALFORMED")
     \/ /\ "Type" \in d.fields /\ d.type # TypeId
        /\ Stop(typed, "FILE_TYPE_MISMATCH")
     \/ /\ "Type" \in d.fields /\ d.type = TypeId
        /\ \/ /\ "Version" \notin d.fields
              /\ Stop(typed, "MALFORMED")
           \/ /\ "Version" \in d.fields /\ d.version[1] > DocumentVersion[1]
              /\ Stop(dated, "DOCUMENT_VERSION_UNSUPPORTED")
           \/ /\ "Version" \in d.fields /\ d.version[1] <= DocumentVersion[1]
              /\ \/ /\ "NumberOfResources" \notin d.fields
                    /\ Stop(dated, "MALFORMED")
                 \/ /\ "NumberOfResources" \in d.fields
                    /\ ~({"TotalResourcesSizeUnCompressed", "Resources"}
                           \subseteq d.fields)
                    /\ Stop(header, "MALFORMED")
                 \/ /\ {"NumberOfResources", "TotalResourcesSizeUnCompressed",
                        "Resources"} \subseteq d.fields
                    /\ Room(t, d.items)
                    /\ groups' = [groups EXCEPT ![t] = header]
                    /\ Begin("yaml", t, d.items, FALSE)

ImportFromCSV(t) ==
  \E rows \in BoundedSeq(Plain \cup {BadResource}, MaxItems) :
    /\ Room(t, rows)
    /\ Begin("csv", t, rows, FALSE)
    /\ UNCHANGED groups

\* this.Merge( other, merged = t ): the united list is made first, of
\* pointers, so that t may be one of the two.
Merge(this, other, t) ==
  \E a \in SortedLists(groups[this].items),
     b \in SortedLists(groups[other].items) :
    LET merged == MergedList(a, b)
    IN  /\ Room(t, merged)
        /\ Begin("merge", t, merged, FALSE)
        /\ UNCHANGED groups
--------------------------------------------------------------------------
(* RemoveResources.                                                        *)

RemoveResources(t, errorIfResourceNotFound) ==
  \E paths \in BoundedSeq(Paths, MaxItems) :
    /\ Begin("remove", t, paths, errorIfResourceNotFound)
    /\ UNCHANGED groups

Removing(t) == call.op = "remove" /\ call.target = t /\ call.pending # <<>>

\* Find: the first entry with the path.
Found(t, i) ==
  /\ i \in DOMAIN groups[t].items
  /\ groups[t].items[i].path = Head(call.pending)
  /\ \A j \in 1..i - 1 : groups[t].items[j].path # Head(call.pending)

RemoveMissing(t) ==
  /\ Removing(t)
  /\ Head(call.pending) \notin PathsOf(groups[t].items)
  /\ IF call.flag
     THEN Return("RESOURCE_NOT_FOUND")
     ELSE call' = [call EXCEPT !.pending = Tail(@)] /\ UNCHANGED result
  /\ UNCHANGED groups

\* The group without its i-th resource.
Without(g, i) ==
  [g EXCEPT !.items  = RemoveAt(@, i),
            !.number = Minus(@, 1),
            !.total  = Minus(@, g.items[i].usize),
            !.totalC = Minus(@, g.items[i].csize)]

RemoveFound(t) ==
  /\ Removing(t)
  /\ \E i \in DOMAIN groups[t].items :
       /\ Found(t, i)
       /\ groups[t].items[i].csize # Unset
       /\ groups[t].totalC # Unset
       /\ groups' = [groups EXCEPT ![t] = Without(@, i)]
  /\ call' = [call EXCEPT !.pending = Tail(@)]
  /\ UNCHANGED result

\* The number is decremented before the sizes are asked for.  A resource
\* without a compressed size ends the call there and stays in the list.
RemoveUncompressed(t) ==
  /\ Removing(t)
  /\ \E i \in DOMAIN groups[t].items :
       Found(t, i) /\ groups[t].items[i].csize = Unset
  /\ groups' = [groups EXCEPT ![t].number = Minus(@, 1)]
  /\ Return("RESOURCE_VALUE_NOT_SET")

\* With no compressed total to subtract from, value() throws after the
\* number and the uncompressed total have changed.
RemoveThrows(t) ==
  /\ Removing(t)
  /\ groups[t].totalC = Unset
  /\ \E i \in DOMAIN groups[t].items :
       /\ Found(t, i) /\ groups[t].items[i].csize # Unset
       /\ groups' = [groups EXCEPT
                       ![t].number = Minus(@, 1),
                       ![t].total = Minus(@, groups[t].items[i].usize)]
  /\ Return("bad_optional_access")

FinishRemoving(t) ==
  /\ call.op = "remove" /\ call.target = t /\ call.pending = <<>>
  /\ Return("SUCCESS")
  /\ UNCHANGED groups

\* ExportCsv is const, and sorts the list of the group through the pointer
\* the parameter holds.  A resource without a compressed size fails it.
ExportCsv(t) ==
  /\ call.op = "idle"
  /\ \E list \in SortedLists(groups[t].items) :
       groups' = [groups EXCEPT ![t].items = list]
  /\ Return(IF \E i \in DOMAIN groups[t].items :
                 groups[t].items[i].csize = Unset
            THEN "REQUIRED_RESOURCE_PARAMETER_NOT_SET" ELSE "SUCCESS")
--------------------------------------------------------------------------
Next ==
  \E t \in Groups :
    \/ NewGroup(t)
    \/ \E calc \in BOOLEAN : CreateFromDirectory(t, calc)
    \/ \E d \in YamlFiles : ImportFromYaml(t, d)
    \/ ImportFromCSV(t)
    \/ \E this, other \in Groups : Merge(this, other, t)
    \/ \E err \in BOOLEAN : RemoveResources(t, err)
    \/ ExportCsv(t)
    \/ AddNext(t)
    \/ RejectEntry(t)
    \/ RejectCopy(t)
    \/ DirectoryFails(t)
    \/ FinishAdding(t)
    \/ RemoveMissing(t)
    \/ RemoveFound(t)
    \/ RemoveUncompressed(t)
    \/ RemoveThrows(t)
    \/ FinishRemoving(t)

Spec == Init /\ [][Next]_vars
--------------------------------------------------------------------------
\* Every field of a group, and the list a call still has to handle, has the
\* type the code declares for it.
Group ==
  [items : Seq(Resources), number : Uint, total : Uint,
   totalC : Uint \cup {Unset}, type : Types, version : Version]

PendingOK ==
  \/ /\ call.op \in {"yaml", "csv", "merge"}
     /\ call.pending \in Seq(Resources \cup {BadResource})
  \/ call.op = "directory" /\ call.pending \in Seq(Resources)
  \/ call.op = "remove" /\ call.pending \in Seq(Paths)
  \/ call.op = "idle" /\ call.pending = <<>>

TypeOK ==
  /\ groups \in [Groups -> Group]
  /\ call \in [op : Calls, target : Groups \cup {NoGroup},
               pending : {call.pending}, flag : BOOLEAN]
  /\ PendingOK
  /\ result \in Codes

\* The number kept beside the list is its length as long as the compressed
\* total holds a value and no resource lacks a compressed size, whatever
\* calls failed half way before: a removal that fails after it has changed
\* the number needs a resource without a compressed size, and leaves it in.
Compressed(g) ==
  /\ g.totalC # Unset
  /\ \A i \in DOMAIN g.items : g.items[i].csize # Unset

CountExact ==
  \A g \in Groups :
    Compressed(groups[g]) => groups[g].number = Len(groups[g].items)

\* What CountExact needs to be inductive: the list never outgrows the bound
\* of the model, and so the number never wraps.
Fits ==
  call.op \in AddingCalls =>
    /\ call.target \in Groups
    /\ Len(groups[call.target].items) + Len(call.pending) <= MaxItems

CountInv == TypeOK /\ Fits /\ CountExact

TotalOf(numbers) ==
  LET sum[n \in 0..Len(numbers)] ==
        IF n = 0 THEN 0 ELSE sum[n - 1] + numbers[n]
  IN  sum[Len(numbers)]

Sizes(list) == [i \in DOMAIN list |-> list[i].usize]

CompressedSizes(list) ==
  [i \in DOMAIN list |-> IF list[i].csize = Unset THEN 0 ELSE list[i].csize]

\* The two totals are the sums over the list, modulo the width of
\* uintmax_t, as long as the compressed total holds a value.
TotalsExact ==
  \A g \in Groups :
    groups[g].totalC # Unset =>
      /\ groups[g].total = TotalOf(Sizes(groups[g].items)) % (MaxUint + 1)
      /\ groups[g].totalC
           = TotalOf(CompressedSizes(groups[g].items)) % (MaxUint + 1)

\* Whatever version the imports of a group have left in it, the unsupported
\* ones included, it is exported in a version this build can read.
ExportedVersionSupported ==
  \A g \in Groups, v \in ValidVersions :
    ExportedVersion(v, groups[g].version) \in ValidVersions

\* resourceGroupFileFormat.rst says that NumberOfResources is the number of
\* resources which appear in the group.
ExportedNumberIsListed ==
  \A g \in Groups, v \in YamlVersions :
    LET file == ExportYaml(groups[g], v) IN file.number = Len(file.items)
=============================================================================
